------------------------------- MODULE Tracing -------------------------------
(***************************************************************************)
(* The parallel transitive closure of a tracing pause.                     *)
(*                                                                         *)
(* Workers run PlanProcessEdges packets over slots.  Tracing the object in *)
(* a slot depends on its space: a copying space and the blocks that Immix  *)
(* defragments go through the forwarding word, the large object space      *)
(* through its mark and nursery bits and the treadmill, the other spaces   *)
(* through a mark bit.  Each access to a forwarding word, a mark or a      *)
(* treadmill set is a step of its own; slots, buffers and fields of a new  *)
(* copy belong to one worker.                                              *)
(*                                                                         *)
(* An object has one field.  Slot -r is root r and slot a the field of the *)
(* object at address a.  Copies get fresh addresses.                       *)
(***************************************************************************)
EXTENDS Naturals, Integers, Sequences, FiniteSets, Functions

CONSTANTS
  TraceWorkers,
  NumObjects, NumRoots,
  Layouts,       \* the heaps to start from: the space of each object
  BUFFER_SIZE    \* slots per packet

Originals == 1 .. NumObjects
Addresses == 1 .. 3 * NumObjects
RootSlots == -NumRoots .. -1
Null == 0

\* The spaces an object may be in when the pause starts: hi is false, so the
\* mutators have allocated in copyspace0.
Spaces == {"copyspace0", "defrag", "block", "los", "immortal"}

ASSUME TracingAssumption ==
  /\ NumObjects \in Nat /\ NumRoots \in Nat /\ BUFFER_SIZE \in Nat
  /\ Layouts \subseteq [Originals -> Spaces]

\* Forwarding bits.
FORWARDING_NOT_TRIGGERED_YET == 0
BEING_FORWARDED == 2
FORWARDED == 3

VARIABLES
  phase,        \* "mutator", "closure" or "released"
  hi,           \* SemiSpace::hi
  layout,       \* the space of each address
  slotValue,    \* the reference in each slot
  initial,      \* slotValue at the start of the pause, and the origin of each copy
  fwd,          \* forwarding bits and pointer of each address
  marks,        \* mark bits; for large objects also the nursery bit
  markState,    \* LargeObjectSpace::mark_state
  treadmill,
  exhausted,    \* Defrag::space_exhausted
  packets,      \* slots of the packets in the bucket
  tracer        \* tracer[w]: what worker w is doing

traceVars == <<phase, hi, layout, slotValue, initial, fwd, marks, markState, treadmill,
               exhausted, packets, tracer>>

Resting == [pc |-> "idle", slots |-> <<>>, i |-> 1, pass |-> 1, next |-> <<>>,
            obj |-> Null, new |-> Null, young |-> FALSE]

LargeObjects == {a \in Originals : layout[a] = "los"}

-----------------------------------------------------------------------------
(* Before and after the closure                                             *)

\* Semispace: after the flip of hi the space that mutators allocated in is the
\* from-space.
FromSpace == IF hi THEN "copyspace0" ELSE "copyspace1"
ToSpace == IF hi THEN "copyspace1" ELSE "copyspace0"
SemiSpacePrepare == hi' = ~hi

\* TreadMill::flip(true): both pairs of sets are swapped.
flip(t) == [from |-> t.to, to |-> t.from, collectNursery |-> t.allocNursery,
            allocNursery |-> t.collectNursery]
LargeObjectSpacePrepare == markState' = 1 - markState /\ treadmill' = flip(treadmill)

DefragPrepare == exhausted' = FALSE

\* Plan::prepare, and the packets of the root slots.  Marks are clear when a pause
\* starts, except in the large object space, which flips its mark state instead.
prepare ==
  /\ phase = "mutator"
  /\ phase' = "closure"
  /\ SemiSpacePrepare /\ LargeObjectSpacePrepare /\ DefragPrepare
  /\ packets' = {<<s>> : s \in RootSlots}
  /\ initial' = [initial EXCEPT !.slots = slotValue]
  /\ UNCHANGED <<layout, slotValue, fwd, marks, tracer>>

\* The addresses that each space gives up.
CopySpaceFrees == {a \in Addresses : layout[a] = FromSpace}
ImmixSpaceFrees == {a \in Addresses : layout[a] \in {"defrag", "block"} /\ marks[a].bit = 0}
collect == treadmill.from
collect_nursery == treadmill.collectNursery

\* The nursery is swept, then, in a full collection, the from-space.
sweep_large_pages == collect_nursery \cup collect

\* Plan::release.
release ==
  /\ phase = "closure"
  /\ packets = {} /\ \A w \in TraceWorkers : tracer[w].pc = "idle"
  /\ phase' = "released"
  /\ layout' = [a \in Addresses |->
                  IF a \in CopySpaceFrees \cup ImmixSpaceFrees \cup sweep_large_pages THEN "free"
                  ELSE layout[a]]
  /\ fwd' = [a \in Addresses |-> IF a \in CopySpaceFrees THEN [fwd[a] EXCEPT !.bits = 0] ELSE fwd[a]]
  /\ treadmill' = [treadmill EXCEPT !.from = {}, !.collectNursery = {}]
  /\ UNCHANGED <<hi, slotValue, initial, marks, markState, exhausted, packets, tracer>>

-----------------------------------------------------------------------------
(* Slots                                                                    *)

Me(w) == tracer[w]
Slot(w) == Me(w).slots[Me(w).i]

\* The next slot of the packet.  The slots of a packet are processed twice; what
\* they led to is processed from next until nothing is left.
process_slots(t) ==
  IF t.i < Len(t.slots) THEN [t EXCEPT !.pc = "slot", !.i = @ + 1]
  ELSE IF t.pass = 1 THEN [t EXCEPT !.pc = "slot", !.i = 1, !.pass = 2]
  ELSE IF t.next # <<>> THEN [Resting EXCEPT !.pc = "slot", !.slots = t.next, !.pass = 2]
  ELSE Resting

Continue(w, t) == tracer' = [tracer EXCEPT ![w] = process_slots(t)]
At(w, pc) == phase = "closure" /\ Me(w).pc = pc
Becomes(w, t) == tracer' = [tracer EXCEPT ![w] = t]
Heap == <<phase, hi, layout, initial, markState>>

do_work(w) ==
  /\ At(w, "idle")
  /\ \E p \in packets : /\ packets' = packets \ {p}
                        /\ Becomes(w, [Resting EXCEPT !.pc = "slot", !.slots = p])
  /\ UNCHANGED <<Heap, slotValue, fwd, marks, treadmill, exhausted>>

\* The object is dispatched on its space; objects of the to-space are done.
process_slot(w) ==
  LET o == slotValue[Slot(w)]
      at(pc) == Becomes(w, [Me(w) EXCEPT !.pc = pc, !.obj = o])
  IN /\ At(w, "slot")
     /\ IF o = Null \/ layout[o] = ToSpace THEN Continue(w, Me(w))
        ELSE at(CASE layout[o] \in {FromSpace, "defrag"} -> "status"
                  [] layout[o] = "los" -> "nursery"
                  [] OTHER -> "mark")
     /\ UNCHANGED <<Heap, slotValue, fwd, marks, treadmill, exhausted, packets>>

\* ObjectQueue::enqueue: the slots of a new object, a packet when there are enough.
Enqueued(w, a) ==
  LET next == IF slotValue[a] = Null THEN Me(w).next ELSE Append(Me(w).next, a)
  IN IF slotValue[a] # Null /\ Len(next) >= BUFFER_SIZE
     THEN [packets |-> packets \cup {next}, next |-> <<>>]
     ELSE [packets |-> packets, next |-> next]
enqueue(w, t, a) ==
  /\ packets' = Enqueued(w, a).packets
  /\ Becomes(w, [t EXCEPT !.next = Enqueued(w, a).next])

\* The slot gets the new address if the object moved.
store(w) ==
  /\ At(w, "store")
  /\ slotValue' = [slotValue EXCEPT ![Slot(w)] = Me(w).new]
  /\ Continue(w, Me(w))
  /\ UNCHANGED <<Heap, fwd, marks, treadmill, exhausted, packets>>

-----------------------------------------------------------------------------
(* Forwarding                                                               *)

get_forwarding_status(w) ==
  /\ At(w, "status")
  /\ Becomes(w, [Me(w) EXCEPT !.pc = IF fwd[Me(w).obj].bits = FORWARDING_NOT_TRIGGERED_YET
                                     THEN "cas" ELSE "spin"])
  /\ UNCHANGED <<Heap, slotValue, fwd, marks, treadmill, exhausted, packets>>

\* Mistake: the bits are set whatever another worker did after they were read.
attempt_to_forwardPlainStore(w) ==
  /\ At(w, "cas")
  /\ Becomes(w, [Me(w) EXCEPT !.pc = "won"])
  /\ fwd' = [fwd EXCEPT ![Me(w).obj].bits = BEING_FORWARDED]
  /\ UNCHANGED <<Heap, slotValue, marks, treadmill, exhausted, packets>>

\* The compare-and-exchange; a loser reads the status again.
attempt_to_forward(w) ==
  LET wins == fwd[Me(w).obj].bits = FORWARDING_NOT_TRIGGERED_YET
  IN /\ At(w, "cas")
     /\ Becomes(w, [Me(w) EXCEPT !.pc = IF wins THEN "won" ELSE "status"])
     /\ fwd' = IF wins THEN [fwd EXCEPT ![Me(w).obj].bits = BEING_FORWARDED] ELSE fwd
     /\ UNCHANGED <<Heap, slotValue, marks, treadmill, exhausted, packets>>

\* A loser waits; the winner may have left the object where it was.
spin_and_get_forwarded_object(w) ==
  LET f == fwd[Me(w).obj]
  IN /\ At(w, "spin")
     /\ f.bits # BEING_FORWARDED
     /\ Becomes(w, [Me(w) EXCEPT !.pc = "store",
                                 !.new = IF f.bits = FORWARDED THEN f.pointer ELSE Me(w).obj])
     /\ UNCHANGED <<Heap, slotValue, fwd, marks, treadmill, exhausted, packets>>

\* What the winner does: a copying space copies.
CopySpaceTrace(w) ==
  /\ At(w, "won") /\ layout[Me(w).obj] = FromSpace
  /\ Becomes(w, [Me(w) EXCEPT !.pc = "copy"])
  /\ UNCHANGED <<Heap, slotValue, fwd, marks, treadmill, exhausted, packets>>

\* Immix leaves an object that is marked already, or that it has no room to copy.
trace_object_with_opportunistic_copy(w) ==
  LET o == Me(w).obj
  IN /\ At(w, "won") /\ layout[o] = "defrag"
     /\ Becomes(w, [Me(w) EXCEPT !.pc = IF marks[o].bit = 1 THEN "clear"
                                        ELSE IF exhausted THEN "pin" ELSE "copy"])
     /\ UNCHANGED <<Heap, slotValue, fwd, marks, treadmill, exhausted, packets>>

clear_forwarding_bits(w) ==
  /\ At(w, "clear")
  /\ fwd' = [fwd EXCEPT ![Me(w).obj].bits = FORWARDING_NOT_TRIGGERED_YET]
  /\ Becomes(w, [Me(w) EXCEPT !.pc = "store", !.new = Me(w).obj])
  /\ UNCHANGED <<Heap, slotValue, marks, treadmill, exhausted, packets>>

\* Mistake: the object is marked and the forwarding bits are kept.
MarkInPlaceKeepsBits(w) ==
  /\ At(w, "pin")
  /\ marks' = [marks EXCEPT ![Me(w).obj].bit = 1]
  /\ enqueue(w, [Me(w) EXCEPT !.pc = "store", !.new = Me(w).obj], Me(w).obj)
  /\ UNCHANGED <<Heap, slotValue, fwd, treadmill, exhausted>>

\* attempt_mark, then the forwarding bits.
MarkInPlace(w) ==
  \/ /\ At(w, "pin") /\ marks[Me(w).obj].bit = 0
     /\ marks' = [marks EXCEPT ![Me(w).obj].bit = 1]
     /\ UNCHANGED <<Heap, slotValue, fwd, treadmill, exhausted, packets, tracer>>
  \/ /\ At(w, "pin") /\ marks[Me(w).obj].bit = 1
     /\ fwd' = [fwd EXCEPT ![Me(w).obj].bits = FORWARDING_NOT_TRIGGERED_YET]
     /\ enqueue(w, [Me(w) EXCEPT !.pc = "store", !.new = Me(w).obj], Me(w).obj)
     /\ UNCHANGED <<Heap, slotValue, marks, treadmill, exhausted>>

\* Where the copy goes: the other copying space, or a hole of a mature block.
alloc_copy(o, a) == [layout EXCEPT ![a] = IF layout[o] = FromSpace THEN ToSpace ELSE "block"]

\* The copy in an Immix space is marked.
post_copy(o, a) == [marks EXCEPT ![a].bit = IF layout[o] = FromSpace THEN 0 ELSE 1]

write_forwarding_pointer(o, a) == [fwd EXCEPT ![o].pointer = a]

Unused == CHOOSE a \in Addresses : layout[a] = "unused"

\* forward_object and try_forward_object up to the forwarding pointer.
copy(w) ==
  LET o == Me(w).obj
      a == Unused
  IN /\ At(w, "copy")
     /\ layout' = alloc_copy(o, a)
     /\ slotValue' = [slotValue EXCEPT ![a] = slotValue[o]]
     /\ initial' = [initial EXCEPT !.origin[a] = o]
     /\ marks' = post_copy(o, a)
     /\ fwd' = write_forwarding_pointer(o, a)
     /\ Becomes(w, [Me(w) EXCEPT !.pc = "publish", !.new = a])
     /\ UNCHANGED <<phase, hi, markState, treadmill, exhausted, packets>>

\* The forwarding bits end it; the copy is enqueued.
publish(w) ==
  /\ At(w, "publish")
  /\ fwd' = [fwd EXCEPT ![Me(w).obj].bits = FORWARDED]
  /\ enqueue(w, [Me(w) EXCEPT !.pc = "store"], Me(w).new)
  /\ UNCHANGED <<Heap, slotValue, marks, treadmill, exhausted>>

\* The copy allocator takes the last clean block that defragmentation may use.
notify_new_clean_block ==
  /\ phase = "closure" /\ ~exhausted
  /\ exhausted' = TRUE
  /\ UNCHANGED <<Heap, slotValue, fwd, marks, treadmill, packets, tracer>>

-----------------------------------------------------------------------------
(* Marking in place                                                         *)

\* Who marks the object enqueues it.
MarkOrSkip(w) ==
  LET o == Me(w).obj
  IN /\ IF marks[o].bit = 1
        THEN Continue(w, Me(w)) /\ UNCHANGED <<marks, packets>>
        ELSE /\ marks' = [marks EXCEPT ![o].bit = 1]
             /\ packets' = Enqueued(w, o).packets
             /\ Continue(w, [Me(w) EXCEPT !.next = Enqueued(w, o).next])
     /\ UNCHANGED <<Heap, slotValue, fwd, treadmill, exhausted>>

trace_object_without_moving(w) ==
  At(w, "mark") /\ layout[Me(w).obj] = "block" /\ MarkOrSkip(w)

ImmortalSpaceTrace(w) ==
  At(w, "mark") /\ layout[Me(w).obj] = "immortal" /\ MarkOrSkip(w)

is_in_nursery(w) ==
  /\ At(w, "nursery")
  /\ Becomes(w, [Me(w) EXCEPT !.pc = "los", !.young = marks[Me(w).obj].nursery])
  /\ UNCHANGED <<Heap, slotValue, fwd, marks, treadmill, exhausted, packets>>

\* Marking also takes the object out of the nursery.
test_and_mark(w) ==
  LET o == Me(w).obj
  IN /\ At(w, "los")
     /\ IF marks[o].bit = markState
        THEN Continue(w, Me(w)) /\ UNCHANGED marks
        ELSE /\ marks' = [marks EXCEPT ![o] = [bit |-> markState, nursery |-> FALSE]]
             /\ Becomes(w, [Me(w) EXCEPT !.pc = "treadmill"])
     /\ UNCHANGED <<Heap, slotValue, fwd, treadmill, exhausted, packets>>

\* A large object leaves the set it was in.
TreadMillCopy(o, young) ==
  IF young THEN [treadmill EXCEPT !.collectNursery = @ \ {o}, !.to = @ \cup {o}]
  ELSE [treadmill EXCEPT !.from = @ \ {o}, !.to = @ \cup {o}]

\* By the worker that marked the object; then the enqueue.
treadmill_copy(w) ==
  LET o == Me(w).obj
  IN /\ At(w, "treadmill")
     /\ treadmill' = TreadMillCopy(o, Me(w).young)
     /\ packets' = Enqueued(w, o).packets
     /\ Continue(w, [Me(w) EXCEPT !.next = Enqueued(w, o).next])
     /\ UNCHANGED <<Heap, slotValue, fwd, marks, exhausted>>

-----------------------------------------------------------------------------
\* Large objects are young or old; young ones were allocated after the last pause.
TracingInit ==
  /\ phase = "mutator"
  /\ hi = FALSE
  /\ layout \in {[a \in Addresses |-> IF a \in Originals THEN l[a] ELSE "unused"] : l \in Layouts}
  /\ slotValue \in {[s \in RootSlots \cup Addresses |-> IF s \in DOMAIN v THEN v[s] ELSE Null] :
                      v \in [RootSlots \cup Originals -> Originals \cup {Null}]}
  /\ initial = [slots |-> slotValue, origin |-> [a \in Addresses |-> a]]
  /\ fwd = [a \in Addresses |-> [bits |-> FORWARDING_NOT_TRIGGERED_YET, pointer |-> Null]]
  /\ markState = 0
  /\ \E young \in SUBSET LargeObjects :
       /\ marks = [a \in Addresses |-> [bit |-> 0, nursery |-> a \in young]]
       /\ treadmill = [from |-> {}, to |-> LargeObjects \ young, collectNursery |-> {},
                       allocNursery |-> young]
  /\ exhausted = FALSE
  /\ packets = {}
  /\ tracer = [w \in TraceWorkers |-> Resting]

TracingNext ==
  \/ prepare \/ release \/ notify_new_clean_block
  \/ \E w \in TraceWorkers :
       \/ do_work(w) \/ process_slot(w) \/ store(w)
       \/ get_forwarding_status(w) \/ attempt_to_forward(w) \/ spin_and_get_forwarded_object(w)
       \/ CopySpaceTrace(w) \/ trace_object_with_opportunistic_copy(w)
       \/ clear_forwarding_bits(w) \/ MarkInPlace(w) \/ copy(w) \/ publish(w)
       \/ trace_object_without_moving(w) \/ ImmortalSpaceTrace(w) \/ is_in_nursery(w) \/ test_and_mark(w) \/ treadmill_copy(w)

TracingSpec == TracingInit /\ [][TracingNext]_traceVars

-----------------------------------------------------------------------------
\* What n steps reach from the root slots when the slots hold v.
Reached(v) ==
  LET Hops[n \in 0 .. NumObjects] ==
        IF n = 0 THEN {v[s] : s \in RootSlots} \ {Null}
        ELSE Hops[n - 1] \cup ({v[a] : a \in Hops[n - 1]} \ {Null})
  IN Hops[NumObjects]

\* Whatever the workers race for, the closure yields the heap it started from:
\* after release every reachable object is intact memory, is the only survivor
\* of the object it stands for, and refers to the survivors of what that object
\* referred to; and the treadmill holds exactly the
\* reachable large objects (copyspace, immixspace and largeobjectspace
\* trace_object with object_forwarding).
ClosureIsExact ==
  phase = "released" =>
    LET now == Reached(slotValue)
        before == Reached(initial.slots)
        origin(a) == IF a = Null THEN Null ELSE initial.origin[a]
    IN /\ \A a \in now : layout[a] \notin {"free", "unused"}
       /\ {origin(a) : a \in now} = before
       /\ \A s \in RootSlots : origin(slotValue[s]) = initial.slots[s]
       /\ \A a \in now : origin(slotValue[a]) = initial.slots[origin(a)]
       /\ IsInjective([a \in now |-> origin(a)])
       /\ treadmill.to = LargeObjects \cap before

\* The worker is between its compare-and-exchange and the store that ends it.
Forwards(w, a) == tracer[w].obj = a /\ tracer[w].pc \in {"won", "clear", "pin", "copy", "publish"}

\* The addresses that objects were copied to in this pause.
Copies == {a \in Addresses \ Originals : layout[a] # "unused"}

\* An object that is being forwarded has exactly one worker that will end that
\* state, so the workers that spin on it wait for somebody; an object has one
\* copy at most, however the workers race for it; and the forwarding pointer of
\* an object that is forwarded is its copy, so a worker that lost the race never
\* stores a stale address (object_forwarding attempt_to_forward,
\* spin_and_get_forwarded_object, forward_object).
OneWorkerForwards ==
  /\ \A a \in Addresses :
       /\ \A v, w \in TraceWorkers : Forwards(v, a) /\ Forwards(w, a) => v = w
       /\ fwd[a].bits = BEING_FORWARDED <=> \E w \in TraceWorkers : Forwards(w, a)
       /\ fwd[a].bits = FORWARDED => fwd[a].pointer \in Copies
                                     /\ initial.origin[fwd[a].pointer] = a
  /\ \A a, b \in Copies : initial.origin[a] = initial.origin[b] => a = b

=============================================================================
