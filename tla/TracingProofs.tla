---------------------------- MODULE TracingProofs ----------------------------
(***************************************************************************)
(* The parallel closure, for any number of workers, objects and roots and  *)
(* whatever spaces the objects are in: forwarding is exact, and the pause  *)
(* ends with the heap it started from.                                     *)
(*                                                                         *)
(* The first half keeps TraceInv, which is about the workers that race for *)
(* one object.  The second half keeps ClosureInv, which is about the whole *)
(* heap: every slot of a survivor is done, waits in a packet or with a     *)
(* worker, or is about to be enqueued by the worker that made its object a *)
(* survivor.  When nothing waits, the survivors are closed under the       *)
(* slots, and an induction on the hops of Reached maps what the roots      *)
(* reach now onto what they reached before.                                *)
(***************************************************************************)
EXTENDS Tracing, FiniteSetTheorems, TLAPS

\* A leaf is a first-order argument for Zenon unless it cites SMT.
USE ZenonT(60)

Slots == RootSlots \cup Addresses
Ending == {"won", "clear", "pin", "copy", "publish"}
PCs == {"idle", "slot", "status", "cas", "spin", "mark", "nursery", "los", "treadmill", "store"}
         \cup Ending

Tracers ==
  [pc : PCs, slots : Seq(Slots), i : Nat, pass : {1, 2}, next : Seq(Slots),
   obj : Addresses \cup {Null}, new : Addresses \cup {Null}, young : BOOLEAN]

Marks == [Addresses -> [bit : {0, 1}, nursery : BOOLEAN]]

TreadMills ==
  [from : SUBSET Originals, to : SUBSET Originals,
   collectNursery : SUBSET Originals, allocNursery : SUBSET Originals]

\* What a worker at each place has in hand.
Busy(t) ==
  /\ t.pc # "idle" => t.i \in 1 .. Len(t.slots)
  /\ t.pc \notin {"idle", "slot"} => t.obj \in Addresses
  /\ t.pc \in {"status", "cas", "spin", "nursery", "los", "treadmill"} \cup Ending
       => t.obj \in Originals
  /\ t.pc = "store" => t.new \in Addresses

TraceTypes ==
  /\ phase \in {"mutator", "closure", "released"} /\ hi \in BOOLEAN
  /\ layout \in [Addresses -> Spaces \cup {"copyspace1", "unused", "free"}]
  /\ slotValue \in [Slots -> Addresses \cup {Null}]
  /\ initial \in [slots : [Slots -> Addresses \cup {Null}], origin : [Addresses -> Addresses]]
  /\ fwd \in [Addresses -> [bits : {0, 2, 3}, pointer : Addresses \cup {Null}]]
  /\ marks \in Marks /\ markState \in {0, 1}
  /\ treadmill \in TreadMills
  /\ packets \subseteq Seq(Slots) \ {<<>>}
  /\ tracer \in [TraceWorkers -> Tracers]
  /\ \A w \in TraceWorkers : Busy(tracer[w]) /\ (tracer[w].pc # "idle" => phase = "closure")

\* Copies are of the to-space or of a mature block, so they are never copied.
CopiesStay ==
  /\ \A a \in Originals : layout[a] # "unused"
  /\ phase = "mutator" => Copies = {}
  /\ phase = "closure" => \A a \in Copies : layout[a] \in {ToSpace, "block"}

\* One worker at most is between the exchange and the end of forwarding a.
OneEnds(a) ==
  /\ \A v, w \in TraceWorkers : Forwards(v, a) /\ Forwards(w, a) => v = w
  /\ fwd[a].bits = BEING_FORWARDED <=> \E w \in TraceWorkers : Forwards(w, a)

\* The pointer of an object leads to its copy, from before the copy is
\* published on; that is what makes the copy unique.
CopyIsPointedTo(a) ==
  /\ initial.origin[a] \in Originals
  /\ fwd[initial.origin[a]].pointer = a
  /\ phase = "closure" =>
       \/ fwd[initial.origin[a]].bits = FORWARDED
       \/ \E w \in TraceWorkers : tracer[w].pc = "publish" /\ tracer[w].obj = initial.origin[a]

IsCopyOf(a, o) == a \in Copies /\ initial.origin[a] = o

Forwarding ==
  /\ \A a \in Addresses : OneEnds(a)
  /\ \A a \in Addresses : fwd[a].bits = FORWARDED => IsCopyOf(fwd[a].pointer, a)
  /\ \A w \in TraceWorkers : tracer[w].pc = "publish" => IsCopyOf(tracer[w].new, tracer[w].obj)
  /\ \A a \in Copies : CopyIsPointedTo(a)

TraceInv == TraceTypes /\ CopiesStay /\ Forwarding

-----------------------------------------------------------------------------
(***************************************************************************)
(* What a worker has in hand after a step.                                 *)
(***************************************************************************)
\* The values of the forwarding bits.
LEMMA Bits ==
    /\ FORWARDING_NOT_TRIGGERED_YET = 0 /\ BEING_FORWARDED = 2 /\ FORWARDED = 3
    /\ 0 # 1 /\ 0 # 2 /\ 0 # 3 /\ 2 # 3
  BY SMT DEF FORWARDING_NOT_TRIGGERED_YET, BEING_FORWARDED, FORWARDED

\* An idle worker.
LEMMA RestingOK == Resting \in Tracers /\ Resting.pc = "idle" /\ Resting.i = 1
  BY SMT DEF Tracers, PCs, Resting, Ending

\* After a slot the worker is at another slot of what it has, or idle
\* (process_slots).
LEMMA ProcessSlotsOK ==
    ASSUME NEW t \in Tracers, t.i \in 1 .. Len(t.slots)
    PROVE  /\ process_slots(t) \in Tracers /\ Busy(process_slots(t))
           /\ process_slots(t).pc \in {"idle", "slot"}
  <1>1. t.i \in Nat /\ t.slots \in Seq(Slots) /\ t.next \in Seq(Slots) /\ Len(t.slots) \in Nat
    BY SMT DEF Tracers
  <1>2. CASE t.i < Len(t.slots)
    <2> DEFINE u == [t EXCEPT !.pc = "slot", !.i = @ + 1]
    <2>1. t.i + 1 \in Nat /\ t.i + 1 \in 1 .. Len(t.slots)
      BY <1>1, <1>2, SMT
    <2>2. u \in Tracers /\ u.pc = "slot" /\ u.i = t.i + 1 /\ u.slots = t.slots
      BY <2>1 DEF Tracers, PCs
    <2> QED
      BY <1>2, <2>1, <2>2 DEF process_slots, Busy, Ending
  <1>3. CASE ~(t.i < Len(t.slots)) /\ t.pass = 1
    <2> DEFINE u == [t EXCEPT !.pc = "slot", !.i = 1, !.pass = 2]
    <2>1. 1 \in Nat /\ 1 \in 1 .. Len(t.slots)
      BY <1>1, SMT
    <2>2. u \in Tracers /\ u.pc = "slot" /\ u.i = 1 /\ u.slots = t.slots
      BY <2>1 DEF Tracers, PCs
    <2> QED
      BY <1>3, <2>1, <2>2 DEF process_slots, Busy, Ending
  <1>4. CASE ~(t.i < Len(t.slots)) /\ t.pass # 1 /\ t.next # <<>>
    <2> DEFINE u == [Resting EXCEPT !.pc = "slot", !.slots = t.next, !.pass = 2]
    <2>1. 1 \in Nat /\ 1 \in 1 .. Len(t.next)
      BY <1>1, <1>4, SMT
    <2>2. u \in Tracers /\ u.pc = "slot" /\ u.i = 1 /\ u.slots = t.next
      BY <1>1, RestingOK DEF Tracers, PCs
    <2> QED
      BY <1>4, <2>1, <2>2 DEF process_slots, Busy, Ending
  <1>5. CASE ~(t.i < Len(t.slots)) /\ t.pass # 1 /\ t.next = <<>>
    BY <1>5, RestingOK DEF process_slots, Busy, Ending
  <1> QED
    BY <1>2, <1>3, <1>4, <1>5

\* What enqueue leaves is made of slots, and no packet is empty.
LEMMA EnqueuedOK ==
    ASSUME TraceTypes, NEW w \in TraceWorkers, NEW a \in Addresses
    PROVE  /\ Enqueued(w, a).packets \subseteq Seq(Slots) \ {<<>>}
           /\ Enqueued(w, a).next \in Seq(Slots)
  <1> DEFINE n == tracer[w].next
  <1>1. n \in Seq(Slots) /\ a \in Slots
    BY SMT DEF TraceTypes, Tracers, Slots
  <1>2. Append(n, a) \in Seq(Slots) /\ Append(n, a) # <<>> /\ <<>> \in Seq(Slots)
    BY <1>1, SMT
  <1>3. packets \subseteq Seq(Slots) \ {<<>>}
    BY DEF TraceTypes
  <1>4. CASE slotValue[a] = Null
    BY <1>1, <1>3, <1>4 DEF Enqueued, Me
  <1>5. CASE slotValue[a] # Null /\ Len(Append(n, a)) >= BUFFER_SIZE
    BY <1>2, <1>3, <1>5 DEF Enqueued, Me
  <1>6. CASE slotValue[a] # Null /\ ~(Len(Append(n, a)) >= BUFFER_SIZE)
    BY <1>2, <1>3, <1>6 DEF Enqueued, Me
  <1> QED
    BY <1>4, <1>5, <1>6

\* A worker that continues with what it has keeps the types.
LEMMA WorkerTypes ==
    ASSUME TraceTypes, NEW w \in TraceWorkers, NEW t \in Tracers, Busy(t),
           phase = "closure", phase' = phase, tracer' = [tracer EXCEPT ![w] = t]
    PROVE  /\ tracer' \in [TraceWorkers -> Tracers]
           /\ \A v \in TraceWorkers : Busy(tracer'[v]) /\ (tracer'[v].pc # "idle" => phase' = "closure")
           /\ tracer'[w] = t /\ \A v \in TraceWorkers \ {w} : tracer'[v] = tracer[v]
  <1>1. tracer \in [TraceWorkers -> Tracers] /\ \A v \in TraceWorkers : Busy(tracer[v])
    BY DEF TraceTypes
  <1>2. tracer' \in [TraceWorkers -> Tracers] /\ tracer'[w] = t
        /\ \A v \in TraceWorkers \ {w} : tracer'[v] = tracer[v]
    BY <1>1
  <1> QED
    BY <1>1, <1>2

\* A step of a worker that is not ending a forwarding, or that goes on ending
\* the one it was at, leaves forwarding alone.
LEMMA WorkerMoves ==
    ASSUME TraceInv, NEW w \in TraceWorkers, NEW t \in Tracers, Busy(t),
           phase = "closure", tracer' = [tracer EXCEPT ![w] = t],
           UNCHANGED <<Heap, fwd>>,
           slotValue' \in [Slots -> Addresses \cup {Null}],
           marks' \in Marks, treadmill' \in TreadMills,
           packets' \subseteq Seq(Slots) \ {<<>>},
           \/ tracer[w].pc \notin Ending /\ t.pc \notin Ending
           \/ /\ tracer[w].pc \in Ending \ {"publish"} /\ t.pc \in Ending \ {"publish"}
              /\ tracer[w].obj = t.obj
    PROVE  TraceInv'
  <1>1. UNCHANGED <<phase, hi, layout, initial, markState, fwd>>
    BY DEF Heap
  <1>2. /\ tracer' \in [TraceWorkers -> Tracers]
        /\ \A v \in TraceWorkers : Busy(tracer'[v]) /\ (tracer'[v].pc # "idle" => phase' = "closure")
        /\ tracer'[w] = t /\ \A v \in TraceWorkers \ {w} : tracer'[v] = tracer[v]
    BY <1>1, WorkerTypes DEF TraceInv
  <1>3. TraceTypes'
    BY <1>1, <1>2 DEF TraceInv, TraceTypes
  <1>4. Copies' = Copies /\ CopiesStay'
    BY <1>1 DEF TraceInv, CopiesStay, Copies, ToSpace
  <1>5. \A v \in TraceWorkers, a \in Addresses : Forwards(v, a)' <=> Forwards(v, a)
    BY <1>2 DEF Forwards, Ending
  <1>6. \A v \in TraceWorkers :
           /\ tracer'[v].pc = "publish" <=> tracer[v].pc = "publish"
           /\ tracer'[v].pc = "publish" => tracer'[v] = tracer[v]
    BY <1>2 DEF Ending
  <1>7. Forwarding'
    <2>1. \A a \in Addresses : OneEnds(a)'
      BY <1>1, <1>5 DEF TraceInv, Forwarding, OneEnds
    <2>2. ASSUME NEW a \in Copies PROVE CopyIsPointedTo(a)'
      <3>1. CopyIsPointedTo(a)
        BY <2>2 DEF TraceInv, Forwarding
      <3> QED
        BY <1>1, <1>6, <3>1 DEF CopyIsPointedTo
    <2>3. \A a \in Addresses : (fwd[a].bits = FORWARDED => IsCopyOf(fwd[a].pointer, a))'
      BY <1>1, <1>4 DEF TraceInv, Forwarding, IsCopyOf
    <2>4. \A v \in TraceWorkers :
             (tracer[v].pc = "publish" => IsCopyOf(tracer[v].new, tracer[v].obj))'
      <3> SUFFICES ASSUME NEW v \in TraceWorkers, tracer'[v].pc = "publish"
                   PROVE  IsCopyOf(tracer[v].new, tracer[v].obj)'
        OBVIOUS
      <3>1. tracer'[v] = tracer[v] /\ tracer[v].pc = "publish"
        BY <1>6
      <3>2. IsCopyOf(tracer[v].new, tracer[v].obj)
        BY <3>1 DEF TraceInv, Forwarding
      <3>3. initial' = initial
        BY <1>1
      <3> QED
        BY <1>4, <3>1, <3>2, <3>3, SMT DEF IsCopyOf
    <2> QED
      BY <1>4, <2>1, <2>2, <2>3, <2>4 DEF Forwarding
  <1> QED
    BY <1>3, <1>4, <1>7 DEF TraceInv
-----------------------------------------------------------------------------
(***************************************************************************)
(* The steps that end no forwarding.                                       *)
(***************************************************************************)
\* What is known of a worker that takes a step.
LEMMA WorkerOK ==
    ASSUME TraceInv, NEW w \in TraceWorkers
    PROVE  /\ tracer[w] \in Tracers /\ Busy(tracer[w]) /\ tracer[w].pc \in PCs
           /\ tracer[w].obj \in Addresses \cup {Null} /\ tracer[w].next \in Seq(Slots)
           /\ tracer[w].pc # "idle" =>
                /\ Slot(w) \in Slots /\ slotValue[Slot(w)] \in Addresses \cup {Null}
                /\ tracer[w].i \in 1 .. Len(tracer[w].slots)
                /\ process_slots(tracer[w]) \in Tracers /\ Busy(process_slots(tracer[w]))
                /\ process_slots(tracer[w]).pc \in {"idle", "slot"}
  <1>1. tracer[w] \in Tracers /\ Busy(tracer[w])
    BY DEF TraceInv, TraceTypes
  <1>2. /\ tracer[w].obj \in Addresses \cup {Null} /\ tracer[w].slots \in Seq(Slots)
        /\ tracer[w].next \in Seq(Slots) /\ tracer[w].pc \in PCs
    BY <1>1 DEF Tracers
  <1>3. ASSUME tracer[w].pc # "idle"
        PROVE  /\ Slot(w) \in Slots /\ slotValue[Slot(w)] \in Addresses \cup {Null}
               /\ tracer[w].i \in 1 .. Len(tracer[w].slots)
    <2>1. tracer[w].i \in 1 .. Len(tracer[w].slots)
      BY <1>1, <1>3 DEF Busy
    <2>2. tracer[w].slots[tracer[w].i] \in Slots
      BY <1>2, <2>1, SMT
    <2> QED
      BY <2>1, <2>2 DEF Slot, Me, TraceInv, TraceTypes
  <1> QED
    BY <1>1, <1>2, <1>3, ProcessSlotsOK

\* The types of what a step may leave alone.
LEMMA TypesNow ==
    ASSUME TraceInv
    PROVE  /\ slotValue \in [Slots -> Addresses \cup {Null}] /\ marks \in Marks
           /\ treadmill \in TreadMills /\ packets \subseteq Seq(Slots) \ {<<>>}
           /\ markState \in {0, 1}
  BY DEF TraceInv, TraceTypes

\* A worker that takes a packet (do_work).
LEMMA DoWorkStep == ASSUME TraceInv, NEW w \in TraceWorkers, do_work(w) PROVE TraceInv'
  <1>1. PICK p \in packets :
           /\ packets' = packets \ {p}
           /\ tracer' = [tracer EXCEPT ![w] = [Resting EXCEPT !.pc = "slot", !.slots = p]]
    BY DEF do_work, Becomes
  <1>2. /\ tracer[w].pc = "idle" /\ phase = "closure"
        /\ UNCHANGED <<Heap, fwd>> /\ UNCHANGED <<slotValue, marks, treadmill>>
    BY DEF do_work, At, Me
  <1>3. p \in Seq(Slots) /\ p # <<>>
    BY TypesNow
  <1>4. 1 \in 1 .. Len(p)
    BY <1>3, SMT
  <1> DEFINE t == [Resting EXCEPT !.pc = "slot", !.slots = p]
  <1>5. t \in Tracers /\ t.pc = "slot" /\ t.i = 1 /\ t.slots = p
    BY <1>3, RestingOK DEF Tracers, PCs
  <1>6. Busy(t) /\ t.pc \notin Ending /\ tracer[w].pc \notin Ending
    BY <1>2, <1>4, <1>5 DEF Busy, Ending
  <1> HIDE DEF t
  <1>7. tracer' = [tracer EXCEPT ![w] = t]
    BY <1>1 DEF t
  <1>8. packets' \subseteq Seq(Slots) \ {<<>>}
    BY <1>1, TypesNow
  <1> QED
    BY <1>2, <1>5, <1>6, <1>7, <1>8, TypesNow, WorkerMoves

\* Objects that are forwarded, or that the treadmill holds, are not copies.
LEMMA OnlyOriginals ==
    ASSUME TraceInv, phase = "closure", NEW o \in Addresses,
           layout[o] \in {FromSpace, "defrag", "los"}
    PROVE  o \in Originals
  <1>1. FromSpace \in {"copyspace0", "copyspace1"} /\ FromSpace # ToSpace
    BY DEF FromSpace, ToSpace
  <1>2. layout[o] # "unused" /\ layout[o] # ToSpace /\ layout[o] # "block"
    BY <1>1 DEF ToSpace
  <1> QED
    BY <1>2 DEF TraceInv, CopiesStay, Copies

\* The dispatch of an object on its space (process_slot).
LEMMA ProcessSlotStep == ASSUME TraceInv, NEW w \in TraceWorkers, process_slot(w) PROVE TraceInv'
  <1> DEFINE o == slotValue[Slot(w)]
             pc == CASE layout[o] \in {FromSpace, "defrag"} -> "status"
                     [] layout[o] = "los" -> "nursery"
                     [] OTHER -> "mark"
  <1>1. /\ tracer[w].pc = "slot" /\ phase = "closure" /\ UNCHANGED <<Heap, fwd>>
        /\ UNCHANGED <<slotValue, marks, treadmill, packets>>
    BY DEF process_slot, At, Me
  <1>2. tracer[w].pc # "idle" /\ tracer[w].pc \notin Ending
    BY <1>1 DEF Ending
  <1>3. CASE o = Null \/ layout[o] = ToSpace
    <2>1. tracer' = [tracer EXCEPT ![w] = process_slots(tracer[w])]
      BY <1>3 DEF process_slot, Continue, Me
    <2>2. process_slots(tracer[w]).pc \notin Ending
      BY <1>2, WorkerOK DEF Ending
    <2> QED
      BY <1>1, <1>2, <2>1, <2>2, WorkerOK, TypesNow, WorkerMoves
  <1>4. CASE ~(o = Null \/ layout[o] = ToSpace)
    <2> DEFINE t == [tracer[w] EXCEPT !.pc = pc, !.obj = o]
    <2>1. tracer' = [tracer EXCEPT ![w] = t]
      BY <1>4 DEF process_slot, Becomes, Me
    <2>2. o \in Addresses
      BY <1>2, <1>4, WorkerOK
    <2>3. /\ pc \in {"status", "nursery", "mark"}
          /\ pc # "mark" => layout[o] \in {FromSpace, "defrag", "los"}
      OBVIOUS
    <2>4. pc # "mark" => o \in Originals
      BY <1>1, <2>2, <2>3, OnlyOriginals
    <2> HIDE DEF o, pc
    <2>5. /\ t \in Tracers /\ t.pc = pc /\ t.obj = o /\ t.i = tracer[w].i
          /\ t.slots = tracer[w].slots
      BY <2>2, <2>3, WorkerOK DEF Tracers, PCs
    <2>6. Busy(t) /\ t.pc \notin Ending
      BY <1>2, <2>2, <2>3, <2>4, <2>5, WorkerOK DEF Busy, Ending
    <2> HIDE DEF t
    <2> QED
      BY <1>1, <1>2, <2>1, <2>5, <2>6, TypesNow, WorkerMoves
  <1> QED
    BY <1>3, <1>4

\* The slot gets the new address (store).
LEMMA StoreStep == ASSUME TraceInv, NEW w \in TraceWorkers, store(w) PROVE TraceInv'
  <1>1. /\ tracer[w].pc = "store" /\ phase = "closure" /\ UNCHANGED <<Heap, fwd>>
        /\ UNCHANGED <<marks, treadmill, packets>>
        /\ slotValue' = [slotValue EXCEPT ![Slot(w)] = tracer[w].new]
        /\ tracer' = [tracer EXCEPT ![w] = process_slots(tracer[w])]
    BY DEF store, At, Me, Continue
  <1>2. tracer[w].pc # "idle" /\ tracer[w].pc \notin Ending
        /\ process_slots(tracer[w]).pc \notin Ending
    BY <1>1, WorkerOK DEF Ending
  <1>3. tracer[w].new \in Addresses
    BY <1>1, WorkerOK DEF Busy
  <1>4. slotValue' \in [Slots -> Addresses \cup {Null}]
    BY <1>1, <1>3, TypesNow
  <1> QED
    BY <1>1, <1>2, <1>4, WorkerOK, TypesNow, WorkerMoves

\* A worker that goes on with the same original.
LEMMA OnlyPC ==
    ASSUME TraceInv, NEW w \in TraceWorkers, tracer[w].pc # "idle", tracer[w].obj \in Originals,
           NEW x \in PCs \ {"idle", "store"}
    PROVE  /\ [tracer[w] EXCEPT !.pc = x] \in Tracers /\ Busy([tracer[w] EXCEPT !.pc = x])
           /\ [tracer[w] EXCEPT !.pc = x].pc = x
           /\ [tracer[w] EXCEPT !.pc = x].obj = tracer[w].obj
  <1> DEFINE t == [tracer[w] EXCEPT !.pc = x]
  <1>1. /\ t \in Tracers /\ t.pc = x /\ t.obj = tracer[w].obj /\ t.i = tracer[w].i
        /\ t.slots = tracer[w].slots
    BY WorkerOK DEF Tracers
  <1>2. Originals \subseteq Addresses
    BY TracingAssumption, SMT DEF Originals, Addresses
  <1> QED
    BY <1>1, <1>2, WorkerOK DEF Busy

\* A worker reads the forwarding status (get_forwarding_status).
LEMMA StatusStep ==
    ASSUME TraceInv, NEW w \in TraceWorkers, get_forwarding_status(w) PROVE TraceInv'
  <1>1. /\ tracer[w].pc = "status" /\ phase = "closure" /\ UNCHANGED <<Heap, fwd>>
        /\ UNCHANGED <<slotValue, marks, treadmill, packets>>
    BY DEF get_forwarding_status, At, Me
  <1>2. PICK x \in {"cas", "spin"} : tracer' = [tracer EXCEPT ![w] = [tracer[w] EXCEPT !.pc = x]]
    BY DEF get_forwarding_status, Becomes, Me
  <1>3. /\ tracer[w].pc # "idle" /\ tracer[w].obj \in Originals /\ x \in PCs \ {"idle", "store"}
        /\ x \notin Ending /\ tracer[w].pc \notin Ending
    BY <1>1, WorkerOK DEF Busy, PCs, Ending
  <1> QED
    BY <1>1, <1>2, <1>3, OnlyPC, TypesNow, WorkerMoves

\* The winner decides what to do with its object (trace_object of the spaces).
LEMMA WinnerStep ==
    ASSUME TraceInv, NEW w \in TraceWorkers,
           CopySpaceTrace(w) \/ trace_object_with_opportunistic_copy(w)
    PROVE  TraceInv'
  <1>1. /\ tracer[w].pc = "won" /\ phase = "closure" /\ UNCHANGED <<Heap, fwd>>
        /\ UNCHANGED <<slotValue, marks, treadmill, packets>>
    BY DEF CopySpaceTrace, trace_object_with_opportunistic_copy, At, Me
  <1>2. PICK x \in {"clear", "pin", "copy"} :
           tracer' = [tracer EXCEPT ![w] = [tracer[w] EXCEPT !.pc = x]]
    BY DEF CopySpaceTrace, trace_object_with_opportunistic_copy, Becomes, Me
  <1>3. /\ tracer[w].pc # "idle" /\ tracer[w].obj \in Originals /\ x \in PCs \ {"idle", "store"}
        /\ x \in Ending \ {"publish"} /\ tracer[w].pc \in Ending \ {"publish"}
    BY <1>1, WorkerOK DEF Busy, PCs, Ending
  <1> QED
    BY <1>1, <1>2, <1>3, OnlyPC, TypesNow, WorkerMoves

\* A worker that waited goes on with the address it finds
\* (spin_and_get_forwarded_object).
LEMMA SpinStep ==
    ASSUME TraceInv, NEW w \in TraceWorkers, spin_and_get_forwarded_object(w) PROVE TraceInv'
  <1> DEFINE f == fwd[tracer[w].obj]
             a == IF f.bits = FORWARDED THEN f.pointer ELSE tracer[w].obj
             t == [tracer[w] EXCEPT !.pc = "store", !.new = a]
  <1>1. /\ tracer[w].pc = "spin" /\ phase = "closure" /\ UNCHANGED <<Heap, fwd>>
        /\ UNCHANGED <<slotValue, marks, treadmill, packets>>
        /\ tracer' = [tracer EXCEPT ![w] = t]
    BY DEF spin_and_get_forwarded_object, At, Me, Becomes
  <1>2. tracer[w].obj \in Addresses /\ tracer[w].pc # "idle" /\ tracer[w].pc \notin Ending
    BY <1>1, WorkerOK DEF Busy, Ending
  <1>3. a \in Addresses
    BY <1>2 DEF TraceInv, Forwarding, IsCopyOf, Copies
  <1> HIDE DEF a
  <1>4. /\ t \in Tracers /\ t.pc = "store" /\ t.new = a /\ t.i = tracer[w].i
        /\ t.slots = tracer[w].slots /\ t.obj = tracer[w].obj
    BY <1>3, WorkerOK DEF Tracers, PCs
  <1>5. Busy(t) /\ t.pc \notin Ending
    BY <1>2, <1>3, <1>4, WorkerOK DEF Busy, Ending
  <1> HIDE DEF t
  <1> QED
    BY <1>1, <1>2, <1>4, <1>5, TypesNow, WorkerMoves

\* A worker done with an object it may have enqueued.
LEMMA EnqueuedContinues ==
    ASSUME TraceInv, NEW w \in TraceWorkers, tracer[w].pc # "idle", NEW o \in Addresses
    PROVE  LET t == process_slots([tracer[w] EXCEPT !.next = Enqueued(w, o).next])
           IN  t \in Tracers /\ Busy(t) /\ t.pc \in {"idle", "slot"}
  <1> DEFINE u == [tracer[w] EXCEPT !.next = Enqueued(w, o).next]
  <1>1. Enqueued(w, o).next \in Seq(Slots)
    BY EnqueuedOK DEF TraceInv
  <1>2. u \in Tracers /\ u.i = tracer[w].i /\ u.slots = tracer[w].slots
    BY <1>1, WorkerOK DEF Tracers
  <1>3. u.i \in 1 .. Len(u.slots)
    BY <1>2, WorkerOK
  <1> QED
    BY <1>2, <1>3, ProcessSlotsOK

\* Marking in place, in the Immix and in the immortal space.
LEMMA MarkStep ==
    ASSUME TraceInv, NEW w \in TraceWorkers,
           trace_object_without_moving(w) \/ ImmortalSpaceTrace(w)
    PROVE  TraceInv'
  <1> DEFINE o == tracer[w].obj
             t == process_slots([tracer[w] EXCEPT !.next = Enqueued(w, o).next])
  <1>1. /\ tracer[w].pc = "mark" /\ phase = "closure" /\ UNCHANGED <<Heap, fwd>>
        /\ UNCHANGED <<slotValue, treadmill>> /\ MarkOrSkip(w)
    BY DEF trace_object_without_moving, ImmortalSpaceTrace, MarkOrSkip, At, Me
  <1>2. o \in Addresses /\ tracer[w].pc # "idle" /\ tracer[w].pc \notin Ending
    BY <1>1, WorkerOK DEF Busy, Ending
  <1>3. CASE marks[o].bit = 1
    <2>1. /\ tracer' = [tracer EXCEPT ![w] = process_slots(tracer[w])]
          /\ UNCHANGED <<marks, packets>>
      BY <1>1, <1>3 DEF MarkOrSkip, Continue, Me
    <2>2. process_slots(tracer[w]).pc \notin Ending
      BY <1>2, WorkerOK DEF Ending
    <2> QED
      BY <1>1, <1>2, <2>1, <2>2, WorkerOK, TypesNow, WorkerMoves
  <1>4. CASE marks[o].bit # 1
    <2>1. /\ tracer' = [tracer EXCEPT ![w] = t] /\ packets' = Enqueued(w, o).packets
          /\ marks' = [marks EXCEPT ![o].bit = 1]
      BY <1>1, <1>4 DEF MarkOrSkip, Continue, Me
    <2>2. marks' \in Marks
      BY <1>2, <2>1, TypesNow DEF Marks
    <2>3. packets' \subseteq Seq(Slots) \ {<<>>}
      BY <1>2, <2>1, EnqueuedOK DEF TraceInv
    <2>4. t \in Tracers /\ Busy(t) /\ t.pc \notin Ending
      BY <1>2, EnqueuedContinues DEF Ending
    <2> HIDE DEF t
    <2> QED
      BY <1>1, <1>2, <2>1, <2>2, <2>3, <2>4, TypesNow, WorkerMoves
  <1> QED
    BY <1>3, <1>4

\* The steps of the large object space (is_in_nursery, test_and_mark, and the
\* treadmill's copy).
LEMMA LargeStep ==
    ASSUME TraceInv, NEW w \in TraceWorkers,
           is_in_nursery(w) \/ test_and_mark(w) \/ treadmill_copy(w)
    PROVE  TraceInv'
  <1> DEFINE o == tracer[w].obj
  <1>0. /\ tracer[w].pc \in {"nursery", "los", "treadmill"} /\ phase = "closure"
        /\ UNCHANGED <<Heap, fwd>> /\ UNCHANGED slotValue
    BY DEF is_in_nursery, test_and_mark, treadmill_copy, At, Me
  <1>1. /\ o \in Originals /\ o \in Addresses /\ tracer[w].pc # "idle"
        /\ tracer[w].pc \notin Ending
    BY <1>0, WorkerOK DEF Busy, Ending
  <1>2. process_slots(tracer[w]).pc \notin Ending
    BY <1>1, WorkerOK DEF Ending
  <1>3. CASE is_in_nursery(w)
    <2> DEFINE t == [tracer[w] EXCEPT !.pc = "los", !.young = marks[o].nursery]
    <2>1. tracer' = [tracer EXCEPT ![w] = t] /\ UNCHANGED <<marks, treadmill, packets>>
      BY <1>3 DEF is_in_nursery, Becomes, Me
    <2>2. marks[o].nursery \in BOOLEAN
      BY <1>1, TypesNow DEF Marks
    <2>3. /\ t \in Tracers /\ t.pc = "los" /\ t.obj = o /\ t.i = tracer[w].i
          /\ t.slots = tracer[w].slots
      BY <2>2, WorkerOK DEF Tracers, PCs
    <2>4. Busy(t) /\ t.pc \notin Ending
      BY <1>1, <2>3, WorkerOK DEF Busy, Ending
    <2> HIDE DEF t
    <2> QED
      BY <1>0, <1>1, <2>1, <2>3, <2>4, TypesNow, WorkerMoves
  <1>4. CASE test_and_mark(w) /\ marks[o].bit = markState
    <2>1. /\ tracer' = [tracer EXCEPT ![w] = process_slots(tracer[w])]
          /\ UNCHANGED <<marks, treadmill, packets>>
      BY <1>4 DEF test_and_mark, Continue, Me
    <2> QED
      BY <1>0, <1>1, <1>2, <2>1, WorkerOK, TypesNow, WorkerMoves
  <1>5. CASE test_and_mark(w) /\ marks[o].bit # markState
    <2>1. /\ tracer' = [tracer EXCEPT ![w] = [tracer[w] EXCEPT !.pc = "treadmill"]]
          /\ marks' = [marks EXCEPT ![o] = [bit |-> markState, nursery |-> FALSE]]
          /\ UNCHANGED <<treadmill, packets>>
      BY <1>5 DEF test_and_mark, Becomes, Me
    <2>2. [bit |-> markState, nursery |-> FALSE] \in [bit : {0, 1}, nursery : BOOLEAN]
      BY TypesNow, SMT
    <2>3. marks' \in Marks
      BY <1>1, <2>1, <2>2, TypesNow DEF Marks
    <2>4. "treadmill" \in PCs \ {"idle", "store"} /\ "treadmill" \notin Ending
      BY DEF PCs, Ending
    <2> QED
      BY <1>0, <1>1, <2>1, <2>3, <2>4, OnlyPC, TypesNow, WorkerMoves
  <1>6. CASE treadmill_copy(w)
    <2> DEFINE t == process_slots([tracer[w] EXCEPT !.next = Enqueued(w, o).next])
    <2>1. /\ tracer' = [tracer EXCEPT ![w] = t] /\ packets' = Enqueued(w, o).packets
          /\ treadmill' = TreadMillCopy(o, tracer[w].young) /\ UNCHANGED marks
      BY <1>6 DEF treadmill_copy, Continue, Me
    <2>2. treadmill' \in TreadMills
      BY <1>1, <2>1, TypesNow DEF TreadMillCopy, TreadMills
    <2>3. packets' \subseteq Seq(Slots) \ {<<>>}
      BY <1>1, <2>1, EnqueuedOK DEF TraceInv
    <2>4. t \in Tracers /\ Busy(t) /\ t.pc \notin Ending
      BY <1>1, EnqueuedContinues DEF Ending
    <2> HIDE DEF t
    <2> QED
      BY <1>0, <1>1, <2>1, <2>2, <2>3, <2>4, TypesNow, WorkerMoves
  <1> QED
    BY <1>3, <1>4, <1>5, <1>6
-----------------------------------------------------------------------------
(***************************************************************************)
(* The steps that start and end a forwarding.                              *)
(***************************************************************************)
\* The bits of an object o without a copy are changed by worker w, which starts
\* forwarding it or gives it up.
LEMMA BitsStep ==
    ASSUME TraceInv, NEW w \in TraceWorkers, NEW t \in Tracers, Busy(t),
           phase = "closure", tracer' = [tracer EXCEPT ![w] = t],
           UNCHANGED Heap, UNCHANGED <<slotValue, treadmill>>,
           marks' \in Marks, packets' \subseteq Seq(Slots) \ {<<>>},
           NEW o \in Addresses, NEW x \in {0, 2}, fwd' = [fwd EXCEPT ![o].bits = x],
           tracer[w].pc # "publish", t.pc # "publish", fwd[o].bits # FORWARDED,
           \A v \in TraceWorkers \ {w} : ~Forwards(v, o),
           tracer[w].pc \in Ending => tracer[w].obj = o,
           t.pc \in Ending => t.obj = o, x = BEING_FORWARDED <=> t.pc \in Ending
    PROVE  TraceInv'
  <1>1. UNCHANGED <<phase, hi, layout, initial, markState>>
    BY DEF Heap
  <1>2. /\ tracer' \in [TraceWorkers -> Tracers]
        /\ \A v \in TraceWorkers : Busy(tracer'[v]) /\ (tracer'[v].pc # "idle" => phase' = "closure")
        /\ tracer'[w] = t /\ \A v \in TraceWorkers \ {w} : tracer'[v] = tracer[v]
    BY <1>1, WorkerTypes DEF TraceInv
  <1>3. fwd \in [Addresses -> [bits : {0, 2, 3}, pointer : Addresses \cup {Null}]]
    BY DEF TraceInv, TraceTypes
  <1>4. /\ fwd' \in [Addresses -> [bits : {0, 2, 3}, pointer : Addresses \cup {Null}]]
        /\ fwd'[o].bits = x /\ fwd'[o].pointer = fwd[o].pointer
        /\ \A a \in Addresses \ {o} : fwd'[a] = fwd[a]
    BY <1>3
  <1>5. TraceTypes'
    BY <1>1, <1>2, <1>4 DEF TraceInv, TraceTypes
  <1>6. Copies' = Copies /\ CopiesStay'
    BY <1>1 DEF TraceInv, CopiesStay, Copies, ToSpace
  <1>7. \A v \in TraceWorkers :
           /\ tracer'[v].pc = "publish" <=> tracer[v].pc = "publish"
           /\ tracer'[v].pc = "publish" => tracer'[v] = tracer[v]
    BY <1>2
  <1>8. ASSUME NEW a \in Addresses PROVE OneEnds(a)'
    <2>1. CASE a = o
      <3>1. \A v \in TraceWorkers : Forwards(v, a)' => v = w
        BY <1>2, <2>1 DEF Forwards
      <3>2. Forwards(w, a)' <=> x = BEING_FORWARDED
        BY <1>2, <2>1 DEF Forwards, Ending
      <3> QED
        BY <1>4, <2>1, <3>1, <3>2 DEF OneEnds
    <2>2. CASE a # o
      <3>1. \A v \in TraceWorkers : Forwards(v, a)' <=> Forwards(v, a)
        BY <1>2, <2>2 DEF Forwards, Ending
      <3>2. OneEnds(a) /\ fwd'[a] = fwd[a]
        BY <1>4, <1>8, <2>2 DEF TraceInv, Forwarding
      <3> QED
        BY <3>1, <3>2 DEF OneEnds
    <2> QED
      BY <2>1, <2>2
  <1>9. ASSUME NEW a \in Copies PROVE CopyIsPointedTo(a)'
    <2>1. CopyIsPointedTo(a)
      BY <1>9 DEF TraceInv, Forwarding
    <2>2. initial.origin[a] # o
      <3>1. ASSUME NEW v \in TraceWorkers, tracer[v].pc = "publish", tracer[v].obj = o PROVE FALSE
        BY <3>1 DEF Forwards
      <3> QED
        BY <2>1, <3>1 DEF CopyIsPointedTo
    <2>3. initial.origin[a] \in Addresses /\ initial' = initial /\ phase' = phase
      BY <1>1, <1>9 DEF TraceInv, TraceTypes, Copies
    <2>4. fwd'[initial.origin[a]] = fwd[initial.origin[a]]
      BY <1>4, <2>2, <2>3
    <2> QED
      BY <1>7, <2>1, <2>3, <2>4 DEF CopyIsPointedTo
  <1>10. ASSUME NEW a \in Addresses, fwd'[a].bits = FORWARDED PROVE IsCopyOf(fwd[a].pointer, a)'
    <2>1. a # o
      BY <1>4, <1>10, Bits
    <2>2. fwd'[a] = fwd[a] /\ initial' = initial
      BY <1>1, <1>4, <2>1
    <2>3. IsCopyOf(fwd[a].pointer, a)
      BY <1>10, <2>2 DEF TraceInv, Forwarding
    <2> QED
      BY <1>6, <2>2, <2>3, SMT DEF IsCopyOf
  <1>11. ASSUME NEW v \in TraceWorkers, tracer'[v].pc = "publish"
         PROVE  IsCopyOf(tracer[v].new, tracer[v].obj)'
    <2>1. tracer'[v] = tracer[v] /\ tracer[v].pc = "publish" /\ initial' = initial
      BY <1>1, <1>7, <1>11
    <2>2. IsCopyOf(tracer[v].new, tracer[v].obj)
      BY <2>1 DEF TraceInv, Forwarding
    <2>3. \A a, b : IsCopyOf(a, b) => a \in Copies' /\ initial'.origin[a] = b
      BY <1>6, <2>1 DEF IsCopyOf
    <2>4. tracer'[v].new \in Copies' /\ initial'.origin[tracer'[v].new] = tracer'[v].obj
      BY <2>1, <2>2, <2>3
    <2> QED
      BY <2>4 DEF IsCopyOf
  <1>12. Forwarding'
    BY <1>6, <1>8, <1>9, <1>10, <1>11 DEF Forwarding
  <1> QED
    BY <1>5, <1>6, <1>12 DEF TraceInv

\* The compare-and-exchange on the forwarding bits (attempt_to_forward).
LEMMA AttemptStep ==
    ASSUME TraceInv, NEW w \in TraceWorkers, attempt_to_forward(w) PROVE TraceInv'
  <1> DEFINE o == tracer[w].obj
  <1>1. /\ tracer[w].pc = "cas" /\ phase = "closure" /\ UNCHANGED Heap
        /\ UNCHANGED <<slotValue, treadmill>> /\ UNCHANGED <<marks, packets>>
    BY DEF attempt_to_forward, At, Me
  <1>2. /\ tracer[w].pc # "idle" /\ o \in Originals /\ o \in Addresses
        /\ tracer[w].pc \notin Ending /\ tracer[w].pc # "publish"
    BY <1>1, WorkerOK DEF Busy, Ending
  <1>3. CASE fwd[o].bits = FORWARDING_NOT_TRIGGERED_YET
    <2> DEFINE t == [tracer[w] EXCEPT !.pc = "won"]
    <2>1. tracer' = [tracer EXCEPT ![w] = t] /\ fwd' = [fwd EXCEPT ![o].bits = 2]
      BY <1>3 DEF attempt_to_forward, Becomes, Me, BEING_FORWARDED
    <2>2. fwd[o].bits # FORWARDED /\ fwd[o].bits # BEING_FORWARDED
      BY <1>3, Bits
    <2>3. \A v \in TraceWorkers \ {w} : ~Forwards(v, o)
      BY <1>2, <2>2 DEF TraceInv, Forwarding, OneEnds
    <2>4. "won" \in PCs \ {"idle", "store"}
      BY DEF PCs, Ending
    <2>5. t \in Tracers /\ Busy(t) /\ t.pc = "won" /\ t.obj = o
      BY <1>2, <2>4, OnlyPC
    <2>6. t.pc \in Ending /\ t.pc # "publish"
      BY <2>5 DEF Ending
    <2> HIDE DEF t
    <2>7. 2 \in {0, 2} /\ 2 = BEING_FORWARDED
      BY DEF BEING_FORWARDED
    <2> QED
      BY <1>1, <1>2, <2>1, <2>2, <2>3, <2>5, <2>6, <2>7, TypesNow, BitsStep
  <1>4. CASE fwd[o].bits # FORWARDING_NOT_TRIGGERED_YET
    <2>1. /\ tracer' = [tracer EXCEPT ![w] = [tracer[w] EXCEPT !.pc = "status"]]
          /\ UNCHANGED <<Heap, fwd>>
      BY <1>1, <1>4 DEF attempt_to_forward, Becomes, Me
    <2>2. "status" \in PCs \ {"idle", "store"} /\ "status" \notin Ending
      BY DEF PCs, Ending
    <2> QED
      BY <1>1, <1>2, <2>1, <2>2, OnlyPC, TypesNow, WorkerMoves
  <1> QED
    BY <1>3, <1>4

\* The winner ends a forwarding: nobody else is at the object, and it has no
\* copy unless the winner made it.
LEMMA WinnerIsAlone ==
    ASSUME TraceInv, NEW w \in TraceWorkers, tracer[w].pc \in Ending
    PROVE  /\ tracer[w].obj \in Originals /\ tracer[w].obj \in Addresses
           /\ tracer[w].pc # "idle" /\ phase = "closure"
           /\ fwd[tracer[w].obj].bits = BEING_FORWARDED
           /\ fwd[tracer[w].obj].bits # FORWARDED
           /\ \A v \in TraceWorkers \ {w} : ~Forwards(v, tracer[w].obj)
           /\ tracer[w].pc # "publish" => \A a \in Copies : initial.origin[a] # tracer[w].obj
  <1> DEFINE o == tracer[w].obj
  <1>1. o \in Originals /\ o \in Addresses /\ tracer[w].pc # "idle"
    BY WorkerOK DEF Busy, Ending
  <1>2. phase = "closure" /\ Forwards(w, o)
    BY <1>1 DEF TraceInv, TraceTypes, Forwards, Ending
  <1>3. /\ fwd[o].bits = BEING_FORWARDED
        /\ \A v \in TraceWorkers \ {w} : ~Forwards(v, o)
    BY <1>1, <1>2 DEF TraceInv, Forwarding, OneEnds
  <1>4. fwd[o].bits # FORWARDED
    BY <1>3, Bits
  <1>5. ASSUME tracer[w].pc # "publish", NEW a \in Copies, initial.origin[a] = o PROVE FALSE
    <2>0. CopyIsPointedTo(a)
      BY <1>5 DEF TraceInv, Forwarding
    <2>1. PICK v \in TraceWorkers : tracer[v].pc = "publish" /\ tracer[v].obj = o
      BY <1>2, <1>4, <1>5, <2>0 DEF CopyIsPointedTo
    <2>2. Forwards(v, o)
      BY <2>1 DEF Forwards
    <2> QED
      BY <1>3, <1>5, <2>1, <2>2
  <1> QED
    BY <1>1, <1>2, <1>3, <1>4, <1>5

\* The winner leaves the object where it is and clears the bits
\* (clear_forwarding_bits).
LEMMA ClearStep ==
    ASSUME TraceInv, NEW w \in TraceWorkers, clear_forwarding_bits(w) PROVE TraceInv'
  <1> DEFINE o == tracer[w].obj
             t == [tracer[w] EXCEPT !.pc = "store", !.new = o]
  <1>1. /\ tracer[w].pc = "clear" /\ phase = "closure" /\ UNCHANGED Heap
        /\ UNCHANGED <<slotValue, treadmill>> /\ UNCHANGED <<marks, packets>>
        /\ tracer' = [tracer EXCEPT ![w] = t] /\ fwd' = [fwd EXCEPT ![o].bits = 0]
    BY DEF clear_forwarding_bits, At, Me, Becomes, FORWARDING_NOT_TRIGGERED_YET
  <1>2. tracer[w].pc \in Ending /\ tracer[w].pc # "publish"
    BY <1>1 DEF Ending
  <1>3. /\ o \in Addresses /\ fwd[o].bits # FORWARDED /\ tracer[w].pc # "idle"
        /\ \A v \in TraceWorkers \ {w} : ~Forwards(v, o)
    BY <1>2, WinnerIsAlone
  <1>4. /\ t \in Tracers /\ t.pc = "store" /\ t.new = o /\ t.i = tracer[w].i
        /\ t.slots = tracer[w].slots /\ t.obj = o
    BY <1>3, WorkerOK DEF Tracers, PCs
  <1>5. Busy(t) /\ t.pc \notin Ending /\ t.pc # "publish"
    BY <1>3, <1>4, WorkerOK DEF Busy, Ending
  <1> HIDE DEF t
  <1>6. 0 \in {0, 2} /\ 0 # BEING_FORWARDED
    BY Bits
  <1> QED
    BY <1>1, <1>2, <1>3, <1>4, <1>5, <1>6, TypesNow, BitsStep

\* The winner marks the object in place: the mark, then the bits
\* (trace_object_with_opportunistic_copy without room for the copy).
LEMMA PinStep == ASSUME TraceInv, NEW w \in TraceWorkers, MarkInPlace(w) PROVE TraceInv'
  <1> DEFINE o == tracer[w].obj
  <1>1. tracer[w].pc = "pin" /\ phase = "closure" /\ UNCHANGED Heap /\ UNCHANGED <<slotValue, treadmill>>
    BY DEF MarkInPlace, At, Me
  <1>2. tracer[w].pc \in Ending /\ tracer[w].pc # "publish"
    BY <1>1 DEF Ending
  <1>3. /\ o \in Addresses /\ fwd[o].bits # FORWARDED /\ tracer[w].pc # "idle"
        /\ \A v \in TraceWorkers \ {w} : ~Forwards(v, o)
    BY <1>2, WinnerIsAlone
  <1>4. CASE marks[o].bit = 0
    <2>1. /\ marks' = [marks EXCEPT ![o].bit = 1] /\ UNCHANGED <<Heap, fwd>>
          /\ UNCHANGED <<packets, tracer>>
      BY <1>4, Bits DEF MarkInPlace, Me
    <2>2. marks' \in Marks
      BY <1>3, <2>1, TypesNow DEF Marks
    <2>3. tracer' = [tracer EXCEPT ![w] = tracer[w]]
      BY <2>1 DEF TraceInv, TraceTypes
    <2> QED
      BY <1>1, <1>2, <2>1, <2>2, <2>3, WorkerOK, TypesNow, WorkerMoves
  <1>5. CASE marks[o].bit # 0
    <2> DEFINE t == [[tracer[w] EXCEPT !.pc = "store", !.new = o] EXCEPT !.next = Enqueued(w, o).next]
    <2>1. /\ tracer' = [tracer EXCEPT ![w] = t] /\ fwd' = [fwd EXCEPT ![o].bits = 0]
          /\ packets' = Enqueued(w, o).packets /\ UNCHANGED marks
      BY <1>5 DEF MarkInPlace, enqueue, Me, Becomes, FORWARDING_NOT_TRIGGERED_YET
    <2>2. Enqueued(w, o).next \in Seq(Slots) /\ packets' \subseteq Seq(Slots) \ {<<>>}
      BY <1>3, <2>1, EnqueuedOK DEF TraceInv
    <2>3. /\ t \in Tracers /\ t.pc = "store" /\ t.new = o /\ t.i = tracer[w].i
          /\ t.slots = tracer[w].slots /\ t.obj = o
      BY <1>3, <2>2, WorkerOK DEF Tracers, PCs
    <2>4. Busy(t) /\ t.pc \notin Ending /\ t.pc # "publish"
      BY <1>3, <2>3, WorkerOK DEF Busy, Ending
    <2> HIDE DEF t
    <2>5. 0 \in {0, 2} /\ 0 # BEING_FORWARDED
      BY Bits
    <2> QED
      BY <1>1, <1>2, <1>3, <2>1, <2>2, <2>3, <2>4, <2>5, TypesNow, BitsStep
  <1> QED
    BY <1>4, <1>5

\* There is an address left for a copy: objects have one copy at most, and an
\* address is no copy of two objects.
LEMMA RoomToCopy ==
    ASSUME TraceInv, Originals # {}
    PROVE  Unused \in Addresses /\ layout[Unused] = "unused" /\ Unused \notin Originals
  <1> DEFINE S == (NumObjects + 1) .. (3 * NumObjects)
  <1>1. S \subseteq Addresses \ Originals /\ NumObjects \in Nat /\ NumObjects > 0
    BY TracingAssumption, SMT DEF Originals, Addresses
  <1>2. ASSUME \A a \in Addresses : layout[a] # "unused" PROVE FALSE
    <2> DEFINE f == [a \in S |-> initial.origin[a]]
    <2>1. \A a \in S : a \in Copies /\ CopyIsPointedTo(a)
      BY <1>1, <1>2 DEF Copies, TraceInv, Forwarding
    <2>2. f \in [S -> Originals]
      BY <2>1 DEF CopyIsPointedTo
    <2>3. \A a, b \in S : f[a] = f[b] => a = b
      BY <2>1 DEF CopyIsPointedTo
    <2>4. /\ IsFiniteSet(S) /\ Cardinality(S) = 3 * NumObjects - (NumObjects + 1) + 1
          /\ IsFiniteSet(Originals) /\ Cardinality(Originals) = NumObjects - 1 + 1
      <3>1. /\ NumObjects + 1 \in Int /\ 3 * NumObjects \in Int /\ 1 \in Int /\ NumObjects \in Int
            /\ ~(NumObjects + 1 > 3 * NumObjects) /\ ~(1 > NumObjects)
        BY <1>1, SMT
      <3> QED
        BY <3>1, FS_Interval DEF Originals
    <2>5. Cardinality(Originals) < Cardinality(S)
      BY <1>1, <2>4, SMT
    <2> HIDE DEF f, S
    <2>6. \E x, y \in S : x # y /\ f[x] = f[y]
      BY <2>2, <2>4, <2>5, FS_PigeonHole, SMT
    <2> QED
      BY <2>3, <2>6
  <1>3. Unused \in Addresses /\ layout[Unused] = "unused"
    BY <1>2 DEF Unused
  <1> QED
    BY <1>3 DEF TraceInv, CopiesStay

\* The winner copies the object and writes the pointer (forward_object and
\* try_forward_object, up to the forwarding pointer).
LEMMA CopyStep == ASSUME TraceInv, NEW w \in TraceWorkers, copy(w) PROVE TraceInv'
  <1> DEFINE o == tracer[w].obj
             a == Unused
             t == [tracer[w] EXCEPT !.pc = "publish", !.new = a]
  <1>1. /\ tracer[w].pc = "copy" /\ UNCHANGED <<phase, hi, markState, treadmill, packets>>
        /\ layout' = alloc_copy(o, a) /\ slotValue' = [slotValue EXCEPT ![a] = slotValue[o]]
        /\ initial' = [initial EXCEPT !.origin[a] = o] /\ marks' = post_copy(o, a)
        /\ fwd' = write_forwarding_pointer(o, a) /\ tracer' = [tracer EXCEPT ![w] = t]
    BY DEF copy, At, Me, Becomes
  <1>2. tracer[w].pc \in Ending /\ tracer[w].pc # "publish"
    BY <1>1 DEF Ending
  <1>3. /\ o \in Originals /\ o \in Addresses /\ fwd[o].bits # FORWARDED /\ tracer[w].pc # "idle"
        /\ phase = "closure" /\ \A b \in Copies : initial.origin[b] # o
    BY <1>2, WinnerIsAlone
  <1>4. a \in Addresses /\ layout[a] = "unused" /\ a \notin Originals /\ a \notin Copies
    BY <1>3, RoomToCopy DEF Copies
  <1> HIDE DEF o, a
  <1>5. /\ t \in Tracers /\ t.pc = "publish" /\ t.new = a /\ t.obj = o
        /\ t.i = tracer[w].i /\ t.slots = tracer[w].slots
    BY <1>4, WorkerOK DEF Tracers, PCs, Ending, o
  <1>6. Busy(t)
    BY <1>2, <1>3, <1>5, WorkerOK DEF Busy, Ending
  <1> HIDE DEF t
  <1>7. /\ tracer' \in [TraceWorkers -> Tracers]
        /\ \A v \in TraceWorkers : Busy(tracer'[v]) /\ (tracer'[v].pc # "idle" => phase' = "closure")
        /\ tracer'[w] = t /\ \A v \in TraceWorkers \ {w} : tracer'[v] = tracer[v]
    BY <1>1, <1>3, <1>5, <1>6, WorkerTypes DEF TraceInv
  <1>8. /\ fwd' \in [Addresses -> [bits : {0, 2, 3}, pointer : Addresses \cup {Null}]]
        /\ fwd'[o].pointer = a /\ fwd'[o].bits = fwd[o].bits
        /\ \A b \in Addresses \ {o} : fwd'[b] = fwd[b]
    BY <1>1, <1>3, <1>4 DEF TraceInv, TraceTypes, write_forwarding_pointer
  <1>9. /\ initial' \in [slots : [Slots -> Addresses \cup {Null}], origin : [Addresses -> Addresses]]
        /\ initial'.origin[a] = o /\ \A b \in Addresses \ {a} : initial'.origin[b] = initial.origin[b]
    BY <1>1, <1>3, <1>4 DEF TraceInv, TraceTypes
  <1>10. /\ layout' \in [Addresses -> Spaces \cup {"copyspace1", "unused", "free"}]
         /\ layout'[a] \in {ToSpace', "block"} /\ \A b \in Addresses \ {a} : layout'[b] = layout[b]
    <2>1. PICK x \in {ToSpace, "block"} : layout' = [layout EXCEPT ![a] = x]
      BY <1>1 DEF alloc_copy
    <2>2. ToSpace' = ToSpace /\ x \in Spaces \cup {"copyspace1", "unused", "free"}
      BY <1>1 DEF ToSpace, Spaces
    <2> QED
      BY <1>4, <2>1, <2>2 DEF TraceInv, TraceTypes
  <1>11. slotValue' \in [Slots -> Addresses \cup {Null}]
    BY <1>1, <1>3, <1>4, TypesNow DEF Slots
  <1>12. marks' \in Marks
    <2>1. PICK x \in {0, 1} : marks' = [marks EXCEPT ![a].bit = x]
      BY <1>1 DEF post_copy
    <2> QED
      BY <1>4, <2>1, TypesNow DEF Marks
  <1>13. TraceTypes'
    BY <1>1, <1>7, <1>8, <1>9, <1>10, <1>11, <1>12 DEF TraceInv, TraceTypes
  <1>14. Copies' = Copies \cup {a} /\ CopiesStay'
    <2>1. layout'[a] # "unused" /\ ToSpace' = ToSpace
      BY <1>1, <1>10 DEF ToSpace
    <2>2. Copies' = Copies \cup {a}
      BY <1>4, <1>10, <2>1 DEF Copies
    <2>3. \A b \in Originals : layout'[b] # "unused"
      <3>1. Originals \subseteq Addresses
        BY TracingAssumption, SMT DEF Originals, Addresses
      <3> QED
        BY <1>4, <1>10, <3>1 DEF TraceInv, CopiesStay
    <2>4. \A b \in Copies' : layout'[b] \in {ToSpace', "block"}
      BY <1>3, <1>4, <1>10, <2>1, <2>2 DEF TraceInv, CopiesStay, Copies
    <2> QED
      BY <1>1, <1>3, <2>2, <2>3, <2>4 DEF CopiesStay
  <1>15. \A v \in TraceWorkers, b \in Addresses : Forwards(v, b)' <=> Forwards(v, b)
    BY <1>2, <1>5, <1>7 DEF Forwards, Ending, o
  <1>16. ASSUME NEW b \in Addresses PROVE OneEnds(b)'
    <2>1. OneEnds(b) /\ fwd'[b].bits = fwd[b].bits
      BY <1>8, <1>16 DEF TraceInv, Forwarding
    <2> QED
      BY <1>15, <1>16, <2>1 DEF OneEnds
  <1>17. ASSUME NEW b, NEW c, IsCopyOf(b, c) PROVE IsCopyOf(b, c)'
    <2>1. b \in Addresses /\ b # a
      BY <1>4, <1>17 DEF IsCopyOf, Copies
    <2> QED
      BY <1>9, <1>14, <1>17, <2>1 DEF IsCopyOf
  <1>18. ASSUME NEW b \in Copies' PROVE CopyIsPointedTo(b)'
    <2>1. CASE b = a
      BY <1>3, <1>5, <1>7, <1>8, <1>9, <2>1 DEF CopyIsPointedTo
    <2>2. CASE b # a
      <3>1. b \in Copies /\ b \in Addresses /\ CopyIsPointedTo(b)
        BY <1>14, <1>18, <2>2 DEF TraceInv, Forwarding, Copies
      <3>2. initial'.origin[b] = initial.origin[b] /\ initial.origin[b] # o
        BY <1>3, <1>9, <2>2, <3>1
      <3>3. initial.origin[b] \in Addresses
        BY <3>1 DEF TraceInv, TraceTypes
      <3>4. fwd'[initial.origin[b]] = fwd[initial.origin[b]]
        BY <1>8, <3>2, <3>3
      <3>5. \A v \in TraceWorkers : tracer[v].pc = "publish" => tracer'[v] = tracer[v]
        BY <1>2, <1>7
      <3> QED
        BY <1>1, <3>1, <3>2, <3>4, <3>5 DEF CopyIsPointedTo
    <2> QED
      BY <2>1, <2>2
  <1>19. ASSUME NEW b \in Addresses, fwd'[b].bits = FORWARDED PROVE IsCopyOf(fwd[b].pointer, b)'
    <2>1. b # o /\ fwd'[b] = fwd[b]
      BY <1>3, <1>8, <1>19
    <2>2. IsCopyOf(fwd[b].pointer, b)
      BY <1>19, <2>1 DEF TraceInv, Forwarding
    <2>3. fwd[b].pointer \in Copies' /\ initial'.origin[fwd[b].pointer] = b
      BY <1>17, <2>2 DEF IsCopyOf
    <2> QED
      BY <2>1, <2>3 DEF IsCopyOf
  <1>20. ASSUME NEW v \in TraceWorkers, tracer'[v].pc = "publish"
         PROVE  IsCopyOf(tracer[v].new, tracer[v].obj)'
    <2>1. CASE v = w
      BY <1>5, <1>7, <1>9, <1>14, <2>1 DEF IsCopyOf
    <2>2. CASE v # w
      <3>1. tracer'[v] = tracer[v]
        BY <1>7, <2>2
      <3>2. IsCopyOf(tracer[v].new, tracer[v].obj)
        BY <1>20, <3>1 DEF TraceInv, Forwarding
      <3>3. tracer[v].new \in Copies' /\ initial'.origin[tracer[v].new] = tracer[v].obj
        BY <1>17, <3>2 DEF IsCopyOf
      <3> QED
        BY <3>1, <3>3 DEF IsCopyOf
    <2> QED
      BY <2>1, <2>2
  <1>21. Forwarding'
    BY <1>16, <1>18, <1>19, <1>20 DEF Forwarding
  <1> QED
    BY <1>13, <1>14, <1>21 DEF TraceInv

\* The winner publishes the copy (the forwarding bits, then enqueue).
LEMMA PublishStep == ASSUME TraceInv, NEW w \in TraceWorkers, publish(w) PROVE TraceInv'
  <1> DEFINE o == tracer[w].obj
             n == tracer[w].new
             t == [[tracer[w] EXCEPT !.pc = "store"] EXCEPT !.next = Enqueued(w, n).next]
  <1>1. /\ tracer[w].pc = "publish" /\ UNCHANGED Heap /\ UNCHANGED <<slotValue, marks, treadmill>>
        /\ fwd' = [fwd EXCEPT ![o].bits = FORWARDED]
        /\ packets' = Enqueued(w, n).packets /\ tracer' = [tracer EXCEPT ![w] = t]
    BY DEF publish, At, Me, Becomes, enqueue
  <1>2. tracer[w].pc \in Ending
    BY <1>1 DEF Ending
  <1>3. /\ o \in Originals /\ o \in Addresses /\ tracer[w].pc # "idle" /\ phase = "closure"
        /\ \A v \in TraceWorkers \ {w} : ~Forwards(v, o)
    BY <1>2, WinnerIsAlone
  <1>4. IsCopyOf(n, o) /\ n \in Addresses
    BY <1>1 DEF TraceInv, Forwarding, IsCopyOf, Copies
  <1>5. Enqueued(w, n).next \in Seq(Slots) /\ packets' \subseteq Seq(Slots) \ {<<>>}
    BY <1>1, <1>4, EnqueuedOK DEF TraceInv
  <1>6. /\ t \in Tracers /\ t.pc = "store" /\ t.new = n /\ t.obj = o
        /\ t.i = tracer[w].i /\ t.slots = tracer[w].slots
    BY <1>5, WorkerOK DEF Tracers, PCs
  <1> HIDE DEF o, n
  <1>7. Busy(t) /\ t.pc \notin Ending /\ t.pc # "publish"
    BY <1>3, <1>4, <1>6, WorkerOK DEF Busy, Ending
  <1> HIDE DEF t
  <1>8. UNCHANGED <<phase, hi, layout, initial, markState>>
    BY <1>1 DEF Heap
  <1>9. /\ tracer' \in [TraceWorkers -> Tracers]
        /\ \A v \in TraceWorkers : Busy(tracer'[v]) /\ (tracer'[v].pc # "idle" => phase' = "closure")
        /\ tracer'[w] = t /\ \A v \in TraceWorkers \ {w} : tracer'[v] = tracer[v]
    BY <1>1, <1>3, <1>6, <1>7, <1>8, WorkerTypes DEF TraceInv
  <1>10. FORWARDED \in {0, 2, 3}
    BY Bits
  <1>11. /\ fwd' \in [Addresses -> [bits : {0, 2, 3}, pointer : Addresses \cup {Null}]]
         /\ fwd'[o].bits = FORWARDED /\ fwd'[o].pointer = fwd[o].pointer
         /\ \A b \in Addresses \ {o} : fwd'[b] = fwd[b]
    BY <1>1, <1>3, <1>10 DEF TraceInv, TraceTypes
  <1>12. TraceTypes'
    BY <1>1, <1>5, <1>8, <1>9, <1>11 DEF TraceInv, TraceTypes
  <1>13. Copies' = Copies /\ CopiesStay'
    BY <1>8 DEF TraceInv, CopiesStay, Copies, ToSpace
  <1>14. ASSUME NEW b \in Addresses PROVE OneEnds(b)'
    <2>1. CASE b = o
      <3>1. \A v \in TraceWorkers : ~Forwards(v, b)'
        BY <1>3, <1>7, <1>9, <2>1 DEF Forwards, Ending
      <3> QED
        BY <1>11, <2>1, <3>1, Bits DEF OneEnds
    <2>2. CASE b # o
      <3>1. \A v \in TraceWorkers : Forwards(v, b)' <=> Forwards(v, b)
        BY <1>7, <1>9, <2>2 DEF Forwards, Ending, o
      <3>2. OneEnds(b) /\ fwd'[b] = fwd[b]
        BY <1>11, <1>14, <2>2 DEF TraceInv, Forwarding
      <3> QED
        BY <3>1, <3>2 DEF OneEnds
    <2> QED
      BY <2>1, <2>2
  <1>15. ASSUME NEW b \in Copies PROVE CopyIsPointedTo(b)'
    <2>1. CopyIsPointedTo(b) /\ initial.origin[b] \in Addresses /\ initial' = initial
      BY <1>8, <1>15 DEF TraceInv, TraceTypes, Forwarding, Copies
    <2>2. CASE initial.origin[b] = o
      BY <1>11, <2>1, <2>2 DEF CopyIsPointedTo
    <2>3. CASE initial.origin[b] # o
      <3>1. fwd'[initial.origin[b]] = fwd[initial.origin[b]]
        BY <1>11, <2>1, <2>3
      <3>2. \A v \in TraceWorkers : tracer[v].obj = initial.origin[b] => tracer'[v] = tracer[v]
        BY <1>9, <2>3 DEF o
      <3>3. phase' = phase
        BY <1>8
      <3> QED
        BY <2>1, <3>1, <3>2, <3>3 DEF CopyIsPointedTo
    <2> QED
      BY <2>2, <2>3
  <1>16. \A b, c : IsCopyOf(b, c) => b \in Copies' /\ initial'.origin[b] = c
    BY <1>8, <1>13 DEF IsCopyOf
  <1>17. ASSUME NEW b \in Addresses, fwd'[b].bits = FORWARDED PROVE IsCopyOf(fwd[b].pointer, b)'
    <2>1. IsCopyOf(fwd'[b].pointer, b)
      <3>1. CASE b = o
        <4>1. CopyIsPointedTo(n) /\ initial.origin[n] = o
          BY <1>4 DEF TraceInv, Forwarding, IsCopyOf
        <4>2. fwd'[b].pointer = n
          BY <1>11, <3>1, <4>1 DEF CopyIsPointedTo
        <4> QED
          BY <1>4, <3>1, <4>2
      <3>2. CASE b # o
        BY <1>11, <1>17, <3>2 DEF TraceInv, Forwarding
      <3> QED
        BY <3>1, <3>2
    <2>2. fwd'[b].pointer \in Copies' /\ initial'.origin[fwd'[b].pointer] = b
      BY <1>16, <2>1
    <2> QED
      BY <2>2 DEF IsCopyOf
  <1>18. ASSUME NEW v \in TraceWorkers, tracer'[v].pc = "publish"
         PROVE  IsCopyOf(tracer[v].new, tracer[v].obj)'
    <2>1. tracer'[v] = tracer[v]
      BY <1>7, <1>9, <1>18
    <2>2. IsCopyOf(tracer'[v].new, tracer'[v].obj)
      BY <1>18, <2>1 DEF TraceInv, Forwarding
    <2>3. tracer'[v].new \in Copies' /\ initial'.origin[tracer'[v].new] = tracer'[v].obj
      BY <1>16, <2>2
    <2> QED
      BY <2>3 DEF IsCopyOf
  <1>19. Forwarding'
    BY <1>13, <1>14, <1>15, <1>17, <1>18 DEF Forwarding
  <1> QED
    BY <1>12, <1>13, <1>19 DEF TraceInv
-----------------------------------------------------------------------------
(***************************************************************************)
(* The pause.                                                              *)
(***************************************************************************)
\* Outside the closure no worker is at an object, and no object is being
\* forwarded.
LEMMA AllIdle ==
    ASSUME TraceInv, \A w \in TraceWorkers : tracer[w].pc = "idle"
    PROVE  \A a \in Addresses : /\ \A w \in TraceWorkers : ~Forwards(w, a)
                                /\ fwd[a].bits # BEING_FORWARDED
  BY DEF Forwards, TraceInv, Forwarding, OneEnds

\* Nothing has been copied when a pause starts (prepare).
LEMMA PrepareStep == ASSUME TraceInv, prepare PROVE TraceInv'
  <1>1. /\ phase = "mutator" /\ phase' = "closure" /\ hi' = ~hi
        /\ markState' = 1 - markState /\ treadmill' = flip(treadmill)
        /\ packets' = {<<s>> : s \in RootSlots}
        /\ initial' = [initial EXCEPT !.slots = slotValue]
        /\ UNCHANGED <<layout, slotValue, fwd, marks, tracer>>
    BY DEF prepare, SemiSpacePrepare, LargeObjectSpacePrepare
  <1>2. Copies = {} /\ Copies' = {} /\ \A w \in TraceWorkers : tracer[w].pc = "idle"
    BY <1>1 DEF TraceInv, TraceTypes, CopiesStay, Copies
  <1>3. TraceTypes'
    <2>1. packets' \subseteq Seq(Slots) \ {<<>>}
      <3>1. \A s \in RootSlots : <<s>> \in Seq(Slots) /\ <<s>> # <<>>
        BY SMT DEF Slots
      <3> QED
        BY <1>1, <3>1
    <2>2. markState' \in {0, 1}
      BY <1>1, TypesNow, SMT
    <2>3. treadmill' \in TreadMills
      BY <1>1, TypesNow, SMT DEF flip, TreadMills
    <2>4. initial' \in [slots : [Slots -> Addresses \cup {Null}], origin : [Addresses -> Addresses]]
      BY <1>1 DEF TraceInv, TraceTypes
    <2> QED
      BY <1>1, <1>2, <2>1, <2>2, <2>3, <2>4 DEF TraceInv, TraceTypes
  <1>4. CopiesStay'
    BY <1>1, <1>2 DEF TraceInv, CopiesStay
  <1>5. \A a \in Addresses : fwd'[a].bits # FORWARDED
    BY <1>1, <1>2 DEF TraceInv, Forwarding, IsCopyOf
  <1>6. \A a \in Addresses : OneEnds(a)'
    <2>1. \A a \in Addresses, w \in TraceWorkers : ~Forwards(w, a)'
      BY <1>1, <1>2 DEF Forwards
    <2>2. \A a \in Addresses : fwd'[a].bits # BEING_FORWARDED
      BY <1>1, <1>2, AllIdle
    <2> QED
      BY <2>1, <2>2 DEF OneEnds
  <1>7. Forwarding'
    BY <1>1, <1>2, <1>5, <1>6 DEF Forwarding
  <1> QED
    BY <1>3, <1>4, <1>7 DEF TraceInv

\* The release of the spaces ends the pause; it forgets forwarding bits, and
\* no address that is free was a copy's before.
LEMMA ReleaseStep == ASSUME TraceInv, release PROVE TraceInv'
  <1> DEFINE freed == CopySpaceFrees \cup ImmixSpaceFrees \cup sweep_large_pages
  <1>1. /\ phase = "closure" /\ phase' = "released" /\ \A w \in TraceWorkers : tracer[w].pc = "idle"
        /\ layout' = [a \in Addresses |-> IF a \in freed THEN "free" ELSE layout[a]]
        /\ fwd' = [a \in Addresses |-> IF a \in CopySpaceFrees THEN [fwd[a] EXCEPT !.bits = 0]
                                       ELSE fwd[a]]
        /\ treadmill' = [treadmill EXCEPT !.from = {}, !.collectNursery = {}]
        /\ UNCHANGED <<hi, slotValue, initial, marks, markState, packets, tracer>>
    BY DEF release
  <1>2. /\ fwd' \in [Addresses -> [bits : {0, 2, 3}, pointer : Addresses \cup {Null}]]
        /\ \A a \in Addresses : fwd'[a].pointer = fwd[a].pointer
        /\ \A a \in Addresses : fwd'[a].bits = 0 \/ fwd'[a].bits = fwd[a].bits
    BY <1>1 DEF TraceInv, TraceTypes
  <1>3. layout' \in [Addresses -> Spaces \cup {"copyspace1", "unused", "free"}]
    BY <1>1 DEF TraceInv, TraceTypes
  <1>4. treadmill' \in TreadMills
    BY <1>1, TypesNow DEF TreadMills
  <1>5. TraceTypes'
    BY <1>1, <1>2, <1>3, <1>4 DEF TraceInv, TraceTypes
  <1>6. \A a \in Addresses : layout'[a] = "unused" <=> layout[a] = "unused"
    <2>1. ASSUME NEW a \in Addresses, layout[a] = "unused" PROVE a \notin freed
      <3>1. a \notin CopySpaceFrees \cup ImmixSpaceFrees
        BY <2>1 DEF CopySpaceFrees, ImmixSpaceFrees, FromSpace
      <3>2. a \notin Originals
        BY <2>1 DEF TraceInv, CopiesStay
      <3>3. sweep_large_pages \subseteq Originals
        BY TypesNow DEF sweep_large_pages, collect, collect_nursery, TreadMills
      <3> QED
        BY <3>1, <3>2, <3>3
    <2> HIDE DEF freed
    <2> QED
      BY <1>1, <2>1
  <1>7. Originals \subseteq Addresses
    BY TracingAssumption, SMT DEF Originals, Addresses
  <1>8. Copies' = Copies /\ CopiesStay'
    BY <1>1, <1>6, <1>7 DEF TraceInv, CopiesStay, Copies
  <1>9. \A a \in Addresses : OneEnds(a)'
    <2>1. \A a \in Addresses : fwd'[a].bits # BEING_FORWARDED
      BY <1>1, <1>2, AllIdle, Bits
    <2>2. \A a \in Addresses, w \in TraceWorkers : ~Forwards(w, a)'
      BY <1>1 DEF Forwards
    <2> QED
      BY <2>1, <2>2 DEF OneEnds
  <1>10. ASSUME NEW a \in Addresses, fwd'[a].bits = FORWARDED PROVE IsCopyOf(fwd[a].pointer, a)'
    <2>1. fwd[a].bits = FORWARDED /\ fwd'[a].pointer = fwd[a].pointer /\ initial' = initial
      BY <1>1, <1>2, <1>10, Bits
    <2>2. fwd[a].pointer \in Copies /\ initial.origin[fwd[a].pointer] = a
      BY <2>1 DEF TraceInv, Forwarding, IsCopyOf
    <2>3. fwd'[a].pointer \in Copies' /\ initial'.origin[fwd'[a].pointer] = a
      BY <1>8, <2>1, <2>2
    <2> QED
      BY <2>3 DEF IsCopyOf
  <1>11. ASSUME NEW a \in Copies PROVE CopyIsPointedTo(a)'
    <2>1. CopyIsPointedTo(a) /\ initial.origin[a] \in Addresses
      BY <1>11 DEF TraceInv, TraceTypes, Forwarding, Copies
    <2> QED
      BY <1>1, <1>2, <2>1 DEF CopyIsPointedTo
  <1>12. Forwarding'
    BY <1>1, <1>8, <1>9, <1>10, <1>11 DEF Forwarding
  <1> QED
    BY <1>5, <1>8, <1>12 DEF TraceInv

\* No pause has started: nothing is copied, and every worker is idle.
LEMMA TraceInvInit == TracingInit => TraceInv
  <1> HAVE TracingInit
  <1>1. PICK l \in Layouts : layout = [a \in Addresses |-> IF a \in Originals THEN l[a] ELSE "unused"]
    BY DEF TracingInit
  <1>2. l \in [Originals -> Spaces]
    BY TracingAssumption
  <1>3. Originals \subseteq Addresses
    BY TracingAssumption, SMT DEF Originals, Addresses
  <1>4. /\ layout \in [Addresses -> Spaces \cup {"copyspace1", "unused", "free"}]
        /\ \A a \in Originals : layout[a] # "unused"
        /\ \A a \in Addresses \ Originals : layout[a] = "unused"
    BY <1>1, <1>2, <1>3 DEF Spaces
  <1>5. Copies = {} /\ CopiesStay
    BY <1>4 DEF TracingInit, Copies, CopiesStay
  <1>6. slotValue \in [Slots -> Addresses \cup {Null}]
    <2>1. PICK v \in [RootSlots \cup Originals -> Originals \cup {Null}] :
             slotValue = [s \in RootSlots \cup Addresses |-> IF s \in DOMAIN v THEN v[s] ELSE Null]
      BY DEF TracingInit
    <2>2. \A s \in Slots : (IF s \in DOMAIN v THEN v[s] ELSE Null) \in Addresses \cup {Null}
      BY <1>3
    <2> QED
      BY <2>1, <2>2 DEF Slots
  <1>7. initial \in [slots : [Slots -> Addresses \cup {Null}], origin : [Addresses -> Addresses]]
    BY <1>6, SMT DEF TracingInit
  <1>8. /\ fwd \in [Addresses -> [bits : {0, 2, 3}, pointer : Addresses \cup {Null}]]
        /\ \A a \in Addresses : fwd[a].bits = FORWARDING_NOT_TRIGGERED_YET
    BY SMT DEF TracingInit, FORWARDING_NOT_TRIGGERED_YET
  <1>9. marks \in Marks /\ markState \in {0, 1} /\ treadmill \in TreadMills
    <2>1. PICK young \in SUBSET LargeObjects :
             /\ marks = [a \in Addresses |-> [bit |-> 0, nursery |-> a \in young]]
             /\ treadmill = [from |-> {}, to |-> LargeObjects \ young, collectNursery |-> {},
                             allocNursery |-> young]
      BY DEF TracingInit
    <2>2. LargeObjects \subseteq Originals
      BY DEF LargeObjects
    <2>3. treadmill \in TreadMills
      BY <2>1, <2>2, SMT DEF TreadMills
    <2>4. \A a \in Addresses : [bit |-> 0, nursery |-> a \in young] \in [bit : {0, 1}, nursery : BOOLEAN]
      <3>1. \A a \in Addresses : (a \in young) \in BOOLEAN
        BY SMT
      <3> QED
        BY <3>1
    <2> QED
      BY <2>1, <2>3, <2>4 DEF TracingInit, Marks
  <1>10. tracer \in [TraceWorkers -> Tracers] /\ \A w \in TraceWorkers : tracer[w] = Resting
    BY RestingOK DEF TracingInit
  <1>11. TraceTypes
    BY <1>4, <1>6, <1>7, <1>8, <1>9, <1>10, RestingOK DEF TracingInit, TraceTypes, Busy, Ending
  <1>12. Forwarding
    <2>1. \A a \in Addresses, w \in TraceWorkers : ~Forwards(w, a)
      BY <1>10, RestingOK DEF Forwards
    <2>2. \A a \in Addresses : fwd[a].bits # BEING_FORWARDED /\ fwd[a].bits # FORWARDED
      BY <1>8, Bits
    <2> QED
      BY <1>5, <1>10, <2>1, <2>2, RestingOK DEF Forwarding, OneEnds
  <1> QED
    BY <1>5, <1>11, <1>12 DEF TraceInv

\* Every step keeps the invariant.
LEMMA TraceInvStep == TraceInv /\ [TracingNext]_traceVars => TraceInv'
  <1> SUFFICES ASSUME TraceInv, [TracingNext]_traceVars PROVE TraceInv'
    OBVIOUS
  <1>1. CASE notify_new_clean_block \/ UNCHANGED traceVars
    <2>1. UNCHANGED <<phase, hi, layout, slotValue, initial, fwd, marks, markState, treadmill,
                      packets, tracer>>
      BY <1>1 DEF notify_new_clean_block, Heap, traceVars
    <2>2. TraceTypes'
      BY <2>1 DEF TraceInv, TraceTypes
    <2>3. Copies' = Copies /\ CopiesStay'
      BY <2>1 DEF TraceInv, CopiesStay, Copies, ToSpace
    <2>4. ASSUME NEW a \in Addresses PROVE OneEnds(a)'
      <3>1. OneEnds(a) /\ \A w \in TraceWorkers : Forwards(w, a)' <=> Forwards(w, a)
        BY <2>1 DEF TraceInv, Forwarding, Forwards
      <3> QED
        BY <2>1, <3>1 DEF OneEnds
    <2>5. ASSUME NEW a \in Copies PROVE CopyIsPointedTo(a)'
      <3>1. CopyIsPointedTo(a)
        BY DEF TraceInv, Forwarding
      <3> QED
        BY <2>1, <3>1 DEF CopyIsPointedTo
    <2>6. /\ \A a \in Addresses : fwd'[a].bits = FORWARDED => IsCopyOf(fwd[a].pointer, a)'
          /\ \A w \in TraceWorkers :
               tracer'[w].pc = "publish" => IsCopyOf(tracer[w].new, tracer[w].obj)'
      BY <2>1, <2>3 DEF TraceInv, Forwarding, IsCopyOf
    <2>7. Forwarding'
      BY <2>3, <2>4, <2>5, <2>6 DEF Forwarding
    <2> QED
      BY <2>2, <2>3, <2>7 DEF TraceInv
  <1> QED
    BY <1>1, PrepareStep, ReleaseStep, DoWorkStep, ProcessSlotStep, StoreStep, StatusStep,
       AttemptStep, SpinStep, WinnerStep, ClearStep, PinStep, CopyStep, PublishStep, MarkStep,
       LargeStep DEF TracingNext

\* However many workers race for however many objects: one worker ends the
\* forwarding of an object, an object has one copy at most, and its published
\* pointer is that copy (object_forwarding attempt_to_forward, forward_object,
\* spin_and_get_forwarded_object).
THEOREM OneWorkerForwardsThm == TracingSpec => []OneWorkerForwards
  <1>1. TraceInv => OneWorkerForwards
    <2> SUFFICES ASSUME TraceInv PROVE OneWorkerForwards
      OBVIOUS
    <2>1. \A a, b \in Copies : initial.origin[a] = initial.origin[b] => a = b
      BY DEF TraceInv, Forwarding, CopyIsPointedTo
    <2> QED
      BY <2>1 DEF TraceInv, Forwarding, OneEnds, IsCopyOf, OneWorkerForwards
  <1> QED
    BY <1>1, TraceInvInit, TraceInvStep, PTL DEF TracingSpec
-----------------------------------------------------------------------------
(***************************************************************************)
(* What makes the closure exact.                                           *)
(***************************************************************************)
\* The object will be kept by release as it stands.
Survives(a) ==
  \/ layout[a] = "copyspace1"
  \/ layout[a] \in {"defrag", "block", "immortal", "los"} /\ marks[a].bit = 1

\* The addresses of objects, and the slots that hold references.
Used == {a \in Addresses : layout[a] # "unused"}
LiveSlots == RootSlots \cup {a \in Addresses : Survives(a)}

\* What a slot referred to when the pause started, a copy's slot being that of
\* the object it is the copy of; and the object that an address stands for.
Was(s) == IF s \in RootSlots THEN initial.slots[s] ELSE initial.slots[initial.origin[s]]
Origin(a) == IF a = Null THEN Null ELSE initial.origin[a]

\* A slot is done: its object will be kept, where it is.
Settled(s) == slotValue[s] = Null \/ Survives(slotValue[s])

\* The slots of a packet or of what a worker has left.
In(s, q) == \E j \in 1 .. Len(q) : q[j] = s
InPackets(s) == \E p \in packets : In(s, p)
InHand(t, s) ==
  t.pc # "idle" /\ (In(s, t.next) \/ \E j \in t.i .. Len(t.slots) : t.slots[j] = s)
HeldBy(t, s) == In(s, t.slots) \/ In(s, t.next)

\* A worker has made the object a survivor and is about to enqueue it.
Enqueues(t, a) ==
  \/ t.pc \in {"pin", "treadmill"} /\ t.obj = a
  \/ t.pc = "publish" /\ t.new = a

\* Nothing is forgotten: a slot of a survivor is done, waits, or is about to wait.
Remembered(s) ==
  \/ Settled(s) \/ InPackets(s)
  \/ \E w \in TraceWorkers : InHand(tracer[w], s) \/ Enqueues(tracer[w], s)

\* A slot refers to what it referred to, or to its copy.
SlotKeeps(s) == slotValue[s] \in Used \cup {Null} /\ Origin(slotValue[s]) = Was(s)

\* The object a worker is at is the one of its slot, and at each place it is
\* what the code there takes it to be.
AtObject(t) ==
  LET o == t.obj
      s == t.slots[t.i]
  IN t.pc \notin {"idle", "slot"} =>
       /\ layout[o] # "unused" /\ initial.origin[o] = Was(s)
       /\ slotValue[s] = o \/ Settled(s)
       /\ t.pc \in {"status", "cas", "spin"} \cup Ending => layout[o] \in {"copyspace0", "defrag"}
       /\ t.pc \in {"clear", "pin"} => layout[o] = "defrag"
       /\ t.pc = "mark" => layout[o] \in {"block", "immortal"}
       /\ t.pc \in {"nursery", "los", "treadmill"} => layout[o] = "los"
       /\ t.pc \in {"clear", "treadmill"} => marks[o].bit = 1
       /\ t.pc = "copy" => ~Survives(o)
       /\ t.pc = "spin" => fwd[o].bits # FORWARDING_NOT_TRIGGERED_YET \/ Survives(o)
       /\ t.pc = "store" => Survives(t.new) /\ initial.origin[t.new] = initial.origin[o]
       /\ t.pc = "los" /\ marks[o].bit = 0 => t.young = marks[o].nursery

\* An original stands for itself; one that was copied will not be kept, its
\* copy will.
Twins ==
  /\ \A o \in Originals : initial.origin[o] = o
  /\ \A a \in Copies : /\ Survives(a) /\ ~Survives(initial.origin[a])
                       /\ layout[initial.origin[a]] \in {"copyspace0", "defrag"}

\* Where a large object is that no worker has put into the to-space.
InSet(o, young) ==
  o \notin treadmill.to /\ (o \in treadmill.collectNursery <=> young) /\ (o \in treadmill.from <=> ~young)

AtTreadmill(w, o) == tracer[w].pc = "treadmill" /\ tracer[w].obj = o

\* A large object is in the set of its age until the one worker that marked it
\* moves it.
OnTreadmill(o) ==
  IF layout[o] # "los" THEN o \notin treadmill.to \cup treadmill.from \cup treadmill.collectNursery
  ELSE \/ /\ marks[o].bit = 0 /\ InSet(o, marks[o].nursery)
          /\ \A w \in TraceWorkers : ~AtTreadmill(w, o)
       \/ /\ marks[o].bit = 1
          /\ \E w \in TraceWorkers :
               /\ AtTreadmill(w, o) /\ InSet(o, tracer[w].young)
               /\ \A v \in TraceWorkers : AtTreadmill(v, o) => v = w
       \/ /\ marks[o].bit = 1 /\ o \in treadmill.to
          /\ o \notin treadmill.from \cup treadmill.collectNursery
          /\ \A w \in TraceWorkers : ~AtTreadmill(w, o)

\* The heap before the pause.
Untouched ==
  /\ hi = FALSE /\ markState = 0
  /\ \A s \in RootSlots \cup Originals : slotValue[s] \in Originals \cup {Null}
  /\ \A a \in Addresses : initial.origin[a] = a /\ marks[a].bit = 0
                           /\ layout[a] \notin {"copyspace1", "free"}
  /\ treadmill.from = {} /\ treadmill.collectNursery = {}
  /\ treadmill.allocNursery \cup treadmill.to = LargeObjects
  /\ \A o \in LargeObjects : (o \in treadmill.allocNursery <=> marks[o].nursery)
                             /\ (o \in treadmill.to <=> ~marks[o].nursery)
  /\ \A w \in TraceWorkers : tracer[w] = Resting

\* The heap during the closure.
HeapClosing ==
  /\ hi = TRUE /\ markState = 1
  /\ \A s \in RootSlots \cup Originals : initial.slots[s] \in Originals \cup {Null}
  /\ Twins /\ \A a \in Addresses : layout[a] # "free"
  /\ \A s \in RootSlots \cup Used : SlotKeeps(s)
  /\ \A a \in Addresses : Survives(a) => initial.origin[a] \in Reached(initial.slots)

\* The workers and what waits for them.
Closing ==
  /\ HeapClosing
  /\ \A s : InPackets(s) => s \in LiveSlots
  /\ \A w \in TraceWorkers : AtObject(tracer[w]) /\ \A s : HeldBy(tracer[w], s) => s \in LiveSlots
  /\ \A s \in LiveSlots : Remembered(s)
  /\ \A o \in Originals : OnTreadmill(o)

ClosureInv ==
  /\ phase = "mutator" => Untouched
  /\ phase = "closure" => Closing
  /\ phase = "released" => ClosureIsExact
-----------------------------------------------------------------------------
(***************************************************************************)
(* What the roots reach.                                                   *)
(***************************************************************************)
\* Induction up to n, for the hops of Reached.
LEMMA UpTo ==
    ASSUME NEW n \in Nat, NEW good, 0 \in good, \A k \in 1 .. n : k - 1 \in good => k \in good
    PROVE  \A k \in 0 .. n : k \in good
  <1> DEFINE bad == {k \in 0 .. n : k \notin good}
             R == {ss \in Nat \X Nat : ss[1] < ss[2]}
  <1> SUFFICES ASSUME bad # {} PROVE FALSE
    OBVIOUS
  <1>1. IsWellFoundedOn(R, Nat)
    BY NatLessThanWellFounded, SMTT(30) DEF OpToRel
  <1>0. bad \subseteq Nat
    BY SMTT(30)
  <1>2. \A x, y \in Nat : x < y => <<x, y>> \in R
    BY SMTT(30)
  <1>3. PICK x \in bad : \A y \in bad : <<y, x>> \notin R
    <2> HIDE DEF R, bad
    <2> QED
      BY <1>0, <1>1, WFMin
  <1> HIDE DEF R
  <1>4. x \in 0 .. n /\ x \notin good /\ x # 0
    BY <1>3
  <1>5. x - 1 \in 0 .. n /\ x - 1 < x /\ x - 1 \in Nat /\ x \in Nat /\ x \in 1 .. n
    BY <1>4, SMTT(30)
  <1>6. x - 1 \in good
    BY <1>2, <1>3, <1>5
  <1> QED
    BY <1>4, <1>5, <1>6

\* What the slots v of the roots, and of a set of objects, refer to.
FromRoots(v) == {v[s] : s \in RootSlots} \ {Null}
OneHop(v, X) == X \cup ({v[a] : a \in X} \ {Null})
Hopping(W, v) == W[0] = FromRoots(v) /\ \A i \in 1 .. NumObjects : W[i] = OneHop(v, W[i - 1])

\* The hops that Reached is defined by exist.
LEMMA HopsOf == ASSUME NEW v PROVE \E W : Hopping(W, v) /\ Reached(v) = W[NumObjects]
  <1> DEFINE n == NumObjects
             Fun(g, k) == g = [i \in 0 .. k |-> IF i = 0 THEN FromRoots(v) ELSE OneHop(v, g[i - 1])]
             W == CHOOSE g : Fun(g, n)
  <1>1. n \in Nat
    BY TracingAssumption
  <1>2. Reached(v) = W[n]
    BY DEF Reached, FromRoots, OneHop
  <1> HIDE DEF n
  <1>3. /\ n \in 0 .. n /\ 0 \in 0 .. n
        /\ \A i \in 1 .. n : i # 0 /\ i \in 0 .. n /\ i - 1 \in 0 .. n /\ i \in Nat
    BY <1>1, SMTT(30)
  <1>4. \E g : Fun(g, n)
    <2> DEFINE good == {k \in 0 .. n : \E g : Fun(g, k)}
    <2>1. 0 \in good
      <3> DEFINE g0 == [i \in 0 .. 0 |-> FromRoots(v)]
      <3>1. \A i \in 0 .. 0 : i = 0
        BY SMTT(30)
      <3>2. g0 = [i \in 0 .. 0 |-> IF i = 0 THEN FromRoots(v) ELSE OneHop(v, g0[i - 1])]
        BY <3>1
      <3> QED
        BY <1>3, <3>2
    <2>2. ASSUME NEW k \in 1 .. n, k - 1 \in good PROVE k \in good
      <3>1. PICK g : Fun(g, k - 1)
        BY <2>2
      <3> DEFINE h == [i \in 0 .. k |-> IF i = 0 THEN FromRoots(v) ELSE OneHop(v, g[i - 1])]
      <3>2. /\ k \in Nat
            /\ \A i \in 0 .. k : i # 0 => i - 1 \in 0 .. k - 1
            /\ \A i \in 0 .. k - 1 : i \in 0 .. k
        BY <1>3, SMTT(30)
      <3>3. \A i \in 0 .. k - 1 : h[i] = g[i]
        BY <3>1, <3>2
      <3>4. \A i \in 0 .. k : h[i] = IF i = 0 THEN FromRoots(v) ELSE OneHop(v, h[i - 1])
        BY <3>2, <3>3
      <3>5. Fun(h, k)
        BY <3>4
      <3> QED
        BY <1>3, <3>5
    <2>3. \A k \in 0 .. n : k \in good
      <3> HIDE DEF good
      <3> QED
        BY <1>1, <2>1, <2>2, UpTo
    <2> QED
      BY <1>3, <2>3
  <1>5. Fun(W, n)
    BY <1>4
  <1>6. W[0] = FromRoots(v) /\ \A i \in 1 .. n : W[i] = OneHop(v, W[i - 1])
    <2> HIDE DEF W
    <2> QED
      BY <1>3, <1>5
  <1> HIDE DEF W
  <1> QED
    BY <1>2, <1>6 DEF Hopping, n

\* What is reached stays in every set that holds what the roots refer to and
\* follows the slots.
LEMMA ReachedStays ==
    ASSUME NEW v, NEW U, FromRoots(v) \subseteq U, \A a \in U : v[a] \in U \cup {Null}
    PROVE  Reached(v) \subseteq U
  <1>1. PICK W : Hopping(W, v) /\ Reached(v) = W[NumObjects]
    BY HopsOf
  <1>2. /\ NumObjects \in Nat /\ NumObjects \in 0 .. NumObjects /\ 0 \in 0 .. NumObjects
        /\ \A i \in 1 .. NumObjects : i \in 0 .. NumObjects
    BY TracingAssumption, SMTT(30)
  <1> DEFINE good == {k \in 0 .. NumObjects : W[k] \subseteq U}
  <1>3. 0 \in good
    BY <1>1, <1>2 DEF Hopping
  <1>4. ASSUME NEW k \in 1 .. NumObjects, k - 1 \in good PROVE k \in good
    <2>1. W[k - 1] \subseteq U /\ W[k] = OneHop(v, W[k - 1])
      BY <1>1, <1>4 DEF Hopping
    <2> QED
      BY <1>2, <2>1 DEF OneHop
  <1> HIDE DEF good
  <1>5. \A k \in 0 .. NumObjects : k \in good
    BY <1>2, <1>3, <1>4, UpTo
  <1> QED
    BY <1>1, <1>2, <1>5 DEF good

\* As many hops as there are objects reach everything: each hop before the last
\* one adds an object.
LEMMA ReachedIsClosed ==
    ASSUME NEW v, \A s \in RootSlots \cup Originals : v[s] \in Originals \cup {Null}
    PROVE  /\ Reached(v) \subseteq Originals /\ FromRoots(v) \subseteq Reached(v)
           /\ \A a \in Reached(v) : v[a] \in Reached(v) \cup {Null}
  <1>1. PICK W : Hopping(W, v) /\ Reached(v) = W[NumObjects]
    BY HopsOf
  <1>2. /\ NumObjects \in Nat /\ NumObjects \in 0 .. NumObjects /\ 0 \in 0 .. NumObjects
        /\ \A i \in 1 .. NumObjects : i \in 0 .. NumObjects
    BY TracingAssumption, SMTT(30)
  <1>3. Reached(v) \subseteq Originals
    <2>1. FromRoots(v) \subseteq Originals /\ \A a \in Originals : v[a] \in Originals \cup {Null}
      BY DEF FromRoots
    <2> QED
      BY <2>1, ReachedStays
  <1> DEFINE Closed(X) == \A a \in X : v[a] \in X \cup {Null}
             good == {k \in 0 .. NumObjects :
                        /\ W[k] \subseteq Originals /\ FromRoots(v) \subseteq W[k]
                        /\ IsFiniteSet(W[k])
                        /\ Closed(W[k]) \/ Cardinality(W[k]) > k}
  <1>4. IsFiniteSet(Originals) /\ Cardinality(Originals) = NumObjects
    <2>1. 1 \in Int /\ NumObjects \in Int /\ NumObjects - 1 + 1 = NumObjects /\ (1 > NumObjects => NumObjects = 0)
      BY <1>2, SMTT(30)
    <2> QED
      BY <2>1, FS_Interval DEF Originals
  <1>5. 0 \in good
    <2>1. W[0] = FromRoots(v) /\ W[0] \subseteq Originals
      BY <1>1 DEF Hopping, FromRoots
    <2>2. IsFiniteSet(W[0])
      BY <1>4, <2>1, FS_Subset
    <2>3. CASE W[0] = {}
      BY <1>2, <2>1, <2>2, <2>3
    <2>4. CASE W[0] # {}
      <3>1. Cardinality(W[0]) \in Nat /\ Cardinality(W[0]) # 0
        BY <2>2, <2>4, FS_CardinalityType, FS_EmptySet
      <3>2. Cardinality(W[0]) > 0
        BY <3>1, SMTT(30)
      <3> QED
        BY <1>2, <2>1, <2>2, <3>2
    <2> QED
      BY <2>3, <2>4
  <1>6. ASSUME NEW k \in 1 .. NumObjects, k - 1 \in good PROVE k \in good
    <2> DEFINE X == W[k - 1]
    <2>1. /\ X \subseteq Originals /\ FromRoots(v) \subseteq X /\ IsFiniteSet(X)
          /\ Closed(X) \/ Cardinality(X) > k - 1
          /\ k \in 0 .. NumObjects
      BY <1>2, <1>6
    <2>2. W[k] = OneHop(v, X)
      BY <1>1, <1>6 DEF Hopping
    <2> HIDE DEF X
    <2>3. W[k] \subseteq Originals /\ FromRoots(v) \subseteq W[k] /\ X \subseteq W[k]
      BY <2>1, <2>2 DEF OneHop
    <2>4. IsFiniteSet(W[k])
      BY <1>4, <2>3, FS_Subset
    <2>5. CASE Closed(X)
      <3>1. W[k] = X
        BY <2>2, <2>5 DEF OneHop
      <3> QED
        BY <1>2, <2>1, <2>5, <3>1
    <2>6. CASE ~Closed(X)
      <3>1. W[k] # X
        BY <2>2, <2>6 DEF OneHop
      <3>2. Cardinality(X) < Cardinality(W[k]) /\ Cardinality(X) \in Nat /\ Cardinality(W[k]) \in Nat
        <4>1. Cardinality(X) # Cardinality(W[k]) /\ Cardinality(X) <= Cardinality(W[k])
          BY <2>3, <2>4, <3>1, FS_Subset
        <4> QED
          BY <2>1, <2>4, <4>1, FS_CardinalityType, SMTT(30)
      <3>3. Cardinality(X) > k - 1
        BY <2>1, <2>6
      <3>4. Cardinality(W[k]) > k
        BY <3>2, <3>3, SMTT(30)
      <3> QED
        BY <1>2, <2>3, <2>4, <3>4
    <2> QED
      BY <2>5, <2>6
  <1>7. \A k \in 0 .. NumObjects : k \in good
    <2> HIDE DEF good
    <2> QED
      BY <1>2, <1>5, <1>6, UpTo
  <1>8. ~(Cardinality(W[NumObjects]) > NumObjects)
    <2>1. Cardinality(W[NumObjects]) <= Cardinality(Originals) /\ IsFiniteSet(W[NumObjects])
      BY <1>1, <1>3, <1>4, FS_Subset
    <2>2. Cardinality(W[NumObjects]) \in Nat
      BY <2>1, FS_CardinalityType
    <2> QED
      BY <1>2, <1>4, <2>1, <2>2, SMTT(30)
  <1> QED
    BY <1>1, <1>2, <1>3, <1>7, <1>8
-----------------------------------------------------------------------------
(***************************************************************************)
(* What every step of the closure keeps.                                   *)
(***************************************************************************)
\* A step of the closure: objects stay where they are, survivors survive, and
\* a slot changes only to be done.
Grows ==
  /\ phase = "closure" /\ UNCHANGED <<phase, hi, markState>> /\ initial'.slots = initial.slots
  /\ \A a \in Used : layout'[a] = layout[a] /\ initial'.origin[a] = initial.origin[a]
  /\ \A a \in Addresses : Survives(a) => Survives(a)'
  /\ \A s \in RootSlots \cup Used : slotValue'[s] = slotValue[s] \/ Settled(s)'

\* The slots of survivors are slots of objects, and no root slot.
LEMMA LiveSlotsAreUsed ==
    /\ Used \subseteq Addresses /\ LiveSlots \subseteq RootSlots \cup Used
    /\ \A a \in Addresses : Survives(a) => a \in Used /\ a \in LiveSlots
    /\ \A a \in Addresses : a \notin RootSlots /\ a # Null
    /\ \A s \in RootSlots : s \notin Addresses
    /\ Originals \subseteq Addresses
  <1>1. \A a \in Addresses : a \notin RootSlots /\ a # Null
    BY TracingAssumption, SMTT(30) DEF Addresses, RootSlots, Null
  <1>2. Originals \subseteq Addresses
    BY TracingAssumption, SMTT(30) DEF Originals, Addresses
  <1> QED
    BY <1>1, <1>2 DEF Used, LiveSlots, Survives

\* What a slot was, and that it is done, stays.
LEMMA StaysAlong ==
    ASSUME Closing, Grows
    PROVE  /\ \A a \in Used : a \in Used'
           /\ \A s \in LiveSlots : s \in LiveSlots'
           /\ \A s \in RootSlots \cup Used : Was(s)' = Was(s)
           /\ \A s \in RootSlots \cup Used : Settled(s) => Settled(s)'
  <1>1. \A a \in Used : a \in Used'
    BY DEF Grows, Used
  <1>2. \A s \in LiveSlots : s \in LiveSlots'
    BY DEF Grows, LiveSlots
  <1>3. ASSUME NEW s \in RootSlots \cup Used PROVE Was(s)' = Was(s)
    <2>1. s \notin RootSlots => s \in Used
      OBVIOUS
    <2> QED
      BY <2>1 DEF Grows, Was
  <1>4. ASSUME NEW s \in RootSlots \cup Used, Settled(s) PROVE Settled(s)'
    <2>1. slotValue[s] \in Used \cup {Null}
      BY DEF Closing, HeapClosing, SlotKeeps
    <2>2. slotValue[s] # Null => Survives(slotValue[s]) /\ slotValue[s] \in Addresses
      BY <1>4, <2>1, LiveSlotsAreUsed DEF Settled
    <2>3. CASE slotValue'[s] = slotValue[s]
      <3>1. CASE slotValue[s] = Null
        BY <2>3, <3>1 DEF Settled
      <3>2. CASE slotValue[s] # Null
        <4>1. PICK a \in Addresses : a = slotValue[s] /\ Survives(a)
          BY <2>2, <3>2
        <4>2. Survives(a)'
          BY <4>1 DEF Grows
        <4>3. slotValue'[s] = a
          BY <2>3, <4>1
        <4> QED
          BY <4>2, <4>3 DEF Settled, Survives
      <3> QED
        BY <3>1, <3>2
    <2> QED
      BY <2>3 DEF Grows
  <1> QED
    BY <1>1, <1>2, <1>3, <1>4

\* A worker that takes no step is still at the object of its slot.
LEMMA OthersKeep ==
    ASSUME TraceInv, Closing, Grows, NEW v \in TraceWorkers, tracer'[v] = tracer[v],
           tracer[v].pc = "copy" => marks'[tracer[v].obj].bit = marks[tracer[v].obj].bit,
           \A a \in Used : marks'[a] = marks[a] \/ marks'[a].bit = 1,
           \A a \in Addresses : fwd'[a].bits = 0 => fwd[a].bits = 0 \/ Survives(a)'
    PROVE  AtObject(tracer[v])'
  <1>1. CASE tracer[v].pc \in {"idle", "slot"}
    BY <1>1 DEF AtObject
  <1>2. CASE tracer[v].pc \notin {"idle", "slot"}
    <2>1. PICK t : t = tracer[v]
      OBVIOUS
    <2>2. PICK o : o = t.obj
      OBVIOUS
    <2>3. PICK s : s = t.slots[t.i]
      OBVIOUS
    <2>4. AtObject(t) /\ t.pc \notin {"idle", "slot"} /\ tracer'[v] = t
      BY <1>2, <2>1 DEF Closing
    <2>5. o \in Addresses /\ layout[o] # "unused" /\ o \in Used
      BY <1>2, <2>1, <2>2, <2>4, WorkerOK DEF Busy, AtObject, Used
    <2>6. s \in RootSlots \cup Used
      <3>1. t.i \in 1 .. Len(t.slots)
        BY <1>2, <2>1, WorkerOK
      <3>2. HeldBy(t, s)
        BY <2>3, <3>1 DEF HeldBy, In
      <3> QED
        BY <2>1, <3>2, LiveSlotsAreUsed DEF Closing
    <2>7. /\ layout'[o] = layout[o] /\ initial'.origin[o] = initial.origin[o] /\ Was(s)' = Was(s)
          /\ Settled(s) => Settled(s)'
          /\ Survives(o) => Survives(o)'
          /\ slotValue'[s] = slotValue[s] \/ Settled(s)'
          /\ marks'[o] = marks[o] \/ marks'[o].bit = 1
          /\ fwd'[o].bits = 0 => fwd[o].bits = 0 \/ Survives(o)'
      BY <2>5, <2>6, StaysAlong DEF Grows
    <2>8. t.pc = "store" => Survives(t.new)' /\ initial'.origin[t.new] = initial.origin[t.new]
      <3>1. t.pc = "store" => t.new \in Addresses /\ Survives(t.new)
        BY <2>1, <2>4, WorkerOK DEF Busy, AtObject
      <3>2. \A a \in Addresses : Survives(a) => Survives(a)' /\ initial'.origin[a] = initial.origin[a]
        BY LiveSlotsAreUsed DEF Grows
      <3> QED
        BY <3>1, <3>2
    <2>9. marks[o].bit \in {0, 1}
      BY <2>5, TypesNow DEF Marks
    <2>10. t.pc = "copy" => marks'[o].bit = marks[o].bit
      BY <2>1, <2>2
    <2>11. /\ layout'[o] # "unused" /\ initial'.origin[o] = Was(s)'
           /\ slotValue'[s] = o \/ Settled(s)'
           /\ t.pc \in {"status", "cas", "spin"} \cup Ending => layout'[o] \in {"copyspace0", "defrag"}
           /\ t.pc \in {"clear", "pin"} => layout'[o] = "defrag"
           /\ t.pc = "mark" => layout'[o] \in {"block", "immortal"}
           /\ t.pc \in {"nursery", "los", "treadmill"} => layout'[o] = "los"
      BY <2>2, <2>3, <2>4, <2>5, <2>7 DEF AtObject
    <2>15. t.pc = "copy" => (Survives(o)' <=> Survives(o))
      BY <2>7, <2>10 DEF Survives
    <2>12. /\ t.pc \in {"clear", "treadmill"} => marks'[o].bit = 1
           /\ t.pc = "copy" => ~Survives(o)'
           /\ t.pc = "spin" => fwd'[o].bits # FORWARDING_NOT_TRIGGERED_YET \/ Survives(o)'
           /\ t.pc = "store" => Survives(t.new)' /\ initial'.origin[t.new] = initial'.origin[o]
      BY <2>2, <2>4, <2>7, <2>8, <2>15 DEF AtObject, FORWARDING_NOT_TRIGGERED_YET
    <2>13. t.pc = "los" /\ marks'[o].bit = 0 => t.young = marks'[o].nursery
      BY <2>2, <2>4, <2>7, Bits DEF AtObject
    <2>14. AtObject(t)'
      BY <2>2, <2>3, <2>11, <2>12, <2>13 DEF AtObject
    <2> QED
      BY <2>4, <2>14
  <1> QED
    BY <1>1, <1>2

\* Slots that wait go on waiting unless a worker is done with them.
LEMMA RememberedKeep ==
    ASSUME Closing, Grows, NEW w \in TraceWorkers, NEW t, tracer'[w] = t,
           \A v \in TraceWorkers \ {w} : tracer'[v] = tracer[v],
           \A s \in LiveSlots : InPackets(s) => InPackets(s)' \/ InHand(t, s),
           \A s \in LiveSlots : InHand(tracer[w], s) \/ Enqueues(tracer[w], s) =>
              Settled(s)' \/ InPackets(s)' \/ InHand(t, s) \/ Enqueues(t, s),
           \A s \in LiveSlots' : s \notin LiveSlots =>
              Settled(s)' \/ InPackets(s)' \/ InHand(t, s) \/ Enqueues(t, s)
    PROVE  \A s \in LiveSlots' : Remembered(s)'
  <1> SUFFICES ASSUME NEW s \in LiveSlots' PROVE Remembered(s)'
    OBVIOUS
  <1>1. CASE Settled(s)' \/ InPackets(s)' \/ InHand(t, s) \/ Enqueues(t, s)
    BY <1>1 DEF Remembered
  <1>2. CASE ~(Settled(s)' \/ InPackets(s)' \/ InHand(t, s) \/ Enqueues(t, s))
    <2>1. s \in LiveSlots /\ Remembered(s)
      BY <1>2 DEF Closing
    <2>2. ~Settled(s) /\ ~InPackets(s)
      BY <1>2, <2>1, StaysAlong, LiveSlotsAreUsed
    <2>3. PICK v \in TraceWorkers : InHand(tracer[v], s) \/ Enqueues(tracer[v], s)
      BY <2>1, <2>2 DEF Remembered
    <2>4. v # w
      BY <1>2, <2>1, <2>3
    <2>5. InHand(tracer'[v], s) \/ Enqueues(tracer'[v], s)
      BY <2>3, <2>4
    <2> QED
      BY <2>5 DEF Remembered
  <1> QED
    BY <1>1, <1>2

\* A step that copies nothing and stores nothing keeps the heap; it may mark
\* reachable objects that have no copy.
LEMMA HeapKeeps ==
    ASSUME TraceInv, Closing, phase = "closure", UNCHANGED Heap, UNCHANGED slotValue,
           \A a \in Addresses : \/ marks'[a] = marks[a]
                                \/ /\ marks'[a].bit = 1 /\ \A b \in Copies : initial.origin[b] # a
                                   /\ initial.origin[a] \in Reached(initial.slots)
    PROVE  Grows /\ HeapClosing' /\ Used' = Used
  <1>1. UNCHANGED <<phase, hi, layout, initial, markState, slotValue>>
    BY DEF Heap
  <1>2. \A a \in Addresses : Survives(a) => Survives(a)'
    BY <1>1 DEF Survives
  <1>3. Used' = Used /\ Copies' = Copies
    BY <1>1 DEF Used, Copies
  <1>4. Grows
    BY <1>1, <1>2 DEF Grows
  <1>5. Twins'
    <2>1. ASSUME NEW a \in Copies PROVE /\ Survives(a)' /\ ~Survives(initial.origin[a])'
                                        /\ layout[initial.origin[a]] \in {"copyspace0", "defrag"}
      <3>1. /\ a \in Addresses /\ Survives(a) /\ ~Survives(initial.origin[a])
            /\ layout[initial.origin[a]] \in {"copyspace0", "defrag"}
        BY <2>1 DEF Copies, Closing, HeapClosing, Twins
      <3>2. initial.origin[a] \in Addresses
        BY <3>1 DEF TraceInv, TraceTypes
      <3>3. marks'[initial.origin[a]] = marks[initial.origin[a]]
        BY <2>1, <3>2
      <3>4. ~Survives(initial.origin[a])'
        BY <1>1, <3>1, <3>3 DEF Survives
      <3> QED
        BY <1>2, <3>1, <3>4
    <2>2. \A o \in Originals : initial.origin[o] = o
      BY DEF Closing, HeapClosing, Twins
    <2> QED
      BY <1>1, <1>3, <2>1, <2>2 DEF Twins
  <1>6. \A s \in RootSlots \cup Used' : SlotKeeps(s)'
    <2>1. \A s \in RootSlots \cup Used : SlotKeeps(s)
      BY DEF Closing, HeapClosing
    <2> QED
      BY <1>1, <1>3, <2>1 DEF SlotKeeps, Origin, Was
  <1>7. \A a \in Addresses : Survives(a)' => initial'.origin[a] \in Reached(initial'.slots)
    <2> SUFFICES ASSUME NEW a \in Addresses, Survives(a)'
                 PROVE  initial.origin[a] \in Reached(initial.slots)
      BY <1>1
    <2>1. CASE marks'[a] = marks[a]
      <3>1. Survives(a)
        BY <1>1, <2>1 DEF Survives
      <3> QED
        BY <3>1 DEF Closing, HeapClosing
    <2>2. CASE marks'[a] # marks[a]
      BY <2>2
    <2> QED
      BY <2>1, <2>2
  <1>8. /\ hi' = TRUE /\ markState' = 1
        /\ \A s \in RootSlots \cup Originals : initial'.slots[s] \in Originals \cup {Null}
        /\ \A a \in Addresses : layout'[a] # "free"
    BY <1>1 DEF Closing, HeapClosing
  <1> QED
    BY <1>3, <1>4, <1>5, <1>6, <1>7, <1>8 DEF HeapClosing

\* A large object that a step does not concern stays where it is.
LEMMA OneKeeps ==
    ASSUME NEW o \in Originals, OnTreadmill(o), layout'[o] = layout[o],
           layout[o] = "los" => marks'[o] = marks[o], \A y : InSet(o, y)' <=> InSet(o, y),
           o \in treadmill'.to <=> o \in treadmill.to,
           o \in treadmill'.from <=> o \in treadmill.from,
           o \in treadmill'.collectNursery <=> o \in treadmill.collectNursery,
           \A v \in TraceWorkers : /\ AtTreadmill(v, o)' <=> AtTreadmill(v, o)
                                   /\ AtTreadmill(v, o) => tracer'[v].young = tracer[v].young
    PROVE  OnTreadmill(o)'
  <1>1. CASE layout[o] # "los"
    BY <1>1 DEF OnTreadmill
  <1>2. CASE layout[o] = "los" /\ \E v \in TraceWorkers : AtTreadmill(v, o)
    <2>1. marks[o].bit = 1
      BY <1>2 DEF OnTreadmill
    <2>2. PICK v \in TraceWorkers : /\ AtTreadmill(v, o) /\ InSet(o, tracer[v].young)
                                    /\ \A u \in TraceWorkers : AtTreadmill(u, o) => u = v
      BY <1>2 DEF OnTreadmill
    <2>3. InSet(o, tracer[v].young)'
      BY <2>2 DEF InSet
    <2> QED
      BY <1>2, <2>1, <2>2, <2>3 DEF OnTreadmill
  <1>3. CASE layout[o] = "los" /\ ~\E v \in TraceWorkers : AtTreadmill(v, o)
    <2>1. \/ marks[o].bit = 0 /\ InSet(o, marks[o].nursery)
          \/ /\ marks[o].bit = 1 /\ o \in treadmill.to
             /\ o \notin treadmill.from \cup treadmill.collectNursery
      BY <1>3 DEF OnTreadmill
    <2>2. InSet(o, marks[o].nursery) => InSet(o, marks[o].nursery)'
      BY <1>3 DEF InSet
    <2> QED
      BY <1>3, <2>1, <2>2 DEF OnTreadmill
  <1> QED
    BY <1>1, <1>2, <1>3

\* The treadmill is left alone by steps that mark no large object.
LEMMA TreadmillKeeps ==
    ASSUME Closing, NEW w \in TraceWorkers, NEW t, tracer'[w] = t,
           \A v \in TraceWorkers \ {w} : tracer'[v] = tracer[v],
           tracer[w].pc # "treadmill", t.pc # "treadmill", treadmill' = treadmill,
           \A o \in Originals : layout'[o] = layout[o] /\ (layout[o] = "los" => marks'[o] = marks[o])
    PROVE  \A o \in Originals : OnTreadmill(o)'
  <1> SUFFICES ASSUME NEW o \in Originals PROVE OnTreadmill(o)'
    OBVIOUS
  <1>1. OnTreadmill(o)
    BY DEF Closing
  <1>2. \A v \in TraceWorkers : /\ AtTreadmill(v, o)' <=> AtTreadmill(v, o)
                                /\ AtTreadmill(v, o) => tracer'[v].young = tracer[v].young
    BY DEF AtTreadmill
  <1>3. \A y : InSet(o, y)' <=> InSet(o, y)
    BY DEF InSet
  <1> QED
    BY <1>1, <1>2, <1>3, OneKeeps

\* A worker that goes on to its next slot drops the one it was at only
\* (process_slots).
LEMMA NextSlot ==
    ASSUME NEW t \in Tracers, t.i \in 1 .. Len(t.slots), t.pc # "idle", NEW s
    PROVE  /\ InHand(t, s) /\ s # t.slots[t.i] => InHand(process_slots(t), s)
           /\ In(s, t.next) => InHand(process_slots(t), s)
           /\ HeldBy(process_slots(t), s) => HeldBy(t, s)
  <1> DEFINE n == Len(t.slots)
             After == \E j \in t.i .. n : j # t.i /\ t.slots[j] = s
  <1>1. t.i \in Nat /\ t.slots \in Seq(Slots) /\ t.next \in Seq(Slots) /\ n \in Nat
    BY SMT DEF Tracers
  <1>2. InHand(t, s) /\ s # t.slots[t.i] => After \/ In(s, t.next)
    BY DEF InHand
  <1> HIDE DEF n
  <1>3. CASE t.i < n
    <2>1. PICK u : u = [t EXCEPT !.pc = "slot", !.i = @ + 1]
      OBVIOUS
    <2>2. u = process_slots(t) /\ u.pc = "slot" /\ u.i = t.i + 1 /\ u.slots = t.slots /\ u.next = t.next
      BY <1>3, <2>1 DEF process_slots, n, Tracers
    <2>3. \A j \in t.i .. n : j # t.i => j \in t.i + 1 .. n
      BY <1>1, SMTT(30)
    <2>4. After \/ In(s, t.next) => InHand(u, s)
      BY <2>2, <2>3 DEF InHand, n
    <2>5. HeldBy(u, s) => HeldBy(t, s)
      BY <2>2 DEF HeldBy
    <2> QED
      BY <1>2, <2>2, <2>4, <2>5
  <1>4. CASE ~(t.i < n) /\ t.pass = 1
    <2>1. PICK u : u = [t EXCEPT !.pc = "slot", !.i = 1, !.pass = 2]
      OBVIOUS
    <2>2. u = process_slots(t) /\ u.pc = "slot" /\ u.i = 1 /\ u.slots = t.slots /\ u.next = t.next
      BY <1>4, <2>1 DEF process_slots, n, Tracers
    <2>3. \A j \in t.i .. n : j \in 1 .. n
      BY <1>1, SMTT(30) DEF n
    <2>4. After \/ In(s, t.next) => InHand(u, s)
      BY <2>2, <2>3 DEF InHand, n
    <2>5. HeldBy(u, s) => HeldBy(t, s)
      BY <2>2 DEF HeldBy
    <2> QED
      BY <1>2, <2>2, <2>4, <2>5
  <1>5. CASE ~(t.i < n) /\ t.pass # 1
    <2>1. ~After
      BY <1>1, <1>5, SMTT(30)
    <2>2. CASE t.next # <<>>
      <3>1. PICK u : u = [Resting EXCEPT !.pc = "slot", !.slots = t.next, !.pass = 2]
        OBVIOUS
      <3>2. u = process_slots(t) /\ u.pc = "slot" /\ u.i = 1 /\ u.slots = t.next /\ u.next = <<>>
        BY <1>5, <2>2, <3>1 DEF process_slots, n, Resting
      <3>3. In(s, t.next) => InHand(u, s)
        BY <3>2 DEF InHand, In
      <3>4. HeldBy(u, s) => HeldBy(t, s)
        <4>1. ~In(s, <<>>)
          BY SMTT(30) DEF In
        <4> QED
          BY <3>2, <4>1 DEF HeldBy
      <3> QED
        BY <1>2, <2>1, <3>2, <3>3, <3>4
    <2>3. CASE t.next = <<>>
      <3>1. Resting = process_slots(t) /\ Resting.slots = <<>> /\ Resting.next = <<>>
        BY <1>5, <2>3 DEF process_slots, n, Resting
      <3>2. ~In(s, <<>>)
        BY SMTT(30) DEF In
      <3> QED
        BY <1>2, <2>1, <2>3, <3>1, <3>2 DEF HeldBy
    <2> QED
      BY <2>2, <2>3
  <1> QED
    BY <1>3, <1>4, <1>5

\* An object that is enqueued waits, and so does what waited in next (enqueue).
LEMMA EnqueuedHolds ==
    ASSUME TraceInv, NEW w \in TraceWorkers, NEW a \in Addresses
    PROVE  LET e == Enqueued(w, a)
               n == tracer[w].next
           IN /\ packets \subseteq e.packets
              /\ slotValue[a] # Null => In(a, e.next) \/ \E p \in e.packets : In(a, p)
              /\ \A s : In(s, n) => In(s, e.next) \/ \E p \in e.packets : In(s, p)
              /\ \A s : In(s, e.next) => s = a \/ In(s, n)
              /\ \A p \in e.packets : \A s : In(s, p) => s = a \/ In(s, n) \/ p \in packets
  <1> DEFINE n == tracer[w].next
             q == Append(n, a)
  <1>1. n \in Seq(Slots) /\ a \in Slots
    BY WorkerOK DEF Slots
  <1>2. /\ \A s : In(s, n) => In(s, q)
        /\ \A s : In(s, q) => s = a \/ In(s, n)
        /\ In(a, q)
    <2>1. /\ Len(q) = Len(n) + 1 /\ Len(n) \in Nat /\ q[Len(n) + 1] = a
          /\ \A j \in 1 .. Len(n) : q[j] = n[j]
      BY <1>1, SMTT(30)
    <2>2. /\ Len(n) + 1 \in 1 .. Len(q) /\ \A j \in 1 .. Len(n) : j \in 1 .. Len(q)
          /\ \A j \in 1 .. Len(q) : j = Len(n) + 1 \/ j \in 1 .. Len(n)
      BY <2>1, SMTT(30)
    <2> HIDE DEF q, n
    <2> QED
      BY <2>1, <2>2 DEF In
  <1>3. \A s : ~In(s, <<>>)
    BY SMTT(30) DEF In
  <1>4. CASE slotValue[a] = Null
    <2>1. Enqueued(w, a).next = n /\ Enqueued(w, a).packets = packets
      BY <1>4 DEF Enqueued, Me
    <2> HIDE DEF n
    <2> QED
      BY <1>4, <2>1 DEF n
  <1>5. CASE slotValue[a] # Null /\ Len(q) >= BUFFER_SIZE
    <2>1. Enqueued(w, a).next = <<>> /\ Enqueued(w, a).packets = packets \cup {q}
      BY <1>5 DEF Enqueued, Me
    <2> HIDE DEF q
    <2> QED
      BY <1>2, <1>3, <2>1
  <1>6. CASE slotValue[a] # Null /\ ~(Len(q) >= BUFFER_SIZE)
    <2>1. Enqueued(w, a).next = q /\ Enqueued(w, a).packets = packets
      BY <1>6 DEF Enqueued, Me
    <2> HIDE DEF q
    <2> QED
      BY <1>2, <2>1
  <1> QED
    BY <1>4, <1>5, <1>6

\* What a step of worker w has to show of itself.
LEMMA HandsStep ==
    ASSUME TraceInv, Closing, Grows, HeapClosing', NEW w \in TraceWorkers, NEW t,
           tracer'[w] = t, \A v \in TraceWorkers \ {w} : tracer'[v] = tracer[v],
           \A v \in TraceWorkers \ {w} :
              tracer[v].pc = "copy" => marks'[tracer[v].obj].bit = marks[tracer[v].obj].bit,
           \A a \in Used : marks'[a] = marks[a] \/ marks'[a].bit = 1,
           \A a \in Addresses : fwd'[a].bits = 0 => fwd[a].bits = 0 \/ Survives(a)',
           AtObject(t)',
           \A s : InPackets(s)' => s \in LiveSlots',
           \A s : HeldBy(t, s) => s \in LiveSlots',
           \A s \in LiveSlots : InPackets(s) => InPackets(s)' \/ InHand(t, s),
           \A s \in LiveSlots : InHand(tracer[w], s) \/ Enqueues(tracer[w], s) =>
              Settled(s)' \/ InPackets(s)' \/ InHand(t, s) \/ Enqueues(t, s),
           \A s \in LiveSlots' : s \notin LiveSlots =>
              Settled(s)' \/ InPackets(s)' \/ InHand(t, s) \/ Enqueues(t, s),
           \A o \in Originals : OnTreadmill(o)'
    PROVE  Closing'
  <1>1. \A v \in TraceWorkers \ {w} : AtObject(tracer[v])'
    BY OthersKeep
  <1>2. AtObject(tracer[w])'
    BY DEF AtObject
  <1>3. \A v \in TraceWorkers : \A s : HeldBy(tracer'[v], s) => s \in LiveSlots'
    <2>1. ASSUME NEW v \in TraceWorkers \ {w}, NEW s, HeldBy(tracer'[v], s) PROVE s \in LiveSlots'
      <3>1. s \in LiveSlots
        BY <2>1 DEF Closing
      <3> QED
        BY <3>1, StaysAlong
    <2> QED
      BY <2>1
  <1>4. \A s \in LiveSlots' : Remembered(s)'
    BY RememberedKeep
  <1> QED
    BY <1>1, <1>2, <1>3, <1>4 DEF Closing

\* A step that leaves slots and marks alone.
LEMMA PlainStep ==
    ASSUME TraceInv, Closing, phase = "closure", NEW w \in TraceWorkers, NEW t,
           tracer'[w] = t, \A v \in TraceWorkers \ {w} : tracer'[v] = tracer[v],
           UNCHANGED Heap, UNCHANGED <<slotValue, marks>>,
           \A a \in Addresses : fwd'[a].bits = 0 => fwd[a].bits = 0 \/ Survives(a),
           AtObject(t), t.pc \notin {"idle", "slot"} => t.obj \in Addresses,
           \A s : InPackets(s)' => s \in LiveSlots,
           \A s : HeldBy(t, s) => s \in LiveSlots,
           \A s \in LiveSlots : InPackets(s) => InPackets(s)' \/ InHand(t, s),
           \A s \in LiveSlots : InHand(tracer[w], s) \/ Enqueues(tracer[w], s) =>
              Settled(s) \/ InPackets(s)' \/ InHand(t, s) \/ Enqueues(t, s),
           \A o \in Originals : OnTreadmill(o)'
    PROVE  Closing'
  <1>1. UNCHANGED <<phase, hi, layout, initial, markState>>
    BY DEF Heap
  <1>2. Grows /\ HeapClosing'
    BY HeapKeeps
  <1>3. \A a : Survives(a)' <=> Survives(a)
    BY <1>1 DEF Survives
  <1>4. LiveSlots' = LiveSlots
    BY <1>3 DEF LiveSlots
  <1>5. \A s : Settled(s) => Settled(s)'
    BY <1>1 DEF Settled, Survives
  <1>6. AtObject(t)'
    <2>1. CASE t.pc \in {"idle", "slot"}
      BY <2>1 DEF AtObject
    <2>2. CASE t.pc \notin {"idle", "slot"}
      <3>1. PICK o : o = t.obj
        OBVIOUS
      <3>2. PICK s : s = t.slots[t.i]
        OBVIOUS
      <3>3. o \in Addresses
        BY <2>2, <3>1
      <3>4. Was(s)' = Was(s) /\ Survives(o)' = Survives(o) /\ Survives(t.new)' = Survives(t.new)
        BY <1>1 DEF Was, Survives
      <3>5. (Settled(s) => Settled(s)') /\ (fwd'[o].bits = 0 => fwd[o].bits = 0 \/ Survives(o)')
        BY <1>3, <1>5, <3>3
      <3> QED
        BY <1>1, <2>2, <3>1, <3>2, <3>4, <3>5 DEF AtObject, FORWARDING_NOT_TRIGGERED_YET
    <2> QED
      BY <2>1, <2>2
  <1>7. \A s \in LiveSlots : InHand(tracer[w], s) \/ Enqueues(tracer[w], s) =>
           Settled(s)' \/ InPackets(s)' \/ InHand(t, s) \/ Enqueues(t, s)
    BY <1>5
  <1>8. \A a \in Addresses : fwd'[a].bits = 0 => fwd[a].bits = 0 \/ Survives(a)'
    BY <1>3
  <1> QED
    BY <1>2, <1>4, <1>6, <1>7, <1>8, HandsStep

\* A step to another place with the same slots in hand.
LEMMA MoveStep ==
    ASSUME TraceInv, Closing, phase = "closure", NEW w \in TraceWorkers, NEW t,
           tracer' = [tracer EXCEPT ![w] = t],
           UNCHANGED Heap, UNCHANGED <<slotValue, marks, treadmill, packets>>,
           \A a \in Addresses : fwd'[a].bits = 0 => fwd[a].bits = 0 \/ Survives(a),
           tracer[w].pc \notin {"idle", "pin", "treadmill", "publish"},
           t.pc \notin {"idle", "slot", "treadmill"}, t.obj \in Addresses, AtObject(t),
           t.slots = tracer[w].slots, t.i = tracer[w].i, t.next = tracer[w].next
    PROVE  Closing'
  <1>1. tracer'[w] = t /\ \A v \in TraceWorkers \ {w} : tracer'[v] = tracer[v]
    BY DEF TraceInv, TraceTypes
  <1>2. \A o \in Originals : OnTreadmill(o)'
    BY <1>1, TreadmillKeeps DEF Heap
  <1>3. \A s : (InPackets(s)' <=> InPackets(s)) /\ (InPackets(s) => s \in LiveSlots)
    BY DEF InPackets, Closing
  <1>4. \A s : HeldBy(t, s) => s \in LiveSlots
    BY DEF HeldBy, Closing
  <1>5. \A s : InHand(tracer[w], s) \/ Enqueues(tracer[w], s) => InHand(t, s)
    BY DEF InHand, Enqueues
  <1> QED
    BY <1>1, <1>2, <1>3, <1>4, <1>5, PlainStep

\* A step that ends what a worker does for a slot: the slot is done.
LEMMA DoneStep ==
    ASSUME TraceInv, Closing, phase = "closure", NEW w \in TraceWorkers,
           tracer' = [tracer EXCEPT ![w] = process_slots(tracer[w])],
           UNCHANGED Heap, UNCHANGED <<slotValue, marks, treadmill, packets, fwd>>,
           tracer[w].pc \notin {"idle", "pin", "treadmill", "publish"}, Settled(Slot(w))
    PROVE  Closing'
  <1>1. PICK t : t = process_slots(tracer[w])
    OBVIOUS
  <1>2. tracer'[w] = t /\ \A v \in TraceWorkers \ {w} : tracer'[v] = tracer[v]
    BY <1>1 DEF TraceInv, TraceTypes
  <1>3. t.pc \in {"idle", "slot"}
    BY <1>1, WorkerOK
  <1>4. AtObject(t) /\ t.pc # "treadmill"
    BY <1>3 DEF AtObject
  <1>5. \A o \in Originals : OnTreadmill(o)'
    BY <1>2, <1>4, TreadmillKeeps DEF Heap
  <1>6. \A s : (InPackets(s)' <=> InPackets(s)) /\ (InPackets(s) => s \in LiveSlots)
    BY DEF InPackets, Closing
  <1>7. \A s : /\ HeldBy(t, s) => HeldBy(tracer[w], s)
               /\ InHand(tracer[w], s) /\ s # Slot(w) => InHand(t, s)
    BY <1>1, WorkerOK, NextSlot DEF Slot, Me
  <1>8. \A s : HeldBy(t, s) => s \in LiveSlots
    BY <1>7 DEF Closing
  <1>9. \A s : InHand(tracer[w], s) \/ Enqueues(tracer[w], s) => InHand(t, s) \/ Settled(s)
    BY <1>7 DEF Enqueues
  <1> QED
    BY <1>2, <1>3, <1>4, <1>5, <1>6, <1>8, <1>9, PlainStep
-----------------------------------------------------------------------------
(***************************************************************************)
(* The steps of the closure.                                               *)
(***************************************************************************)
\* In the closure the objects leave copyspace0 for copyspace1.
LEMMA ClosingFacts ==
    ASSUME Closing
    PROVE  /\ FromSpace = "copyspace0" /\ ToSpace = "copyspace1" /\ markState = 1
           /\ \A o \in Originals : initial.origin[o] = o
  BY DEF Closing, HeapClosing, Twins, FromSpace, ToSpace

\* The slot a worker is at, and the object it is at.
LEMMA AtWork ==
    ASSUME TraceInv, Closing, NEW w \in TraceWorkers, tracer[w].pc # "idle"
    PROVE  /\ Slot(w) \in LiveSlots /\ Slot(w) \in RootSlots \cup Used /\ SlotKeeps(Slot(w))
           /\ tracer[w].pc # "slot" =>
                /\ AtObject(tracer[w]) /\ tracer[w].obj \in Addresses /\ tracer[w].obj \in Used
                /\ initial.origin[tracer[w].obj] = Was(Slot(w))
                /\ slotValue[Slot(w)] = tracer[w].obj \/ Settled(Slot(w))
                /\ Survives(tracer[w].obj) => Settled(Slot(w))
  <1>1. HeldBy(tracer[w], Slot(w))
    BY WorkerOK DEF HeldBy, In, Slot, Me
  <1>2. Slot(w) \in LiveSlots /\ Slot(w) \in RootSlots \cup Used
    BY <1>1, LiveSlotsAreUsed DEF Closing
  <1>3. SlotKeeps(Slot(w))
    BY <1>2 DEF Closing, HeapClosing
  <1>4. ASSUME tracer[w].pc # "slot"
        PROVE  /\ AtObject(tracer[w]) /\ tracer[w].obj \in Addresses /\ tracer[w].obj \in Used
               /\ initial.origin[tracer[w].obj] = Was(Slot(w))
               /\ slotValue[Slot(w)] = tracer[w].obj \/ Settled(Slot(w))
    <2>1. AtObject(tracer[w]) /\ tracer[w].obj \in Addresses
      BY <1>4, WorkerOK DEF Closing, Busy
    <2>2. /\ layout[tracer[w].obj] # "unused" /\ initial.origin[tracer[w].obj] = Was(Slot(w))
          /\ slotValue[Slot(w)] = tracer[w].obj \/ Settled(Slot(w))
      BY <1>4, <2>1 DEF AtObject, Slot, Me
    <2> QED
      BY <2>1, <2>2 DEF Used
  <1>5. slotValue[Slot(w)] = tracer[w].obj /\ Survives(tracer[w].obj) => Settled(Slot(w))
    BY DEF Settled
  <1> QED
    BY <1>2, <1>3, <1>4, <1>5

\* What a worker is at was reachable when the pause started.
LEMMA AtReachable ==
    ASSUME TraceInv, Closing, NEW w \in TraceWorkers, tracer[w].pc \notin {"idle", "slot"}
    PROVE  initial.origin[tracer[w].obj] \in Reached(initial.slots)
  <1> DEFINE v == initial.slots
             s == Slot(w)
  <1>1. \A x \in RootSlots \cup Originals : v[x] \in Originals \cup {Null}
    BY DEF Closing, HeapClosing
  <1>2. s \in LiveSlots /\ initial.origin[tracer[w].obj] = Was(s) /\ tracer[w].obj \in Addresses
    BY AtWork
  <1>3. initial.origin[tracer[w].obj] # Null
    BY <1>2, LiveSlotsAreUsed DEF TraceInv, TraceTypes
  <1> HIDE DEF s
  <1>4. CASE s \in RootSlots
    <2>1. Was(s) = v[s] /\ FromRoots(v) \subseteq Reached(v)
      BY <1>1, <1>4, ReachedIsClosed DEF Was
    <2> QED
      BY <1>2, <1>3, <1>4, <2>1 DEF FromRoots
  <1>5. CASE s \notin RootSlots
    <2>1. s \in Addresses /\ Survives(s)
      BY <1>2, <1>5 DEF LiveSlots
    <2>2. initial.origin[s] \in Reached(v)
      BY <2>1 DEF Closing, HeapClosing
    <2>3. Was(s) = v[initial.origin[s]]
      BY <1>5 DEF Was
    <2> QED
      BY <1>1, <1>2, <1>3, <2>2, <2>3, ReachedIsClosed
  <1> QED
    BY <1>4, <1>5

\* A worker takes a packet (do_work).
LEMMA DoWorkCloses == ASSUME TraceInv, Closing, NEW w \in TraceWorkers, do_work(w) PROVE Closing'
  <1>1. PICK p \in packets :
           /\ packets' = packets \ {p}
           /\ tracer' = [tracer EXCEPT ![w] = [Resting EXCEPT !.pc = "slot", !.slots = p]]
    BY DEF do_work, Becomes
  <1>2. /\ tracer[w].pc = "idle" /\ phase = "closure" /\ UNCHANGED Heap
        /\ UNCHANGED <<slotValue, marks, treadmill>> /\ UNCHANGED fwd
    BY DEF do_work, At, Me
  <1>3. PICK t : t = [Resting EXCEPT !.pc = "slot", !.slots = p]
    OBVIOUS
  <1>4. t.pc = "slot" /\ t.i = 1 /\ t.slots = p /\ t.next = <<>>
    BY <1>3 DEF Resting
  <1>5. tracer'[w] = t /\ \A v \in TraceWorkers \ {w} : tracer'[v] = tracer[v]
    BY <1>1, <1>3 DEF TraceInv, TraceTypes
  <1>6. \A s : ~In(s, <<>>)
    BY SMTT(30) DEF In
  <1>7. \A s : /\ HeldBy(t, s) => InPackets(s)
               /\ InPackets(s)' => InPackets(s)
               /\ InPackets(s) => InPackets(s)' \/ InHand(t, s)
               /\ InPackets(s) => s \in LiveSlots
    <2>1. \A s : InPackets(s) => s \in LiveSlots
      BY DEF Closing
    <2>2. \A s : HeldBy(t, s) => In(s, p)
      BY <1>4, <1>6 DEF HeldBy
    <2>3. \A s : In(s, p) => InHand(t, s)
      BY <1>4 DEF InHand, In
    <2> QED
      BY <1>1, <2>1, <2>2, <2>3 DEF InPackets
  <1>8. \A s : ~InHand(tracer[w], s) /\ ~Enqueues(tracer[w], s)
    BY <1>2 DEF InHand, Enqueues
  <1>9. \A o \in Originals : OnTreadmill(o)'
    BY <1>2, <1>4, <1>5, TreadmillKeeps DEF Heap
  <1>10. AtObject(t)
    BY <1>4 DEF AtObject
  <1> QED
    BY <1>2, <1>4, <1>5, <1>7, <1>8, <1>9, <1>10, PlainStep

\* The dispatch on the space (process_slot).
LEMMA ProcessSlotCloses ==
    ASSUME TraceInv, Closing, NEW w \in TraceWorkers, process_slot(w) PROVE Closing'
  <1> DEFINE o == slotValue[Slot(w)]
             pc == CASE layout[o] \in {FromSpace, "defrag"} -> "status"
                     [] layout[o] = "los" -> "nursery"
                     [] OTHER -> "mark"
  <1>1. /\ tracer[w].pc = "slot" /\ phase = "closure" /\ UNCHANGED Heap
        /\ UNCHANGED <<slotValue, marks, treadmill, packets>> /\ UNCHANGED fwd
    BY DEF process_slot, At, Me
  <1>2. /\ Slot(w) \in RootSlots \cup Used /\ SlotKeeps(Slot(w))
        /\ tracer[w].pc \notin {"idle", "pin", "treadmill", "publish"}
    BY <1>1, AtWork
  <1>3. CASE o = Null \/ layout[o] = ToSpace
    <2>1. tracer' = [tracer EXCEPT ![w] = process_slots(tracer[w])]
      BY <1>3 DEF process_slot, Continue, Me
    <2>2. Settled(Slot(w))
      BY <1>3, ClosingFacts DEF Settled, Survives
    <2> QED
      BY <1>1, <1>2, <2>1, <2>2, DoneStep
  <1>4. CASE ~(o = Null \/ layout[o] = ToSpace)
    <2>1. PICK t : t = [tracer[w] EXCEPT !.pc = pc, !.obj = o]
      OBVIOUS
    <2>2. tracer' = [tracer EXCEPT ![w] = t]
      BY <1>4, <2>1 DEF process_slot, Becomes, Me
    <2>3. o \in Addresses /\ layout[o] # "unused" /\ initial.origin[o] = Was(Slot(w))
      BY <1>2, <1>4 DEF SlotKeeps, Used, Origin
    <2>4. layout[o] \in {"copyspace0", "defrag", "block", "los", "immortal"}
      BY <1>4, <2>3, ClosingFacts DEF TraceInv, TraceTypes, Spaces, Closing, HeapClosing
    <2>5. /\ pc \in {"status", "nursery", "mark"}
          /\ pc = "status" => layout[o] \in {"copyspace0", "defrag"}
          /\ pc = "nursery" => layout[o] = "los"
          /\ pc = "mark" => layout[o] \in {"block", "immortal"}
      BY <2>4, ClosingFacts
    <2> HIDE DEF pc
    <2>6. /\ t.pc = pc /\ t.obj = o /\ t.slots = tracer[w].slots /\ t.i = tracer[w].i
          /\ t.next = tracer[w].next
      BY <2>1, WorkerOK DEF Tracers
    <2>7. t.slots[t.i] = Slot(w)
      BY <2>6 DEF Slot, Me
    <2> HIDE DEF o
    <2>8. AtObject(t)
      BY <2>3, <2>5, <2>6, <2>7 DEF AtObject, Ending, o
    <2>9. t.pc \notin {"idle", "slot", "treadmill"} /\ t.obj \in Addresses
      BY <2>3, <2>5, <2>6
    <2> QED
      BY <1>1, <1>2, <2>2, <2>6, <2>8, <2>9, MoveStep
  <1> QED
    BY <1>3, <1>4

\* A worker that goes on with its object.
LEMMA StillAt ==
    ASSUME TraceInv, Closing, NEW w \in TraceWorkers, tracer[w].pc \notin {"idle", "slot"},
           NEW t, t.obj = tracer[w].obj, t.slots = tracer[w].slots, t.i = tracer[w].i,
           LET o == t.obj
           IN /\ t.pc \in {"status", "cas", "spin"} \cup Ending => layout[o] \in {"copyspace0", "defrag"}
              /\ t.pc \in {"clear", "pin"} => layout[o] = "defrag"
              /\ t.pc = "mark" => layout[o] \in {"block", "immortal"}
              /\ t.pc \in {"nursery", "los", "treadmill"} => layout[o] = "los"
              /\ t.pc \in {"clear", "treadmill"} => marks[o].bit = 1
              /\ t.pc = "copy" => ~Survives(o)
              /\ t.pc = "spin" => fwd[o].bits # FORWARDING_NOT_TRIGGERED_YET \/ Survives(o)
              /\ t.pc = "store" => Survives(t.new) /\ initial.origin[t.new] = initial.origin[o]
              /\ t.pc = "los" /\ marks[o].bit = 0 => t.young = marks[o].nursery
    PROVE  AtObject(t) /\ t.obj \in Addresses
  <1>1. /\ tracer[w].obj \in Addresses /\ initial.origin[tracer[w].obj] = Was(Slot(w))
        /\ slotValue[Slot(w)] = tracer[w].obj \/ Settled(Slot(w))
        /\ layout[tracer[w].obj] # "unused"
    BY AtWork DEF Used
  <1>2. t.slots[t.i] = Slot(w)
    BY DEF Slot, Me
  <1> QED
    BY <1>1, <1>2 DEF AtObject

\* Reading the forwarding status (get_forwarding_status).
LEMMA StatusCloses ==
    ASSUME TraceInv, Closing, NEW w \in TraceWorkers, get_forwarding_status(w) PROVE Closing'
  <1>1. /\ tracer[w].pc = "status" /\ phase = "closure" /\ UNCHANGED Heap
        /\ UNCHANGED <<slotValue, marks, treadmill, packets>> /\ UNCHANGED fwd
    BY DEF get_forwarding_status, At, Me
  <1>2. PICK x \in {"cas", "spin"} :
           /\ tracer' = [tracer EXCEPT ![w] = [tracer[w] EXCEPT !.pc = x]]
           /\ x = "spin" => fwd[tracer[w].obj].bits # FORWARDING_NOT_TRIGGERED_YET
    BY DEF get_forwarding_status, Becomes, Me
  <1>3. PICK t : t = [tracer[w] EXCEPT !.pc = x]
    OBVIOUS
  <1>10. /\ t.pc = x /\ t.obj = tracer[w].obj /\ t.slots = tracer[w].slots
         /\ t.i = tracer[w].i /\ t.next = tracer[w].next
    BY <1>3, WorkerOK DEF Tracers
  <1>4. layout[tracer[w].obj] \in {"copyspace0", "defrag"}
    BY <1>1, AtWork DEF AtObject
  <1>5. AtObject(t) /\ t.obj \in Addresses
    BY <1>1, <1>2, <1>3, <1>4, <1>10, StillAt DEF Ending
  <1>6. /\ tracer[w].pc \notin {"idle", "pin", "treadmill", "publish"}
        /\ t.pc \notin {"idle", "slot", "treadmill"}
        /\ t.slots = tracer[w].slots /\ t.i = tracer[w].i /\ t.next = tracer[w].next
    BY <1>1, <1>2, <1>3, <1>10
  <1> QED
    BY <1>1, <1>2, <1>3, <1>5, <1>6, MoveStep

\* The compare-and-exchange (attempt_to_forward).
LEMMA AttemptCloses ==
    ASSUME TraceInv, Closing, NEW w \in TraceWorkers, attempt_to_forward(w) PROVE Closing'
  <1>1. /\ tracer[w].pc = "cas" /\ phase = "closure" /\ UNCHANGED Heap
        /\ UNCHANGED <<slotValue, marks, treadmill, packets>>
    BY DEF attempt_to_forward, At, Me
  <1>2. PICK x \in {"won", "status"} :
           /\ tracer' = [tracer EXCEPT ![w] = [tracer[w] EXCEPT !.pc = x]]
           /\ fwd' = fwd \/ fwd' = [fwd EXCEPT ![tracer[w].obj].bits = BEING_FORWARDED]
    BY DEF attempt_to_forward, Becomes, Me
  <1>3. PICK t : t = [tracer[w] EXCEPT !.pc = x]
    OBVIOUS
  <1>10. /\ t.pc = x /\ t.obj = tracer[w].obj /\ t.slots = tracer[w].slots
         /\ t.i = tracer[w].i /\ t.next = tracer[w].next
    BY <1>3, WorkerOK DEF Tracers
  <1>4. layout[tracer[w].obj] \in {"copyspace0", "defrag"}
    BY <1>1, AtWork DEF AtObject
  <1>5. AtObject(t) /\ t.obj \in Addresses
    BY <1>1, <1>2, <1>3, <1>4, <1>10, StillAt DEF Ending
  <1>6. /\ tracer[w].pc \notin {"idle", "pin", "treadmill", "publish"}
        /\ t.pc \notin {"idle", "slot", "treadmill"}
        /\ t.slots = tracer[w].slots /\ t.i = tracer[w].i /\ t.next = tracer[w].next
    BY <1>1, <1>2, <1>3, <1>10
  <1>7. \A a \in Addresses : fwd'[a].bits = 0 => fwd[a].bits = 0
    <2>1. BEING_FORWARDED # 0 /\ fwd \in [Addresses -> [bits : {0, 2, 3}, pointer : Addresses \cup {Null}]]
      BY Bits DEF TraceInv, TraceTypes
    <2> QED
      BY <1>2, <2>1
  <1> QED
    BY <1>1, <1>2, <1>3, <1>5, <1>6, <1>7, MoveStep

\* A worker that waited stores the copy, or the object that was left in place
\* (spin_and_get_forwarded_object).
LEMMA SpinCloses ==
    ASSUME TraceInv, Closing, NEW w \in TraceWorkers, spin_and_get_forwarded_object(w) PROVE Closing'
  <1> DEFINE o == tracer[w].obj
             a == IF fwd[o].bits = FORWARDED THEN fwd[o].pointer ELSE o
  <1>1. /\ tracer[w].pc = "spin" /\ phase = "closure" /\ UNCHANGED Heap
        /\ UNCHANGED <<slotValue, marks, treadmill, packets>> /\ UNCHANGED fwd
        /\ fwd[o].bits # BEING_FORWARDED
        /\ tracer' = [tracer EXCEPT ![w] = [tracer[w] EXCEPT !.pc = "store", !.new = a]]
    BY DEF spin_and_get_forwarded_object, At, Me, Becomes
  <1>2. PICK t : t = [tracer[w] EXCEPT !.pc = "store", !.new = a]
    OBVIOUS
  <1>10. /\ t.pc = "store" /\ t.obj = tracer[w].obj /\ t.slots = tracer[w].slots
         /\ t.i = tracer[w].i /\ t.next = tracer[w].next /\ t.new = a
    BY <1>2, WorkerOK DEF Tracers
  <1>3. o \in Originals /\ o \in Addresses /\ initial.origin[o] = o
    BY <1>1, WorkerOK, ClosingFacts DEF Busy
  <1>4. Survives(a) /\ initial.origin[a] = initial.origin[o]
    <2>1. CASE fwd[o].bits = FORWARDED
      <3>1. IsCopyOf(a, o)
        BY <1>3, <2>1 DEF TraceInv, Forwarding
      <3> QED
        BY <1>3, <3>1 DEF IsCopyOf, Closing, HeapClosing, Twins
    <2>2. CASE fwd[o].bits # FORWARDED
      <3>1. fwd[o].bits \in {0, 2, 3}
        BY <1>3 DEF TraceInv, TraceTypes
      <3>2. fwd[o].bits = FORWARDING_NOT_TRIGGERED_YET
        BY <1>1, <2>2, <3>1, Bits
      <3>3. Survives(o)
        BY <1>1, <3>2, AtWork DEF AtObject
      <3> QED
        BY <2>2, <3>3
    <2> QED
      BY <2>1, <2>2
  <1> HIDE DEF a
  <1>5. AtObject(t) /\ t.obj \in Addresses
    BY <1>1, <1>2, <1>4, <1>10, StillAt DEF Ending
  <1>6. /\ tracer[w].pc \notin {"idle", "pin", "treadmill", "publish"}
        /\ t.pc \notin {"idle", "slot", "treadmill"}
        /\ t.slots = tracer[w].slots /\ t.i = tracer[w].i /\ t.next = tracer[w].next
    BY <1>1, <1>2, <1>10
  <1> QED
    BY <1>1, <1>2, <1>5, <1>6, MoveStep

\* The winner decides (trace_object of the copying and the Immix space).
LEMMA WinnerCloses ==
    ASSUME TraceInv, Closing, NEW w \in TraceWorkers,
           CopySpaceTrace(w) \/ trace_object_with_opportunistic_copy(w)
    PROVE  Closing'
  <1> DEFINE o == tracer[w].obj
  <1>1. /\ tracer[w].pc = "won" /\ phase = "closure" /\ UNCHANGED Heap
        /\ UNCHANGED <<slotValue, marks, treadmill, packets>> /\ UNCHANGED fwd
    BY DEF CopySpaceTrace, trace_object_with_opportunistic_copy, At, Me
  <1>2. PICK x \in {"clear", "pin", "copy"} :
           /\ tracer' = [tracer EXCEPT ![w] = [tracer[w] EXCEPT !.pc = x]]
           /\ x = "clear" => layout[o] = "defrag" /\ marks[o].bit = 1
           /\ x = "pin" => layout[o] = "defrag"
           /\ x = "copy" => layout[o] = "copyspace0" \/ (layout[o] = "defrag" /\ marks[o].bit # 1)
    BY ClosingFacts DEF CopySpaceTrace, trace_object_with_opportunistic_copy, Becomes, Me
  <1>3. PICK t : t = [tracer[w] EXCEPT !.pc = x]
    OBVIOUS
  <1>10. /\ t.pc = x /\ t.obj = tracer[w].obj /\ t.slots = tracer[w].slots
         /\ t.i = tracer[w].i /\ t.next = tracer[w].next
    BY <1>3, WorkerOK DEF Tracers
  <1>4. x = "copy" => ~Survives(o)
    BY <1>2 DEF Survives
  <1>5. AtObject(t) /\ t.obj \in Addresses
    BY <1>1, <1>2, <1>3, <1>4, <1>10, StillAt DEF Ending
  <1>6. /\ tracer[w].pc \notin {"idle", "pin", "treadmill", "publish"}
        /\ t.pc \notin {"idle", "slot", "treadmill"}
        /\ t.slots = tracer[w].slots /\ t.i = tracer[w].i /\ t.next = tracer[w].next
    BY <1>1, <1>2, <1>3, <1>10
  <1> QED
    BY <1>1, <1>2, <1>3, <1>5, <1>6, MoveStep

\* The winner found the object marked (clear_forwarding_bits).
LEMMA ClearCloses ==
    ASSUME TraceInv, Closing, NEW w \in TraceWorkers, clear_forwarding_bits(w) PROVE Closing'
  <1> DEFINE o == tracer[w].obj
  <1>1. /\ tracer[w].pc = "clear" /\ phase = "closure" /\ UNCHANGED Heap
        /\ UNCHANGED <<slotValue, marks, treadmill, packets>>
        /\ fwd' = [fwd EXCEPT ![o].bits = FORWARDING_NOT_TRIGGERED_YET]
        /\ tracer' = [tracer EXCEPT ![w] = [tracer[w] EXCEPT !.pc = "store", !.new = o]]
    BY DEF clear_forwarding_bits, At, Me, Becomes
  <1>2. PICK t : t = [tracer[w] EXCEPT !.pc = "store", !.new = o]
    OBVIOUS
  <1>10. /\ t.pc = "store" /\ t.obj = tracer[w].obj /\ t.slots = tracer[w].slots
         /\ t.i = tracer[w].i /\ t.next = tracer[w].next /\ t.new = o
    BY <1>2, WorkerOK DEF Tracers
  <1>3. o \in Addresses /\ layout[o] = "defrag" /\ marks[o].bit = 1
    BY <1>1, AtWork DEF AtObject
  <1>4. Survives(o)
    BY <1>3 DEF Survives
  <1>5. AtObject(t) /\ t.obj \in Addresses
    BY <1>1, <1>2, <1>4, <1>10, StillAt DEF Ending
  <1>6. /\ tracer[w].pc \notin {"idle", "pin", "treadmill", "publish"}
        /\ t.pc \notin {"idle", "slot", "treadmill"}
        /\ t.slots = tracer[w].slots /\ t.i = tracer[w].i /\ t.next = tracer[w].next
    BY <1>1, <1>2, <1>10
  <1>7. \A a \in Addresses : a # o => fwd'[a] = fwd[a]
    BY <1>1 DEF TraceInv, TraceTypes
  <1>8. \A a \in Addresses : fwd'[a].bits = 0 => fwd[a].bits = 0 \/ Survives(a)
    BY <1>4, <1>7
  <1> QED
    BY <1>1, <1>2, <1>5, <1>6, <1>8, MoveStep

\* Reading the nursery bit (is_in_nursery).
LEMMA NurseryCloses ==
    ASSUME TraceInv, Closing, NEW w \in TraceWorkers, is_in_nursery(w) PROVE Closing'
  <1> DEFINE o == tracer[w].obj
  <1>1. /\ tracer[w].pc = "nursery" /\ phase = "closure" /\ UNCHANGED Heap
        /\ UNCHANGED <<slotValue, marks, treadmill, packets>> /\ UNCHANGED fwd
        /\ tracer' = [tracer EXCEPT ![w] = [tracer[w] EXCEPT !.pc = "los", !.young = marks[o].nursery]]
    BY DEF is_in_nursery, At, Me, Becomes
  <1>2. PICK t : t = [tracer[w] EXCEPT !.pc = "los", !.young = marks[o].nursery]
    OBVIOUS
  <1>3. /\ t.pc = "los" /\ t.young = marks[o].nursery /\ t.obj = o /\ t.slots = tracer[w].slots
        /\ t.i = tracer[w].i /\ t.next = tracer[w].next
    BY <1>2, WorkerOK DEF Tracers
  <1>4. layout[o] = "los"
    BY <1>1, AtWork DEF AtObject
  <1>5. AtObject(t) /\ t.obj \in Addresses
    BY <1>1, <1>3, <1>4, StillAt DEF Ending
  <1>6. /\ tracer[w].pc \notin {"idle", "pin", "treadmill", "publish"}
        /\ t.pc \notin {"idle", "slot", "treadmill"}
    BY <1>1, <1>3
  <1> QED
    BY <1>1, <1>2, <1>3, <1>5, <1>6, MoveStep

\* The winner ends the forwarding of an object that survives and enqueues it.
LEMMA EnqueueCloses ==
    ASSUME TraceInv, Closing, phase = "closure", NEW w \in TraceWorkers, NEW t, NEW a \in Addresses,
           tracer' = [tracer EXCEPT ![w] = t], UNCHANGED Heap,
           UNCHANGED <<slotValue, marks, treadmill>>,
           \A b \in Addresses : fwd'[b].bits = 0 => fwd[b].bits = 0 \/ Survives(b),
           tracer[w].pc \in {"pin", "publish"}, t.pc = "store", Survives(a),
           \A s : Enqueues(tracer[w], s) => s = a,
           t.obj = tracer[w].obj, t.new = a, initial.origin[a] = initial.origin[tracer[w].obj],
           t.slots = tracer[w].slots, t.i = tracer[w].i,
           t.next = Enqueued(w, a).next, packets' = Enqueued(w, a).packets
    PROVE  Closing'
  <1>1. tracer'[w] = t /\ \A v \in TraceWorkers \ {w} : tracer'[v] = tracer[v]
    BY DEF TraceInv, TraceTypes
  <1>2. tracer[w].pc \notin {"idle", "slot"} /\ tracer[w].pc # "treadmill" /\ t.pc # "treadmill"
    OBVIOUS
  <1>3. AtObject(t) /\ t.obj \in Addresses
    BY <1>2, StillAt DEF Ending
  <1>4. \A o \in Originals : OnTreadmill(o)'
    BY <1>1, <1>2, TreadmillKeeps DEF Heap
  <1>5. a \in LiveSlots /\ \A s : HeldBy(tracer[w], s) \/ InPackets(s) => s \in LiveSlots
    BY DEF LiveSlots, Closing
  <1>6. \A s : InPackets(s)' => s \in LiveSlots
    <2>1. \A p \in packets' : \A s : In(s, p) => s = a \/ In(s, tracer[w].next) \/ p \in packets
      BY EnqueuedHolds
    <2> QED
      BY <1>5, <2>1 DEF InPackets, HeldBy
  <1>7. \A s : HeldBy(t, s) => s \in LiveSlots
    BY <1>5, EnqueuedHolds DEF HeldBy
  <1>8. \A s : InPackets(s) => InPackets(s)'
    BY EnqueuedHolds DEF InPackets
  <1>9. \A s : In(s, tracer[w].next) => InHand(t, s) \/ InPackets(s)'
    BY EnqueuedHolds DEF InPackets, InHand
  <1>10. slotValue[a] # Null => InHand(t, a) \/ InPackets(a)'
    BY EnqueuedHolds DEF InPackets, InHand
  <1>11. \A s : InHand(tracer[w], s) \/ Enqueues(tracer[w], s) =>
            Settled(s) \/ InHand(t, s) \/ InPackets(s)'
    <2>1. \A s : InHand(tracer[w], s) => In(s, tracer[w].next) \/ InHand(t, s)
      BY DEF InHand
    <2>2. slotValue[a] = Null => Settled(a)
      BY DEF Settled
    <2> QED
      BY <1>9, <1>10, <2>1, <2>2
  <1> QED
    BY <1>1, <1>3, <1>4, <1>6, <1>7, <1>8, <1>11, PlainStep

\* Publishing the copy (the forwarding bits of forward_object, then enqueue).
LEMMA PublishCloses == ASSUME TraceInv, Closing, NEW w \in TraceWorkers, publish(w) PROVE Closing'
  <1> DEFINE o == tracer[w].obj
             n == tracer[w].new
  <1>1. PICK t : t = [[tracer[w] EXCEPT !.pc = "store"] EXCEPT !.next = Enqueued(w, n).next]
    OBVIOUS
  <1>2. /\ tracer[w].pc = "publish" /\ phase = "closure" /\ UNCHANGED Heap
        /\ UNCHANGED <<slotValue, marks, treadmill>>
        /\ fwd' = [fwd EXCEPT ![o].bits = FORWARDED]
        /\ packets' = Enqueued(w, n).packets /\ tracer' = [tracer EXCEPT ![w] = t]
    BY <1>1 DEF publish, At, Me, Becomes, enqueue
  <1>3. o \in Originals /\ initial.origin[o] = o
    BY <1>2, WorkerOK, ClosingFacts DEF Busy, Ending
  <1>4. n \in Addresses /\ initial.origin[n] = o /\ Survives(n)
    BY <1>2 DEF TraceInv, Forwarding, IsCopyOf, Copies, Closing, HeapClosing, Twins
  <1>5. /\ t.pc = "store" /\ t.obj = o /\ t.slots = tracer[w].slots /\ t.i = tracer[w].i
        /\ t.new = n /\ t.next = Enqueued(w, n).next
    BY <1>1, WorkerOK DEF Tracers
  <1>6. \A b \in Addresses : fwd'[b].bits = 0 => fwd[b].bits = 0
    <2>1. FORWARDED # 0 /\ fwd \in [Addresses -> [bits : {0, 2, 3}, pointer : Addresses \cup {Null}]]
      BY Bits DEF TraceInv, TraceTypes
    <2> QED
      BY <1>2, <2>1
  <1>7. tracer[w].pc \in {"pin", "publish"} /\ \A s : Enqueues(tracer[w], s) => s = n
    BY <1>2 DEF Enqueues
  <1> HIDE DEF n
  <1> QED
    BY <1>2, <1>3, <1>4, <1>5, <1>6, <1>7, EnqueueCloses

\* What marking an object does to the heap.
LEMMA MarkedHeap ==
    ASSUME TraceInv, Closing, phase = "closure", NEW w \in TraceWorkers,
           tracer[w].pc \in {"pin", "mark", "los"}, UNCHANGED Heap, UNCHANGED slotValue,
           marks'[tracer[w].obj].bit = 1,
           \A a \in Addresses : a # tracer[w].obj => marks'[a] = marks[a]
    PROVE  /\ Grows /\ HeapClosing'
           /\ \A o : o = tracer[w].obj => Survives(o)' /\ o \in LiveSlots'
           /\ \A s : s \in LiveSlots' => s \in LiveSlots \/ s = tracer[w].obj
           /\ \A s : s = Slot(w) => Settled(s)'
           /\ \A a \in Used : marks'[a] = marks[a] \/ marks'[a].bit = 1
           /\ \A v \in TraceWorkers \ {w} :
                tracer[v].pc = "copy" => marks'[tracer[v].obj].bit = marks[tracer[v].obj].bit
  <1>1. PICK o : o = tracer[w].obj
    OBVIOUS
  <1>2. UNCHANGED <<phase, hi, layout, initial, markState, slotValue>>
    BY DEF Heap
  <1>3. /\ o \in Addresses /\ o \in Used /\ Slot(w) \in RootSlots \cup Used
        /\ slotValue[Slot(w)] = o \/ Settled(Slot(w))
        /\ tracer[w].pc = "pin" => layout[o] = "defrag"
        /\ tracer[w].pc = "mark" => layout[o] \in {"block", "immortal"}
        /\ tracer[w].pc = "los" => layout[o] = "los"
    BY <1>1, AtWork DEF AtObject
  <1>4. initial.origin[o] \in Reached(initial.slots)
    BY <1>1, AtReachable
  <1>5. \A b \in Copies : initial.origin[b] # o
    <2>1. CASE tracer[w].pc = "pin"
      BY <1>1, <2>1, WinnerIsAlone DEF Ending
    <2>2. CASE tracer[w].pc \in {"mark", "los"}
      BY <1>3, <2>2 DEF Closing, HeapClosing, Twins
    <2> QED
      BY <2>1, <2>2
  <1>6. \A a \in Addresses : \/ marks'[a] = marks[a]
                             \/ /\ marks'[a].bit = 1 /\ \A b \in Copies : initial.origin[b] # a
                                /\ initial.origin[a] \in Reached(initial.slots)
    BY <1>1, <1>4, <1>5
  <1>7. Grows /\ HeapClosing'
    BY <1>6, HeapKeeps
  <1>8. Survives(o)'
    BY <1>1, <1>2, <1>3 DEF Survives
  <1>9. o \in LiveSlots'
    BY <1>3, <1>8 DEF LiveSlots
  <1>10. \A s : s \in LiveSlots' => s \in LiveSlots \/ s = o
    <2>1. \A a \in Addresses : a # o /\ Survives(a)' => Survives(a)
      BY <1>1, <1>2 DEF Survives
    <2> QED
      BY <2>1 DEF LiveSlots
  <1>11. \A s : s = Slot(w) => Settled(s)'
    <2>1. PICK s : s = Slot(w)
      OBVIOUS
    <2>2. CASE Settled(s)
      BY <1>3, <1>7, <2>1, <2>2, StaysAlong
    <2>3. CASE slotValue[s] = o
      <3>1. slotValue'[s] = o
        BY <1>2, <2>3
      <3> QED
        BY <1>8, <2>1, <3>1 DEF Settled, Survives
    <2> QED
      BY <1>3, <2>1, <2>2, <2>3
  <1>12. \A a \in Used : marks'[a] = marks[a] \/ marks'[a].bit = 1
    BY <1>1, LiveSlotsAreUsed
  <1>13. ASSUME NEW v \in TraceWorkers \ {w}, tracer[v].pc = "copy"
         PROVE  marks'[tracer[v].obj].bit = marks[tracer[v].obj].bit
    <2>1. tracer[v].obj \in Addresses /\ layout[tracer[v].obj] \in {"copyspace0", "defrag"}
      BY <1>13, AtWork DEF AtObject, Ending
    <2>2. tracer[v].obj # o
      <3>1. CASE tracer[w].pc = "pin"
        <4>1. ~Forwards(v, o)
          BY <1>1, <3>1, WinnerIsAlone DEF Ending
        <4> QED
          BY <1>13, <4>1 DEF Forwards
      <3>2. CASE tracer[w].pc \in {"mark", "los"}
        BY <1>3, <2>1, <3>2
      <3> QED
        BY <3>1, <3>2
    <2> QED
      BY <1>1, <2>1, <2>2
  <1> QED
    BY <1>1, <1>7, <1>8, <1>9, <1>10, <1>11, <1>12, <1>13

\* The winner marks the object in place, then ends the forwarding (the branch
\* of trace_object_with_opportunistic_copy without room).
LEMMA PinCloses == ASSUME TraceInv, Closing, NEW w \in TraceWorkers, MarkInPlace(w) PROVE Closing'
  <1> DEFINE o == tracer[w].obj
  <1>1. tracer[w].pc = "pin" /\ phase = "closure" /\ UNCHANGED Heap /\ UNCHANGED <<slotValue, treadmill>>
    BY DEF MarkInPlace, At, Me
  <1>2. /\ o \in Addresses /\ o \in Originals /\ layout[o] = "defrag"
        /\ AtObject(tracer[w]) /\ Slot(w) \in RootSlots \cup Used
    BY <1>1, AtWork, WorkerOK DEF AtObject, Busy, Ending
  <1>3. CASE marks[o].bit = 0
    <2>1. /\ marks' = [marks EXCEPT ![o].bit = 1] /\ UNCHANGED <<fwd, packets, tracer>>
      BY <1>3, Bits DEF MarkInPlace, Me
    <2>2. marks'[o].bit = 1 /\ \A a \in Addresses : a # o => marks'[a] = marks[a]
      BY <1>2, <2>1, TypesNow DEF Marks
    <2>3. PICK t : t = tracer[w]
      OBVIOUS
    <2>4. tracer'[w] = t /\ \A v \in TraceWorkers \ {w} : tracer'[v] = tracer[v]
      BY <2>1, <2>3
    <2>5. /\ Grows /\ HeapClosing' /\ \A s : s \in LiveSlots' => s \in LiveSlots \/ s = o
          /\ \A a \in Used : marks'[a] = marks[a] \/ marks'[a].bit = 1
          /\ \A v \in TraceWorkers \ {w} :
               tracer[v].pc = "copy" => marks'[tracer[v].obj].bit = marks[tracer[v].obj].bit
      BY <1>1, <2>2, MarkedHeap
    <2>6. AtObject(tracer[w])'
      BY <1>1, <2>1, <2>5, OthersKeep
    <2>7. AtObject(t)'
      BY <2>4, <2>6 DEF AtObject
    <2>8. \A s : InPackets(s)' <=> InPackets(s)
      BY <2>1 DEF InPackets
    <2>9. \A s : (InPackets(s) => s \in LiveSlots') /\ (HeldBy(t, s) => s \in LiveSlots')
      BY <2>3, <2>5, StaysAlong DEF Closing
    <2>10. Enqueues(t, o)
      BY <1>1, <2>3 DEF Enqueues
    <2>11. \A a \in Originals : OnTreadmill(a)'
      <3>1. \A a \in Originals : layout'[a] = layout[a] /\ (layout[a] = "los" => marks'[a] = marks[a])
        BY <1>1, <1>2, <2>2, LiveSlotsAreUsed DEF Heap
      <3> QED
        BY <1>1, <2>3, <2>4, <3>1, TreadmillKeeps
    <2> HIDE DEF o
    <2> QED
      BY <2>1, <2>3, <2>4, <2>5, <2>7, <2>8, <2>9, <2>10, <2>11, HandsStep
  <1>4. CASE marks[o].bit # 0
    <2>1. PICK t : t = [[tracer[w] EXCEPT !.pc = "store", !.new = o] EXCEPT !.next = Enqueued(w, o).next]
      OBVIOUS
    <2>2. /\ tracer' = [tracer EXCEPT ![w] = t] /\ packets' = Enqueued(w, o).packets
          /\ fwd' = [fwd EXCEPT ![o].bits = FORWARDING_NOT_TRIGGERED_YET]
          /\ marks[o].bit = 1 /\ UNCHANGED <<slotValue, marks, treadmill>>
      BY <1>1, <1>4, <2>1 DEF MarkInPlace, enqueue, Me, Becomes
    <2>3. Survives(o)
      BY <1>2, <2>2 DEF Survives
    <2>4. /\ t.pc = "store" /\ t.obj = o /\ t.slots = tracer[w].slots /\ t.i = tracer[w].i
          /\ t.new = o /\ t.next = Enqueued(w, o).next
      BY <2>1, WorkerOK DEF Tracers
    <2>5. \A b \in Addresses : b # o => fwd'[b] = fwd[b]
      BY <2>2 DEF TraceInv, TraceTypes
    <2>6. \A b \in Addresses : fwd'[b].bits = 0 => fwd[b].bits = 0 \/ Survives(b)
      BY <2>3, <2>5
    <2>7. tracer[w].pc \in {"pin", "publish"} /\ \A s : Enqueues(tracer[w], s) => s = o
      BY <1>1 DEF Enqueues
    <2> HIDE DEF o
    <2> QED
      BY <1>1, <1>2, <2>2, <2>3, <2>4, <2>6, <2>7, EnqueueCloses DEF o
  <1> QED
    BY <1>3, <1>4

\* A worker that enqueues an object and goes on to its next slot.
LEMMA EnqueuedHands ==
    ASSUME TraceInv, NEW w \in TraceWorkers, tracer[w].pc # "idle", NEW o \in Addresses, NEW t,
           t = process_slots([tracer[w] EXCEPT !.next = Enqueued(w, o).next]),
           packets' = Enqueued(w, o).packets
    PROVE  /\ t.pc \in {"idle", "slot"}
           /\ \A s : HeldBy(t, s) => HeldBy(tracer[w], s) \/ s = o
           /\ \A s : InPackets(s)' => InPackets(s) \/ HeldBy(tracer[w], s) \/ s = o
           /\ \A s : InPackets(s) => InPackets(s)'
           /\ \A s : InHand(tracer[w], s) /\ s # Slot(w) => InHand(t, s) \/ InPackets(s)'
           /\ slotValue[o] # Null => InHand(t, o) \/ InPackets(o)'
  <1>1. PICK u : u = [tracer[w] EXCEPT !.next = Enqueued(w, o).next]
    OBVIOUS
  <1>2. Enqueued(w, o).next \in Seq(Slots)
    BY EnqueuedOK DEF TraceInv
  <1>3. /\ u \in Tracers /\ u.pc = tracer[w].pc /\ u.i = tracer[w].i
        /\ u.slots = tracer[w].slots /\ u.next = Enqueued(w, o).next
    BY <1>1, <1>2, WorkerOK DEF Tracers
  <1>4. t = process_slots(u) /\ u.i \in 1 .. Len(u.slots) /\ u.pc # "idle" /\ u.slots[u.i] = Slot(w)
    BY <1>1, <1>3, WorkerOK DEF Slot, Me
  <1>5. t.pc \in {"idle", "slot"}
    BY <1>3, <1>4, ProcessSlotsOK
  <1>6. \A s : /\ InHand(u, s) /\ s # Slot(w) => InHand(t, s)
               /\ In(s, u.next) => InHand(t, s)
               /\ HeldBy(t, s) => HeldBy(u, s)
    BY <1>3, <1>4, NextSlot
  <1> HIDE DEF Enqueued
  <1>7. \A s : HeldBy(u, s) => HeldBy(tracer[w], s) \/ s = o
    BY <1>3, EnqueuedHolds DEF HeldBy
  <1>8. \A s : InPackets(s)' => InPackets(s) \/ HeldBy(tracer[w], s) \/ s = o
    <2>1. \A p \in packets' : \A s : In(s, p) => s = o \/ In(s, tracer[w].next) \/ p \in packets
      BY EnqueuedHolds
    <2> QED
      BY <2>1 DEF InPackets, HeldBy
  <1>9. \A s : InPackets(s) => InPackets(s)'
    BY EnqueuedHolds DEF InPackets
  <1>10. \A s : In(s, tracer[w].next) => In(s, u.next) \/ InPackets(s)'
    BY <1>3, EnqueuedHolds DEF InPackets
  <1>11. slotValue[o] # Null => In(o, u.next) \/ InPackets(o)'
    BY <1>3, EnqueuedHolds DEF InPackets
  <1>12. \A s : InHand(tracer[w], s) => In(s, tracer[w].next) \/ InHand(u, s)
    BY <1>3 DEF InHand
  <1> QED
    BY <1>5, <1>6, <1>7, <1>8, <1>9, <1>10, <1>11, <1>12

\* Marking in place, in the Immix and in the immortal space.
LEMMA MarkCloses ==
    ASSUME TraceInv, Closing, NEW w \in TraceWorkers,
           trace_object_without_moving(w) \/ ImmortalSpaceTrace(w)
    PROVE  Closing'
  <1>0. PICK o : o = tracer[w].obj
    OBVIOUS
  <1>1. /\ tracer[w].pc = "mark" /\ phase = "closure" /\ UNCHANGED Heap
        /\ UNCHANGED <<slotValue, treadmill>> /\ UNCHANGED fwd /\ MarkOrSkip(w)
    BY DEF trace_object_without_moving, ImmortalSpaceTrace, MarkOrSkip, At, Me
  <1>2. /\ o \in Addresses /\ layout[o] \in {"block", "immortal"}
        /\ Survives(o) => Settled(Slot(w))
    BY <1>0, <1>1, AtWork DEF AtObject
  <1>3. CASE marks[o].bit = 1
    <2>1. /\ tracer' = [tracer EXCEPT ![w] = process_slots(tracer[w])] /\ UNCHANGED <<marks, packets>>
      BY <1>0, <1>1, <1>3 DEF MarkOrSkip, Continue, Me
    <2>2. Settled(Slot(w))
      BY <1>2, <1>3 DEF Survives
    <2>3. tracer[w].pc \notin {"idle", "pin", "treadmill", "publish"}
      BY <1>1
    <2> QED
      BY <1>1, <2>1, <2>2, <2>3, DoneStep
  <1>4. CASE marks[o].bit # 1
    <2>1. PICK t : t = process_slots([tracer[w] EXCEPT !.next = Enqueued(w, o).next])
      OBVIOUS
    <2>2. /\ tracer' = [tracer EXCEPT ![w] = t] /\ packets' = Enqueued(w, o).packets
          /\ marks' = [marks EXCEPT ![o].bit = 1]
      BY <1>0, <1>1, <1>4, <2>1 DEF MarkOrSkip, Continue, Me
    <2>3. marks'[o].bit = 1 /\ \A a \in Addresses : a # o => marks'[a] = marks[a]
      BY <1>2, <2>2, TypesNow DEF Marks
    <2>4. tracer'[w] = t /\ \A v \in TraceWorkers \ {w} : tracer'[v] = tracer[v]
      BY <2>2 DEF TraceInv, TraceTypes
    <2>5. /\ Grows /\ HeapClosing' /\ \A s : s \in LiveSlots' => s \in LiveSlots \/ s = o
          /\ o \in LiveSlots' /\ \A s : s = Slot(w) => Settled(s)'
          /\ \A a \in Used : marks'[a] = marks[a] \/ marks'[a].bit = 1
          /\ \A v \in TraceWorkers \ {w} :
               tracer[v].pc = "copy" => marks'[tracer[v].obj].bit = marks[tracer[v].obj].bit
      BY <1>0, <1>1, <2>3, MarkedHeap
    <2>6. /\ t.pc \in {"idle", "slot"}
          /\ \A s : HeldBy(t, s) => HeldBy(tracer[w], s) \/ s = o
          /\ \A s : InPackets(s)' => InPackets(s) \/ HeldBy(tracer[w], s) \/ s = o
          /\ \A s : InPackets(s) => InPackets(s)'
          /\ \A s : InHand(tracer[w], s) /\ s # Slot(w) => InHand(t, s) \/ InPackets(s)'
          /\ slotValue[o] # Null => InHand(t, o) \/ InPackets(o)'
      BY <1>1, <1>2, <2>1, <2>2, EnqueuedHands
    <2>7. AtObject(t)'
      BY <2>6 DEF AtObject
    <2>8. \A s : InPackets(s) \/ HeldBy(tracer[w], s) => s \in LiveSlots'
      BY <2>5, StaysAlong DEF Closing
    <2>9. \A s : Enqueues(tracer[w], s) => FALSE
      BY <1>1 DEF Enqueues
    <2>10. Settled(o)' \/ InHand(t, o) \/ InPackets(o)'
      <3>1. slotValue'[o] = Null => Settled(o)'
        BY DEF Settled
      <3> QED
        BY <1>1, <2>6, <3>1
    <2>11. \A a \in Originals : OnTreadmill(a)'
      <3>1. \A a \in Originals : layout'[a] = layout[a] /\ (layout[a] = "los" => marks'[a] = marks[a])
        BY <1>1, <1>2, <2>3, LiveSlotsAreUsed DEF Heap
      <3> QED
        BY <1>1, <2>4, <2>6, <3>1, TreadmillKeeps
    <2> QED
      BY <1>1, <2>4, <2>5, <2>6, <2>7, <2>8, <2>9, <2>10, <2>11, HandsStep
  <1> QED
    BY <1>3, <1>4

\* Marking a large object (test_and_mark).
LEMMA LargeMarkCloses ==
    ASSUME TraceInv, Closing, NEW w \in TraceWorkers, test_and_mark(w) PROVE Closing'
  <1>0. PICK o : o = tracer[w].obj
    OBVIOUS
  <1>1. /\ tracer[w].pc = "los" /\ phase = "closure" /\ UNCHANGED Heap
        /\ UNCHANGED <<slotValue, treadmill, packets>> /\ UNCHANGED fwd
    BY DEF test_and_mark, At, Me
  <1>2. /\ o \in Addresses /\ layout[o] = "los" /\ o \in Originals
        /\ Survives(o) => Settled(Slot(w))
        /\ marks[o].bit = 0 => tracer[w].young = marks[o].nursery
    BY <1>0, <1>1, AtWork, WorkerOK DEF AtObject, Busy
  <1>3. CASE marks[o].bit = markState
    <2>1. tracer' = [tracer EXCEPT ![w] = process_slots(tracer[w])] /\ UNCHANGED marks
      BY <1>0, <1>1, <1>3 DEF test_and_mark, Continue, Me
    <2>2. Settled(Slot(w))
      BY <1>2, <1>3, ClosingFacts DEF Survives
    <2>3. tracer[w].pc \notin {"idle", "pin", "treadmill", "publish"}
      BY <1>1
    <2> QED
      BY <1>1, <2>1, <2>2, <2>3, DoneStep
  <1>4. CASE marks[o].bit # markState
    <2>0. marks[o].bit = 0
      BY <1>2, <1>4, ClosingFacts, TypesNow DEF Marks
    <2>1. PICK t : t = [tracer[w] EXCEPT !.pc = "treadmill"]
      OBVIOUS
    <2>2. /\ tracer' = [tracer EXCEPT ![w] = t]
          /\ marks' = [marks EXCEPT ![o] = [bit |-> markState, nursery |-> FALSE]]
      BY <1>0, <1>1, <1>4, <2>1 DEF test_and_mark, Becomes, Me
    <2>3. marks'[o].bit = 1 /\ \A a \in Addresses : a # o => marks'[a] = marks[a]
      BY <1>2, <2>2, ClosingFacts, TypesNow DEF Marks
    <2>4. tracer'[w] = t /\ \A v \in TraceWorkers \ {w} : tracer'[v] = tracer[v]
      BY <2>2 DEF TraceInv, TraceTypes
    <2>5. /\ Grows /\ HeapClosing' /\ \A s : s \in LiveSlots' => s \in LiveSlots \/ s = o
          /\ \A s : s = Slot(w) => Settled(s)'
          /\ \A a \in Used : marks'[a] = marks[a] \/ marks'[a].bit = 1
          /\ \A v \in TraceWorkers \ {w} :
               tracer[v].pc = "copy" => marks'[tracer[v].obj].bit = marks[tracer[v].obj].bit
      BY <1>0, <1>1, <2>3, MarkedHeap
    <2>6. /\ t.pc = "treadmill" /\ t.obj = o /\ t.slots = tracer[w].slots /\ t.i = tracer[w].i
          /\ t.next = tracer[w].next /\ t.young = tracer[w].young /\ t.slots[t.i] = Slot(w)
      BY <1>0, <2>1, WorkerOK DEF Tracers, Slot, Me
    <2>7. AtObject(t)'
      <3>1. PICK s : s = Slot(w)
        OBVIOUS
      <3>2. initial.origin[o] = Was(s) /\ s \in RootSlots \cup Used
        BY <1>0, <1>1, <3>1, AtWork
      <3>3. Was(s)' = Was(s) /\ Settled(s)' /\ layout'[o] = layout[o] /\ initial' = initial
        BY <1>1, <2>5, <3>1, <3>2, StaysAlong DEF Heap
      <3> QED
        BY <1>2, <2>3, <2>6, <3>1, <3>2, <3>3 DEF AtObject, Ending
    <2>8. \A s : /\ InPackets(s)' <=> InPackets(s)
                 /\ InPackets(s) => s \in LiveSlots'
                 /\ HeldBy(t, s) => s \in LiveSlots'
                 /\ InHand(tracer[w], s) => InHand(t, s)
                 /\ ~Enqueues(tracer[w], s)
      <3>1. \A s : InPackets(s)' <=> InPackets(s)
        BY <1>1 DEF InPackets
      <3>2. \A s : HeldBy(t, s) => HeldBy(tracer[w], s)
        BY <2>6 DEF HeldBy
      <3>3. \A s : (InHand(tracer[w], s) => InHand(t, s)) /\ ~Enqueues(tracer[w], s)
        BY <1>1, <2>6 DEF InHand, Enqueues
      <3> QED
        BY <2>5, <3>1, <3>2, <3>3, StaysAlong DEF Closing
    <2>9. Enqueues(t, o)
      BY <2>6 DEF Enqueues
    <2>10. ASSUME NEW a \in Originals PROVE OnTreadmill(a)'
      <3>1. OnTreadmill(a) /\ layout' = layout /\ a \in Addresses
        BY <1>1, LiveSlotsAreUsed DEF Closing, Heap
      <3>2. \A y : InSet(a, y)' <=> InSet(a, y)
        BY <1>1 DEF InSet
      <3>3. CASE a = o
        <4>1. InSet(o, marks[o].nursery) /\ \A v \in TraceWorkers : ~AtTreadmill(v, o)
          BY <1>2, <2>0, <3>1, <3>3, Bits DEF OnTreadmill
        <4>2. InSet(o, tracer[w].young)'
          BY <1>1, <1>2, <2>0, <2>4, <2>6, <4>1 DEF InSet
        <4>3. /\ AtTreadmill(w, o)'
              /\ \A v \in TraceWorkers : AtTreadmill(v, o)' => v = w
          BY <2>4, <2>6, <4>1 DEF AtTreadmill
        <4> QED
          BY <1>2, <2>3, <3>1, <3>3, <4>2, <4>3 DEF OnTreadmill
      <3>4. CASE a # o
        <4>1. \A v \in TraceWorkers : /\ AtTreadmill(v, a)' <=> AtTreadmill(v, a)
                                      /\ AtTreadmill(v, a) => tracer'[v].young = tracer[v].young
          BY <1>1, <2>4, <2>6, <3>4 DEF AtTreadmill
        <4> QED
          BY <1>1, <2>3, <3>1, <3>2, <3>4, <4>1, OneKeeps
      <3> QED
        BY <3>3, <3>4
    <2> QED
      BY <1>1, <2>4, <2>5, <2>7, <2>8, <2>9, <2>10, HandsStep
  <1> QED
    BY <1>3, <1>4

\* The worker that marked a large object moves it and enqueues it (the
\* treadmill's copy).
LEMMA TreadmillCopyCloses ==
    ASSUME TraceInv, Closing, NEW w \in TraceWorkers, treadmill_copy(w) PROVE Closing'
  <1>0. PICK o : o = tracer[w].obj
    OBVIOUS
  <1>1. PICK t : t = process_slots([tracer[w] EXCEPT !.next = Enqueued(w, o).next])
    OBVIOUS
  <1>2. /\ tracer[w].pc = "treadmill" /\ phase = "closure" /\ UNCHANGED Heap
        /\ UNCHANGED <<slotValue, marks>> /\ UNCHANGED fwd
        /\ tracer' = [tracer EXCEPT ![w] = t] /\ packets' = Enqueued(w, o).packets
        /\ treadmill' = TreadMillCopy(o, tracer[w].young)
    BY <1>0, <1>1 DEF treadmill_copy, At, Me, Continue
  <1>3. /\ o \in Addresses /\ layout[o] = "los" /\ marks[o].bit = 1 /\ o \in Originals
        /\ Survives(o) => Settled(Slot(w))
    BY <1>0, <1>2, AtWork, WorkerOK DEF AtObject, Busy
  <1>4. Survives(o) /\ Settled(Slot(w)) /\ o \in LiveSlots
    BY <1>3 DEF Survives, LiveSlots
  <1>5. tracer'[w] = t /\ \A v \in TraceWorkers \ {w} : tracer'[v] = tracer[v]
    BY <1>2 DEF TraceInv, TraceTypes
  <1>6. /\ t.pc \in {"idle", "slot"}
        /\ \A s : HeldBy(t, s) => HeldBy(tracer[w], s) \/ s = o
        /\ \A s : InPackets(s)' => InPackets(s) \/ HeldBy(tracer[w], s) \/ s = o
        /\ \A s : InPackets(s) => InPackets(s)'
        /\ \A s : InHand(tracer[w], s) /\ s # Slot(w) => InHand(t, s) \/ InPackets(s)'
        /\ slotValue[o] # Null => InHand(t, o) \/ InPackets(o)'
    BY <1>1, <1>2, <1>3, EnqueuedHands
  <1>7. AtObject(t)
    BY <1>6 DEF AtObject
  <1>8. \A s : InPackets(s) \/ HeldBy(tracer[w], s) => s \in LiveSlots
    BY DEF Closing
  <1>9. \A s : Enqueues(tracer[w], s) => s = o
    BY <1>0, <1>2 DEF Enqueues
  <1>10. slotValue[o] = Null => Settled(o)
    BY DEF Settled
  <1>11. AtTreadmill(w, o)
    BY <1>0, <1>2 DEF AtTreadmill
  <1>12. /\ InSet(o, tracer[w].young)
         /\ \A v \in TraceWorkers : AtTreadmill(v, o) => v = w
    <2>1. OnTreadmill(o)
      BY <1>3 DEF Closing
    <2>2. PICK u \in TraceWorkers : /\ AtTreadmill(u, o) /\ InSet(o, tracer[u].young)
                                    /\ \A v \in TraceWorkers : AtTreadmill(v, o) => v = u
      BY <1>3, <1>11, <2>1, Bits DEF OnTreadmill
    <2> QED
      BY <1>11, <2>2
  <1>13. /\ o \in treadmill'.to /\ o \notin treadmill'.from \cup treadmill'.collectNursery
         /\ \A a : a # o => /\ a \in treadmill'.to <=> a \in treadmill.to
                            /\ a \in treadmill'.from <=> a \in treadmill.from
                            /\ a \in treadmill'.collectNursery <=> a \in treadmill.collectNursery
    <2>1. treadmill \in TreadMills
      BY TypesNow
    <2>2. CASE tracer[w].young
      <3>1. treadmill' = [treadmill EXCEPT !.collectNursery = @ \ {o}, !.to = @ \cup {o}]
        BY <1>2, <2>2 DEF TreadMillCopy
      <3>2. /\ treadmill'.to = treadmill.to \cup {o} /\ treadmill'.from = treadmill.from
            /\ treadmill'.collectNursery = treadmill.collectNursery \ {o}
        BY <2>1, <3>1 DEF TreadMills
      <3>3. o \notin treadmill.from
        BY <1>12, <2>2 DEF InSet
      <3> QED
        BY <3>2, <3>3
    <2>3. CASE ~tracer[w].young
      <3>1. treadmill' = [treadmill EXCEPT !.from = @ \ {o}, !.to = @ \cup {o}]
        BY <1>2, <2>3 DEF TreadMillCopy
      <3>2. /\ treadmill'.to = treadmill.to \cup {o} /\ treadmill'.from = treadmill.from \ {o}
            /\ treadmill'.collectNursery = treadmill.collectNursery
        BY <2>1, <3>1 DEF TreadMills
      <3>3. o \notin treadmill.collectNursery
        BY <1>12, <2>3 DEF InSet
      <3> QED
        BY <3>2, <3>3
    <2> QED
      BY <2>2, <2>3
  <1>14. ASSUME NEW a \in Originals PROVE OnTreadmill(a)'
    <2>1. OnTreadmill(a) /\ layout' = layout /\ marks' = marks
      BY <1>2 DEF Closing, Heap
    <2>2. CASE a = o
      <3>1. \A v \in TraceWorkers : ~AtTreadmill(v, o)'
        BY <1>5, <1>6, <1>12 DEF AtTreadmill
      <3> QED
        BY <1>3, <1>13, <2>1, <2>2, <3>1 DEF OnTreadmill
    <2>3. CASE a # o
      <3>1. \A v \in TraceWorkers : /\ AtTreadmill(v, a)' <=> AtTreadmill(v, a)
                                    /\ AtTreadmill(v, a) => tracer'[v].young = tracer[v].young
        BY <1>0, <1>5, <1>6, <2>3 DEF AtTreadmill
      <3>2. \A y : InSet(a, y)' <=> InSet(a, y)
        BY <1>13, <2>3 DEF InSet
      <3> QED
        BY <1>13, <2>1, <2>3, <3>1, <3>2, OneKeeps
    <2> QED
      BY <2>2, <2>3
  <1> QED
    BY <1>2, <1>4, <1>5, <1>6, <1>7, <1>8, <1>9, <1>10, <1>14, PlainStep

\* The slot gets the address of the survivor (store).
LEMMA StoreCloses == ASSUME TraceInv, Closing, NEW w \in TraceWorkers, store(w) PROVE Closing'
  <1>0. PICK t : t = process_slots(tracer[w])
    OBVIOUS
  <1>1. PICK s : s = Slot(w)
    OBVIOUS
  <1>2. PICK n : n = tracer[w].new
    OBVIOUS
  <1>3. /\ tracer[w].pc = "store" /\ phase = "closure" /\ UNCHANGED Heap
        /\ UNCHANGED <<marks, treadmill, packets>> /\ UNCHANGED fwd
        /\ slotValue' = [slotValue EXCEPT ![s] = n] /\ tracer' = [tracer EXCEPT ![w] = t]
    BY <1>0, <1>1, <1>2 DEF store, At, Me, Continue
  <1>4. UNCHANGED <<phase, hi, layout, initial, markState, marks>>
    BY <1>3 DEF Heap
  <1>5. /\ s \in LiveSlots /\ s \in Slots /\ n \in Addresses /\ Survives(n)
        /\ initial.origin[n] = Was(s)
    BY <1>1, <1>2, <1>3, AtWork, WorkerOK DEF AtObject, Busy, Ending
  <1>6. slotValue'[s] = n /\ \A x \in Slots : x # s => slotValue'[x] = slotValue[x]
    BY <1>3, <1>5, TypesNow
  <1>7. /\ \A a \in Addresses : Survives(a)' <=> Survives(a)
        /\ LiveSlots' = LiveSlots /\ Used' = Used /\ Copies' = Copies
    BY <1>4 DEF Survives, LiveSlots, Used, Copies
  <1>8. RootSlots \cup Used \subseteq Slots
    BY LiveSlotsAreUsed DEF Slots
  <1>9. Settled(s)'
    BY <1>4, <1>5, <1>6 DEF Settled, Survives
  <1>10. Grows
    BY <1>3, <1>4, <1>6, <1>7, <1>8, <1>9 DEF Grows
  <1>11. HeapClosing'
    <2>1. Twins'
      <3>1. \A a \in Copies : a \in Addresses /\ initial.origin[a] \in Addresses
        BY DEF Copies, TraceInv, TraceTypes
      <3>2. \A a \in Copies : Survives(a)' /\ ~Survives(initial.origin[a])'
        BY <1>4, <1>7, <3>1 DEF Closing, HeapClosing, Twins, Survives
      <3> QED
        BY <1>4, <1>7, <3>1, <3>2 DEF Closing, HeapClosing, Twins
    <2>2. ASSUME NEW x \in RootSlots \cup Used' PROVE SlotKeeps(x)'
      <3>1. x \in RootSlots \cup Used /\ SlotKeeps(x) /\ Was(x)' = Was(x)
        BY <1>4, <1>7, <2>2 DEF Closing, HeapClosing, Was
      <3>2. CASE x = s
        <4>1. n \in Used' /\ Origin(n)' = Was(s)'
          BY <1>4, <1>5, <1>7, <3>1, <3>2, LiveSlotsAreUsed DEF Origin
        <4> QED
          BY <1>6, <3>2, <4>1 DEF SlotKeeps, Origin
      <3>3. CASE x # s
        BY <1>4, <1>6, <1>7, <1>8, <3>1, <3>3 DEF SlotKeeps, Origin
      <3> QED
        BY <3>2, <3>3
    <2> QED
      BY <1>4, <1>7, <2>1, <2>2 DEF Closing, HeapClosing
  <1>12. tracer'[w] = t /\ \A v \in TraceWorkers \ {w} : tracer'[v] = tracer[v]
    BY <1>3 DEF TraceInv, TraceTypes
  <1>13. t.pc \in {"idle", "slot"}
    BY <1>0, <1>3, WorkerOK
  <1>14. AtObject(t)' /\ t.pc # "treadmill"
    BY <1>13 DEF AtObject
  <1>15. \A o \in Originals : OnTreadmill(o)'
    BY <1>3, <1>4, <1>12, <1>14, TreadmillKeeps
  <1>16. \A x : /\ InHand(tracer[w], x) /\ x # s => InHand(t, x)
                /\ HeldBy(t, x) => HeldBy(tracer[w], x)
    BY <1>0, <1>1, <1>3, WorkerOK, NextSlot DEF Slot, Me
  <1>17. \A x : /\ InPackets(x)' <=> InPackets(x)
                /\ InPackets(x) \/ HeldBy(tracer[w], x) => x \in LiveSlots'
                /\ ~Enqueues(tracer[w], x)
    <2>1. \A x : ~Enqueues(tracer[w], x)
      BY <1>3 DEF Enqueues
    <2>2. \A x : InPackets(x)' <=> InPackets(x)
      BY <1>3 DEF InPackets
    <2> QED
      BY <1>7, <2>1, <2>2 DEF Closing
  <1> QED
    BY <1>3, <1>7, <1>9, <1>10, <1>11, <1>12, <1>14, <1>15, <1>16, <1>17, HandsStep

\* The heap with a copy in it (forward_object and try_forward_object).
LEMMA CopiedHeap ==
    ASSUME TraceInv, Closing, phase = "closure", NEW o \in Originals, NEW a \in Addresses,
           a \notin Originals, layout[a] = "unused",
           UNCHANGED <<phase, hi, markState>>, initial'.slots = initial.slots,
           initial'.origin[a] = o, slotValue'[a] = slotValue[o],
           layout'[a] = "copyspace1" \/ (layout'[a] = "block" /\ marks'[a].bit = 1),
           \A b \in Addresses \ {a} : /\ initial'.origin[b] = initial.origin[b]
                                      /\ layout'[b] = layout[b] /\ marks'[b] = marks[b],
           \A x \in Slots \ {a} : slotValue'[x] = slotValue[x],
           o \in Reached(initial.slots), ~Survives(o), layout[o] \in {"copyspace0", "defrag"}
    PROVE  /\ Grows /\ HeapClosing' /\ Survives(a)'
           /\ \A s : s \in LiveSlots' => s \in LiveSlots \/ s = a
  <1>1. /\ o \in Addresses /\ o \in Used /\ a \notin Used /\ a # o /\ a \notin RootSlots
        /\ ~Survives(a)
    BY LiveSlotsAreUsed DEF Used, Survives
  <1>2. Survives(a)'
    BY DEF Survives
  <1>3. \A b \in Addresses \ {a} : Survives(b)' <=> Survives(b)
    BY DEF Survives
  <1>4. Used' = Used \cup {a} /\ Copies' = Copies \cup {a} /\ a \notin Copies
    BY DEF Used, Copies
  <1>5. \A s : s \in LiveSlots' => s \in LiveSlots \/ s = a
    BY <1>3 DEF LiveSlots
  <1>6. \A x \in RootSlots \cup Used : x \in Slots \ {a}
    BY <1>1, LiveSlotsAreUsed DEF Slots
  <1>7. Grows
    <2>1. \A b \in Used : b \in Addresses \ {a}
      BY <1>1, LiveSlotsAreUsed
    <2>2. \A b \in Addresses : Survives(b) => Survives(b)'
      BY <1>1, <1>3
    <2> QED
      BY <1>6, <2>1, <2>2 DEF Grows
  <1>8. Twins'
    <2>1. \A b \in Originals : initial'.origin[b] = b
      BY LiveSlotsAreUsed DEF Closing, HeapClosing, Twins
    <2>2. ASSUME NEW b \in Copies'
          PROVE  /\ Survives(b)' /\ ~Survives(initial.origin[b])'
                 /\ layout'[initial'.origin[b]] \in {"copyspace0", "defrag"}
      <3>1. PICK c : c = initial'.origin[b]
        OBVIOUS
      <3>2. CASE b = a
        BY <1>1, <1>2, <1>3, <3>1, <3>2 DEF Survives
      <3>3. CASE b # a
        <4>1. b \in Copies /\ b \in Addresses \ {a}
          BY <1>4, <2>2, <3>3 DEF Copies
        <4>2. c = initial.origin[b] /\ c \in Originals
          BY <3>1, <4>1 DEF TraceInv, Forwarding, CopyIsPointedTo
        <4>3. c \in Addresses \ {a}
          BY <4>2, LiveSlotsAreUsed
        <4>4. Survives(b) /\ ~Survives(c) /\ layout[c] \in {"copyspace0", "defrag"}
          BY <4>1, <4>2 DEF Closing, HeapClosing, Twins
        <4>5. Survives(b)' /\ ~Survives(c)' /\ layout'[c] = layout[c]
          BY <1>3, <4>1, <4>3, <4>4
        <4> QED
          BY <3>1, <4>4, <4>5 DEF Survives
      <3> QED
        BY <3>2, <3>3
    <2> QED
      BY <2>1, <2>2 DEF Twins
  <1>9. ASSUME NEW x \in RootSlots \cup Used' PROVE SlotKeeps(x)'
    <2>1. CASE x = a
      <3>1. SlotKeeps(o) /\ Was(o) = initial.slots[o]
        BY <1>1, LiveSlotsAreUsed, ClosingFacts DEF Closing, HeapClosing, Was
      <3>2. Was(a)' = initial.slots[o]
        BY <1>1 DEF Was
      <3>3. PICK y : y = slotValue[o]
        OBVIOUS
      <3>4. y \in Used \cup {Null} /\ Origin(y) = initial.slots[o] /\ slotValue'[a] = y
        BY <3>1, <3>3 DEF SlotKeeps
      <3>5. Origin(y)' = Origin(y)
        BY <1>6, <3>4, LiveSlotsAreUsed DEF Origin
      <3> QED
        BY <1>4, <2>1, <3>2, <3>4, <3>5 DEF SlotKeeps, Origin
    <2>2. CASE x # a
      <3>1. x \in RootSlots \cup Used /\ SlotKeeps(x)
        BY <1>4, <1>9, <2>2 DEF Closing, HeapClosing
      <3>2. Was(x)' = Was(x)
        BY <1>7, <3>1, StaysAlong
      <3>3. PICK y : y = slotValue[x]
        OBVIOUS
      <3>4. y \in Used \cup {Null} /\ Origin(y) = Was(x) /\ slotValue'[x] = y
        BY <1>6, <3>1, <3>3 DEF SlotKeeps
      <3>5. Origin(y)' = Origin(y)
        BY <1>6, <3>4, LiveSlotsAreUsed DEF Origin
      <3> QED
        BY <1>4, <3>2, <3>4, <3>5 DEF SlotKeeps, Origin
    <2> QED
      BY <2>1, <2>2
  <1>10. \A b \in Addresses : Survives(b)' => initial'.origin[b] \in Reached(initial.slots)
    BY <1>3 DEF Closing, HeapClosing
  <1>11. \A b \in Addresses : layout'[b] # "free"
    BY DEF Closing, HeapClosing
  <1>12. Reached(initial.slots)' = Reached(initial.slots)
    OBVIOUS
  <1>13. HeapClosing'
    BY <1>8, <1>9, <1>10, <1>11, <1>12 DEF Closing, HeapClosing
  <1> QED
    BY <1>2, <1>5, <1>7, <1>13

\* The winner copies the object (copy).
LEMMA CopyCloses == ASSUME TraceInv, Closing, NEW w \in TraceWorkers, copy(w) PROVE Closing'
  <1>0. PICK o : o = tracer[w].obj
    OBVIOUS
  <1>1. PICK a : a = Unused
    OBVIOUS
  <1>2. PICK t : t = [tracer[w] EXCEPT !.pc = "publish", !.new = a]
    OBVIOUS
  <1>3. /\ tracer[w].pc = "copy" /\ phase = "closure"
        /\ UNCHANGED <<phase, hi, markState, treadmill, packets>>
        /\ layout' = alloc_copy(o, a) /\ slotValue' = [slotValue EXCEPT ![a] = slotValue[o]]
        /\ initial' = [initial EXCEPT !.origin[a] = o] /\ marks' = post_copy(o, a)
        /\ fwd' = write_forwarding_pointer(o, a) /\ tracer' = [tracer EXCEPT ![w] = t]
    BY <1>0, <1>1, <1>2 DEF copy, At, Me, Becomes
  <1>4. /\ o \in Originals /\ o \in Addresses /\ layout[o] \in {"copyspace0", "defrag"}
        /\ ~Survives(o) /\ initial.origin[o] = o /\ o \in Reached(initial.slots)
    <2>1. o \in Originals /\ o \in Addresses
      BY <1>0, <1>3, WinnerIsAlone DEF Ending
    <2>2. layout[o] \in {"copyspace0", "defrag"} /\ ~Survives(o)
      BY <1>0, <1>3, AtWork DEF AtObject, Ending
    <2>3. initial.origin[o] = o
      BY <2>1, ClosingFacts
    <2> QED
      BY <1>0, <1>3, <2>1, <2>2, <2>3, AtReachable
  <1>5. a \in Addresses /\ layout[a] = "unused" /\ a \notin Originals
    BY <1>1, <1>4, RoomToCopy
  <1>6. /\ initial'.slots = initial.slots /\ initial'.origin[a] = o
        /\ \A b \in Addresses \ {a} : initial'.origin[b] = initial.origin[b]
    BY <1>3, <1>4, <1>5 DEF TraceInv, TraceTypes
  <1>7. slotValue'[a] = slotValue[o] /\ \A x \in Slots \ {a} : slotValue'[x] = slotValue[x]
    BY <1>3, <1>5, TypesNow DEF Slots
  <1>8. /\ layout'[a] = "copyspace1" \/ (layout'[a] = "block" /\ marks'[a].bit = 1)
        /\ \A b \in Addresses \ {a} : layout'[b] = layout[b] /\ marks'[b] = marks[b]
    <2>1. CASE layout[o] = FromSpace
      <3>1. layout' = [layout EXCEPT ![a] = "copyspace1"] /\ marks' = [marks EXCEPT ![a].bit = 0]
        BY <1>3, <2>1, ClosingFacts DEF alloc_copy, post_copy
      <3> QED
        BY <1>5, <3>1, TypesNow DEF TraceInv, TraceTypes, Marks
    <2>2. CASE layout[o] # FromSpace
      <3>1. layout' = [layout EXCEPT ![a] = "block"] /\ marks' = [marks EXCEPT ![a].bit = 1]
        BY <1>3, <2>2 DEF alloc_copy, post_copy
      <3> QED
        BY <1>5, <3>1, TypesNow DEF TraceInv, TraceTypes, Marks
    <2> QED
      BY <2>1, <2>2
  <1>9. /\ Grows /\ HeapClosing' /\ Survives(a)'
        /\ \A s : s \in LiveSlots' => s \in LiveSlots \/ s = a
    BY <1>3, <1>4, <1>5, <1>6, <1>7, <1>8, CopiedHeap
  <1>10. tracer'[w] = t /\ \A v \in TraceWorkers \ {w} : tracer'[v] = tracer[v]
    BY <1>3 DEF TraceInv, TraceTypes
  <1>11. /\ t.pc = "publish" /\ t.obj = o /\ t.slots = tracer[w].slots /\ t.i = tracer[w].i
         /\ t.next = tracer[w].next /\ t.new = a /\ t.slots[t.i] = Slot(w)
    BY <1>0, <1>2, WorkerOK DEF Tracers, Slot, Me
  <1>12. AtObject(t)'
    <2>1. PICK s : s = Slot(w)
      OBVIOUS
    <2>2. /\ initial.origin[o] = Was(s) /\ s \in RootSlots \cup Used
          /\ slotValue[s] = o \/ Settled(s)
      BY <1>0, <1>3, <2>1, AtWork
    <2>3. /\ Was(s)' = Was(s)
          /\ slotValue'[s] = slotValue[s] \/ Settled(s)'
          /\ Settled(s) => Settled(s)'
      BY <1>9, <2>2, StaysAlong DEF Grows
    <2>4. layout'[o] = layout[o] /\ initial'.origin[o] = initial.origin[o]
      BY <1>4, <1>5, <1>6, <1>8
    <2>5. /\ layout'[o] # "unused" /\ initial'.origin[o] = Was(s)'
          /\ layout'[o] \in {"copyspace0", "defrag"}
      BY <1>4, <2>2, <2>3, <2>4
    <2>6. slotValue'[s] = o \/ Settled(s)'
      BY <2>2, <2>3
    <2> QED
      BY <1>11, <2>1, <2>5, <2>6 DEF AtObject
  <1>13. \A b \in Used : b \in Addresses \ {a}
    BY <1>5, LiveSlotsAreUsed DEF Used
  <1>14. \A v \in TraceWorkers \ {w} :
            tracer[v].pc = "copy" => marks'[tracer[v].obj].bit = marks[tracer[v].obj].bit
    <2>1. \A v \in TraceWorkers : tracer[v].pc = "copy" => tracer[v].obj \in Used
      BY AtWork
    <2> QED
      BY <1>8, <1>13, <2>1
  <1>15. \A b \in Addresses : fwd'[b].bits = fwd[b].bits
    BY <1>3, <1>4 DEF TraceInv, TraceTypes, write_forwarding_pointer
  <1>16. \A x \in Originals : OnTreadmill(x)'
    <2>1. \A x \in Originals : layout'[x] = layout[x] /\ marks'[x] = marks[x]
      BY <1>5, <1>8, LiveSlotsAreUsed
    <2> QED
      BY <1>3, <1>10, <1>11, <2>1, TreadmillKeeps
  <1>17. \A s : /\ InPackets(s)' <=> InPackets(s)
                /\ InPackets(s) => s \in LiveSlots'
                /\ HeldBy(t, s) => s \in LiveSlots'
                /\ InHand(tracer[w], s) => InHand(t, s)
                /\ ~Enqueues(tracer[w], s)
    <2>1. \A s : InPackets(s)' <=> InPackets(s)
      BY <1>3 DEF InPackets
    <2>2. \A s : HeldBy(t, s) => HeldBy(tracer[w], s)
      BY <1>11 DEF HeldBy
    <2>3. \A s : (InHand(tracer[w], s) => InHand(t, s)) /\ ~Enqueues(tracer[w], s)
      BY <1>3, <1>11 DEF InHand, Enqueues
    <2> QED
      BY <1>9, <2>1, <2>2, <2>3, StaysAlong DEF Closing
  <1>18. Enqueues(t, a)
    BY <1>11 DEF Enqueues
  <1>19. \A b \in Used : marks'[b] = marks[b] \/ marks'[b].bit = 1
    BY <1>8, <1>13
  <1> QED
    BY <1>9, <1>10, <1>12, <1>14, <1>15, <1>16, <1>17, <1>18, <1>19, HandsStep
-----------------------------------------------------------------------------
(***************************************************************************)
(* The pause from its start to its end.                                    *)
(***************************************************************************)
\* No pause has started: nothing is marked, and the treadmill holds the large
\* objects by their age.
LEMMA UntouchedInit == TracingInit => Untouched
  <1> HAVE TracingInit
  <1>1. PICK l \in Layouts : layout = [a \in Addresses |-> IF a \in Originals THEN l[a] ELSE "unused"]
    BY DEF TracingInit
  <1>2. l \in [Originals -> Spaces]
    BY TracingAssumption
  <1>3. \A a \in Addresses : layout[a] \notin {"copyspace1", "free"}
    BY <1>1, <1>2 DEF Spaces
  <1>4. \A s \in RootSlots \cup Originals : slotValue[s] \in Originals \cup {Null}
    <2>1. PICK v \in [RootSlots \cup Originals -> Originals \cup {Null}] :
             slotValue = [s \in RootSlots \cup Addresses |-> IF s \in DOMAIN v THEN v[s] ELSE Null]
      BY DEF TracingInit
    <2>2. \A s \in RootSlots \cup Originals : s \in RootSlots \cup Addresses /\ s \in DOMAIN v
      BY LiveSlotsAreUsed
    <2> QED
      BY <2>1, <2>2
  <1>5. \A a \in Addresses : initial.origin[a] = a
    <2>1. initial.origin = [a \in Addresses |-> a]
      BY DEF TracingInit
    <2> QED
      BY <2>1
  <1>6. PICK young \in SUBSET LargeObjects :
           /\ marks = [a \in Addresses |-> [bit |-> 0, nursery |-> a \in young]]
           /\ treadmill = [from |-> {}, to |-> LargeObjects \ young, collectNursery |-> {},
                           allocNursery |-> young]
    BY DEF TracingInit
  <1>7. \A a \in Addresses : marks[a].bit = 0 /\ (marks[a].nursery <=> a \in young)
    BY <1>6
  <1>8. /\ treadmill.from = {} /\ treadmill.to = LargeObjects \ young
        /\ treadmill.collectNursery = {} /\ treadmill.allocNursery = young
    BY <1>6
  <1>9. LargeObjects \subseteq Addresses
    BY LiveSlotsAreUsed DEF LargeObjects
  <1>10. \A w \in TraceWorkers : tracer[w] = Resting
    BY DEF TracingInit
  <1> QED
    BY <1>3, <1>4, <1>5, <1>7, <1>8, <1>9, <1>10 DEF Untouched, TracingInit

\* The pause starts (prepare): the roots wait in packets and nothing survives yet.
LEMMA PrepareCloses == ASSUME TraceInv, Untouched, prepare PROVE Closing'
  <1>1. /\ phase = "mutator" /\ phase' = "closure" /\ hi' = ~hi
        /\ markState' = 1 - markState /\ treadmill' = flip(treadmill)
        /\ packets' = {<<s>> : s \in RootSlots}
        /\ initial' = [initial EXCEPT !.slots = slotValue]
        /\ UNCHANGED <<layout, slotValue, fwd, marks, tracer>>
    BY DEF prepare, SemiSpacePrepare, LargeObjectSpacePrepare
  <1>2. hi' = TRUE
    BY <1>1 DEF Untouched
  <1>3. markState' = 1
    BY <1>1, SMTT(30) DEF Untouched
  <1>4. initial'.slots = slotValue /\ initial'.origin = initial.origin
    BY <1>1 DEF TraceInv, TraceTypes
  <1>5. /\ Copies = {} /\ Copies' = {} /\ Used' \subseteq Originals /\ Originals \subseteq Addresses
        /\ \A a \in Addresses : initial.origin[a] = a
    <2>1. Copies = {}
      BY <1>1 DEF TraceInv, CopiesStay
    <2> QED
      BY <1>1, <2>1, LiveSlotsAreUsed DEF Copies, Used, Untouched
  <1>6. \A a \in Addresses : ~Survives(a)' /\ layout'[a] # "free" /\ marks'[a].bit = 0
    BY <1>1, Bits DEF Untouched, Survives
  <1>7. LiveSlots' = RootSlots
    BY <1>6 DEF LiveSlots
  <1>8. HeapClosing'
    <2>1. ASSUME NEW s \in RootSlots \cup Originals PROVE SlotKeeps(s)'
      <3>1. slotValue[s] \in Originals \cup {Null} /\ slotValue'[s] = slotValue[s]
        BY <1>1 DEF Untouched
      <3>2. Was(s)' = slotValue[s]
        <4>1. CASE s \in RootSlots
          BY <1>4, <4>1 DEF Was
        <4>2. CASE s \notin RootSlots
          <5>1. s \in Originals /\ initial'.origin[s] = s
            BY <1>4, <1>5, <4>2
          <5> QED
            BY <1>4, <4>2, <5>1 DEF Was
        <4> QED
          BY <4>1, <4>2
      <3>3. slotValue[s] \in Used' \cup {Null}
        BY <1>1, <1>5, <3>1 DEF Used, TraceInv, CopiesStay
      <3>4. Origin(slotValue[s])' = slotValue[s]
        BY <1>4, <1>5, <3>1 DEF Origin
      <3> QED
        BY <3>1, <3>2, <3>3, <3>4 DEF SlotKeeps
    <2>2. Twins'
      BY <1>4, <1>5 DEF Twins
    <2>3. \A s \in RootSlots \cup Originals : initial'.slots[s] \in Originals \cup {Null}
      BY <1>4 DEF Untouched
    <2> QED
      BY <1>2, <1>3, <1>5, <1>6, <2>1, <2>2, <2>3 DEF HeapClosing
  <1>9. \A s : InPackets(s)' <=> s \in RootSlots
    <2>1. \A s, x : In(s, <<x>>) <=> s = x
      BY SMTT(30) DEF In
    <2>2. ASSUME NEW s, InPackets(s)' PROVE s \in RootSlots
      <3>1. PICK p \in packets' : In(s, p)
        BY <2>2 DEF InPackets
      <3>2. PICK x \in RootSlots : p = <<x>>
        BY <1>1, <3>1
      <3>3. In(s, <<x>>)
        BY <3>1, <3>2
      <3>4. s = x
        BY <2>1, <3>3
      <3> QED
        BY <3>4
    <2>3. ASSUME NEW s \in RootSlots PROVE InPackets(s)'
      <3>1. <<s>> \in packets' /\ In(s, <<s>>)
        BY <1>1, <2>1
      <3> QED
        BY <3>1 DEF InPackets
    <2> QED
      BY <2>2, <2>3
  <1>10. ASSUME NEW w \in TraceWorkers
         PROVE  AtObject(tracer[w])' /\ \A s : ~HeldBy(tracer'[w], s)
    <2>0. tracer'[w] = Resting
      BY <1>1 DEF Untouched
    <2>3. Resting.pc = "idle" /\ Resting.slots = <<>> /\ Resting.next = <<>>
      BY DEF Resting
    <2>1. tracer'[w].pc = "idle" /\ tracer'[w].slots = <<>> /\ tracer'[w].next = <<>>
      BY <2>0, <2>3
    <2>2. \A s : ~In(s, <<>>)
      BY SMTT(30) DEF In
    <2> QED
      BY <2>1, <2>2 DEF AtObject, HeldBy
  <1>11. \A s \in LiveSlots' : Remembered(s)'
    BY <1>7, <1>9 DEF Remembered
  <1>12. ASSUME NEW o \in Originals PROVE OnTreadmill(o)'
    <2>1. /\ treadmill'.to = {} /\ treadmill'.from = treadmill.to
          /\ treadmill'.collectNursery = treadmill.allocNursery
      BY <1>1 DEF flip, Untouched
    <2>2. CASE layout[o] # "los"
      <3>1. o \notin LargeObjects
        BY <2>2 DEF LargeObjects
      <3> QED
        BY <1>1, <2>1, <2>2, <3>1 DEF OnTreadmill, Untouched
    <2>3. CASE layout[o] = "los"
      <3>1. o \in LargeObjects /\ o \in Addresses
        BY <1>5, <2>3 DEF LargeObjects
      <3>2. InSet(o, marks[o].nursery)'
        BY <1>1, <2>1, <3>1 DEF InSet, Untouched
      <3>3. \A w \in TraceWorkers : ~AtTreadmill(w, o)'
        BY <1>1, RestingOK DEF AtTreadmill, Untouched
      <3> QED
        BY <1>1, <1>6, <2>3, <3>1, <3>2, <3>3 DEF OnTreadmill
    <2> QED
      BY <2>2, <2>3
  <1> QED
    BY <1>7, <1>8, <1>9, <1>10, <1>11, <1>12 DEF Closing

\* The closure has ended: nothing waits and every worker is idle.
Drained == Closing /\ packets = {} /\ \A w \in TraceWorkers : tracer[w].pc = "idle"

\* Then every slot of a survivor refers to a survivor that stands for what the
\* slot referred to.
LEMMA AllSettled ==
    ASSUME TraceInv, Drained
    PROVE  \A s \in LiveSlots :
             /\ slotValue[s] # Null => slotValue[s] \in Addresses /\ Survives(slotValue[s])
             /\ Origin(slotValue[s]) = Was(s)
             /\ slotValue[s] # Null => Origin(slotValue[s]) \in Addresses /\ Origin(slotValue[s]) # Null
  <1> SUFFICES ASSUME NEW s \in LiveSlots
               PROVE  /\ slotValue[s] # Null => slotValue[s] \in Addresses /\ Survives(slotValue[s])
                      /\ Origin(slotValue[s]) = Was(s)
                      /\ slotValue[s] # Null => /\ Origin(slotValue[s]) \in Addresses
                                                /\ Origin(slotValue[s]) # Null
    OBVIOUS
  <1>1. Remembered(s) /\ ~InPackets(s)
    BY DEF Drained, Closing, InPackets
  <1>2. \A w \in TraceWorkers : ~InHand(tracer[w], s) /\ ~Enqueues(tracer[w], s)
    BY DEF Drained, InHand, Enqueues
  <1>3. Settled(s)
    BY <1>1, <1>2 DEF Remembered
  <1>4. SlotKeeps(s)
    BY LiveSlotsAreUsed DEF Drained, Closing, HeapClosing
  <1>5. slotValue[s] # Null => slotValue[s] \in Addresses
    BY <1>4, LiveSlotsAreUsed DEF SlotKeeps
  <1>6. slotValue[s] # Null => initial.origin[slotValue[s]] \in Addresses
    BY <1>5 DEF TraceInv, TraceTypes
  <1> QED
    BY <1>3, <1>4, <1>5, <1>6, LiveSlotsAreUsed DEF Settled, SlotKeeps, Origin

\* Hop by hop, what the roots reach now is what they reached before.
LEMMA SameHops ==
    ASSUME TraceInv, Drained
    PROVE  /\ \A a \in Reached(slotValue) : a \in Addresses /\ Survives(a)
           /\ {initial.origin[a] : a \in Reached(slotValue)} = Reached(initial.slots)
  <1>1. PICK W : Hopping(W, slotValue) /\ Reached(slotValue) = W[NumObjects]
    BY HopsOf
  <1>2. PICK V : Hopping(V, initial.slots) /\ Reached(initial.slots) = V[NumObjects]
    BY HopsOf
  <1>3. /\ NumObjects \in Nat /\ NumObjects \in 0 .. NumObjects /\ 0 \in 0 .. NumObjects
        /\ \A i \in 1 .. NumObjects : i \in 0 .. NumObjects
    BY TracingAssumption, SMTT(30)
  <1> DEFINE Img(X) == {initial.origin[a] : a \in X}
             good == {k \in 0 .. NumObjects :
                        /\ \A a \in W[k] : a \in Addresses /\ Survives(a) /\ a # Null
                        /\ Img(W[k]) = V[k]}
  <1>4. ASSUME NEW s \in RootSlots
        PROVE  /\ slotValue[s] # Null => /\ slotValue[s] \in Addresses /\ Survives(slotValue[s])
                                         /\ initial.origin[slotValue[s]] = initial.slots[s]
               /\ slotValue[s] = Null <=> initial.slots[s] = Null
    <2>1. s \in LiveSlots /\ Was(s) = initial.slots[s]
      BY DEF LiveSlots, Was
    <2> QED
      BY <2>1, AllSettled DEF Origin
  <1>5. ASSUME NEW a \in Addresses, Survives(a)
        PROVE  /\ slotValue[a] # Null =>
                    /\ slotValue[a] \in Addresses /\ Survives(slotValue[a])
                    /\ initial.origin[slotValue[a]] = initial.slots[initial.origin[a]]
               /\ slotValue[a] = Null <=> initial.slots[initial.origin[a]] = Null
    <2>1. a \in LiveSlots /\ Was(a) = initial.slots[initial.origin[a]]
      BY <1>5, LiveSlotsAreUsed DEF Was
    <2> QED
      BY <2>1, AllSettled DEF Origin
  <1>6. 0 \in good
    <2>1. W[0] = FromRoots(slotValue) /\ V[0] = FromRoots(initial.slots)
      BY <1>1, <1>2 DEF Hopping
    <2>2. \A a \in W[0] : a \in Addresses /\ Survives(a) /\ a # Null
      BY <1>4, <2>1 DEF FromRoots
    <2>3. ASSUME NEW x \in Img(W[0]) PROVE x \in V[0]
      <3>1. PICK a \in W[0] : x = initial.origin[a]
        BY <2>3
      <3>2. PICK s \in RootSlots : a = slotValue[s] /\ a # Null
        BY <2>1, <3>1 DEF FromRoots
      <3>3. x = initial.slots[s] /\ x # Null
        BY <1>4, <3>1, <3>2
      <3> QED
        BY <2>1, <3>3 DEF FromRoots
    <2>4. ASSUME NEW x \in V[0] PROVE x \in Img(W[0])
      <3>1. PICK s \in RootSlots : x = initial.slots[s] /\ x # Null
        BY <2>1, <2>4 DEF FromRoots
      <3>2. slotValue[s] # Null /\ initial.origin[slotValue[s]] = x
        BY <1>4, <3>1
      <3>3. slotValue[s] \in W[0]
        BY <2>1, <3>2 DEF FromRoots
      <3> QED
        BY <3>2, <3>3
    <2> QED
      BY <1>3, <2>2, <2>3, <2>4
  <1>7. ASSUME NEW k \in 1 .. NumObjects, k - 1 \in good PROVE k \in good
    <2>1. PICK X : X = W[k - 1]
      OBVIOUS
    <2>2. PICK Y : Y = V[k - 1]
      OBVIOUS
    <2>3. (\A a \in X : a \in Addresses /\ Survives(a) /\ a # Null) /\ Img(X) = Y
      BY <1>7, <2>1, <2>2
    <2>4. W[k] = OneHop(slotValue, X) /\ V[k] = OneHop(initial.slots, Y)
      BY <1>1, <1>2, <1>7, <2>1, <2>2 DEF Hopping
    <2>5. ASSUME NEW a \in W[k] PROVE a \in Addresses /\ Survives(a) /\ a # Null
      <3>1. CASE a \in X
        BY <2>3, <3>1
      <3>2. CASE a \notin X
        <4>1. PICK b \in X : a = slotValue[b] /\ a # Null
          BY <2>4, <2>5, <3>2 DEF OneHop
        <4> QED
          BY <1>5, <2>3, <4>1
      <3> QED
        BY <3>1, <3>2
    <2>6. ASSUME NEW x \in Img(W[k]) PROVE x \in V[k]
      <3>1. PICK a \in W[k] : x = initial.origin[a]
        BY <2>6
      <3>2. CASE a \in X
        BY <2>3, <2>4, <3>1, <3>2 DEF OneHop
      <3>3. CASE a \notin X
        <4>1. PICK b \in X : a = slotValue[b] /\ a # Null
          BY <2>4, <3>1, <3>3 DEF OneHop
        <4>2. b \in Addresses /\ Survives(b) /\ initial.origin[b] \in Y
          BY <2>3, <4>1
        <4>3. x = initial.slots[initial.origin[b]] /\ x # Null
          BY <1>5, <3>1, <4>1, <4>2
        <4> QED
          BY <2>4, <4>2, <4>3 DEF OneHop
      <3> QED
        BY <3>2, <3>3
    <2>7. ASSUME NEW x \in V[k] PROVE x \in Img(W[k])
      <3>1. CASE x \in Y
        BY <2>3, <2>4, <3>1 DEF OneHop
      <3>2. CASE x \notin Y
        <4>1. PICK y \in Y : x = initial.slots[y] /\ x # Null
          BY <2>4, <2>7, <3>2 DEF OneHop
        <4>2. PICK b \in X : y = initial.origin[b]
          BY <2>3, <4>1
        <4>3. /\ b \in Addresses /\ Survives(b) /\ slotValue[b] # Null
              /\ initial.origin[slotValue[b]] = x
          BY <1>5, <2>3, <4>1, <4>2
        <4>4. slotValue[b] \in W[k]
          BY <2>4, <4>2, <4>3 DEF OneHop
        <4> QED
          BY <4>3, <4>4
      <3> QED
        BY <3>1, <3>2
    <2> QED
      BY <1>3, <2>5, <2>6, <2>7
  <1>8. \A k \in 0 .. NumObjects : k \in good
    <2> HIDE DEF good
    <2> QED
      BY <1>3, <1>6, <1>7, UpTo
  <1> QED
    BY <1>1, <1>2, <1>3, <1>8

\* The release keeps every survivor where it is.
LEMMA SurvivorsAreKept ==
    ASSUME TraceInv, Drained, release
    PROVE  /\ \A a \in Addresses : Survives(a) => layout'[a] = layout[a]
           /\ \A a \in Addresses : layout'[a] = layout[a] \/ layout'[a] = "free"
           /\ \A o \in sweep_large_pages : o \in Addresses => layout'[o] = "free"
  <1> DEFINE freed == CopySpaceFrees \cup ImmixSpaceFrees \cup sweep_large_pages
  <1>1. layout' = [a \in Addresses |-> IF a \in freed THEN "free" ELSE layout[a]]
    BY DEF release
  <1>2. ASSUME NEW a \in Addresses, Survives(a) PROVE a \notin freed
    <2>1. a \notin CopySpaceFrees
      BY <1>2, ClosingFacts DEF CopySpaceFrees, Survives, Drained
    <2>2. a \notin ImmixSpaceFrees
      BY <1>2, Bits DEF ImmixSpaceFrees, Survives
    <2>3. ASSUME a \in sweep_large_pages PROVE FALSE
      <3>1. /\ a \in treadmill.from \cup treadmill.collectNursery
            /\ treadmill.from \subseteq Originals /\ treadmill.collectNursery \subseteq Originals
        BY <2>3, TypesNow DEF sweep_large_pages, collect, collect_nursery, TreadMills
      <3>2. OnTreadmill(a) /\ \A w \in TraceWorkers : ~AtTreadmill(w, a)
        BY <3>1 DEF Drained, Closing, AtTreadmill
      <3>3. layout[a] = "los" /\ marks[a].bit = 1
        BY <1>2, <3>1, <3>2 DEF OnTreadmill, Survives
      <3> QED
        BY <3>1, <3>2, <3>3, Bits DEF OnTreadmill
    <2> QED
      BY <2>1, <2>2, <2>3
  <1>3. \A o \in sweep_large_pages : o \in freed
    OBVIOUS
  <1> HIDE DEF freed
  <1> QED
    BY <1>1, <1>2, <1>3

\* No object has two survivors.
LEMMA OneSurvivor ==
    ASSUME TraceInv, Closing, NEW a \in Addresses, NEW b \in Addresses, Survives(a), Survives(b),
           initial.origin[a] = initial.origin[b]
    PROVE  a = b
  <1>1. \A x \in Addresses : Survives(x) => x \in Originals \/ x \in Copies
    BY DEF Survives, Copies
  <1>2. \A x \in Originals : initial.origin[x] = x
    BY ClosingFacts
  <1>3. \A x \in Copies : ~Survives(initial.origin[x])
    BY DEF Closing, HeapClosing, Twins
  <1>4. \A x, y \in Copies : initial.origin[x] = initial.origin[y] => x = y
    BY DEF TraceInv, Forwarding, CopyIsPointedTo
  <1>5. CASE a \in Originals /\ b \in Originals
    BY <1>2, <1>5
  <1>6. CASE a \in Copies /\ b \in Copies
    BY <1>4, <1>6
  <1>7. CASE a \in Originals /\ b \in Copies
    BY <1>2, <1>3, <1>7
  <1>8. CASE a \in Copies /\ b \in Originals
    <2>1. initial.origin[a] = b
      BY <1>2, <1>8
    <2> QED
      BY <1>3, <1>8, <2>1
  <1> QED
    BY <1>1, <1>5, <1>6, <1>7, <1>8

\* The pause ends (release): the heap is the one it started from.
LEMMA ReleaseIsExact == ASSUME TraceInv, Closing, release PROVE ClosureIsExact'
  <1>1. /\ phase' = "released" /\ UNCHANGED <<slotValue, initial, tracer>>
        /\ treadmill' = [treadmill EXCEPT !.from = {}, !.collectNursery = {}] /\ Drained
    BY DEF release, Drained
  <1>2. treadmill'.to = treadmill.to
    BY <1>1, TypesNow DEF TreadMills
  <1>3. PICK now : now = Reached(slotValue)
    OBVIOUS
  <1>4. PICK before : before = Reached(initial.slots)
    OBVIOUS
  <1>6. /\ \A a \in now : a \in Addresses /\ Survives(a) /\ a # Null
        /\ {initial.origin[a] : a \in now} = before
    BY <1>1, <1>3, <1>4, SameHops, LiveSlotsAreUsed
  <1>7. \A a \in now : layout'[a] \notin {"free", "unused"}
    <2>1. \A a \in now : layout'[a] = layout[a] /\ Survives(a)
      BY <1>1, <1>6, SurvivorsAreKept
    <2> QED
      BY <2>1 DEF Survives
  <1>8. \A s \in LiveSlots : Origin(slotValue[s]) = Was(s)
    BY <1>1, AllSettled
  <1>9. \A s \in RootSlots : Origin(slotValue[s]) = initial.slots[s]
    <2>1. \A s \in RootSlots : s \in LiveSlots /\ Was(s) = initial.slots[s]
      BY DEF LiveSlots, Was
    <2> QED
      BY <1>8, <2>1
  <1>10. \A a \in now : Origin(slotValue[a]) = initial.slots[initial.origin[a]]
    <2>1. \A a \in now : a \in LiveSlots /\ Was(a) = initial.slots[initial.origin[a]]
      BY <1>6, LiveSlotsAreUsed DEF Was
    <2> QED
      BY <1>8, <2>1
  <1>11. \A a, b \in now : initial.origin[a] = initial.origin[b] => a = b
    BY <1>1, <1>6, OneSurvivor DEF Drained
  <1>12. treadmill.to = LargeObjects' \cap before
    <2>1. \A o \in Originals : /\ OnTreadmill(o) /\ \A w \in TraceWorkers : ~AtTreadmill(w, o)
                               /\ o \in Addresses /\ initial.origin[o] = o
                               /\ marks[o].nursery \in BOOLEAN
      BY <1>1, LiveSlotsAreUsed, ClosingFacts, TypesNow DEF Drained, Closing, AtTreadmill, Marks
    <2>2. ASSUME NEW o \in treadmill.to PROVE o \in LargeObjects' \cap before
      <3>1. o \in Originals
        BY TypesNow DEF TreadMills
      <3>2. layout[o] = "los" /\ marks[o].bit = 1
        BY <2>1, <2>2, <3>1 DEF OnTreadmill, InSet
      <3>3. Survives(o)
        BY <3>2 DEF Survives
      <3>4. o \in before
        BY <1>4, <2>1, <3>1, <3>3 DEF Closing, HeapClosing
      <3>5. layout'[o] = "los"
        BY <1>1, <2>1, <3>1, <3>2, <3>3, SurvivorsAreKept
      <3> QED
        BY <3>1, <3>4, <3>5 DEF LargeObjects
    <2>3. ASSUME NEW o \in LargeObjects' PROVE o \in treadmill.to
      <3>1. o \in Originals /\ layout'[o] = "los"
        BY <2>3 DEF LargeObjects
      <3>2. layout[o] = "los" /\ o \notin treadmill.from \cup treadmill.collectNursery
        BY <1>1, <2>1, <3>1, SurvivorsAreKept DEF sweep_large_pages, collect, collect_nursery
      <3> QED
        BY <2>1, <3>1, <3>2 DEF OnTreadmill, InSet
    <2> QED
      BY <1>6, <2>2, <2>3
  <1>13. \A a \in now : Origin(a) = initial.origin[a]
    BY <1>6 DEF Origin
  <1>14. IsInjective([a \in now |-> Origin(a)])
    BY <1>11, <1>13 DEF IsInjective
  <1>15. {Origin(a) : a \in now} = before
    BY <1>6, <1>13
  <1>16. \A a \in now : Origin(slotValue[a]) = initial.slots[Origin(a)]
    BY <1>10, <1>13
  <1> DEFINE Now == Reached(slotValue')
             Before == Reached(initial'.slots)
             origin(a) == IF a = Null THEN Null ELSE initial'.origin[a]
  <1>17. Now = now /\ Before = before /\ \A a : origin(a) = Origin(a)
    BY <1>1, <1>3, <1>4 DEF Origin
  <1>18. [a \in Now |-> origin(a)] = [a \in now |-> Origin(a)]
    BY <1>17
  <1>19. {origin(a) : a \in Now} = {Origin(a) : a \in now}
    BY <1>17
  <1>20. /\ \A a \in Now : layout'[a] \notin {"free", "unused"}
         /\ {origin(a) : a \in Now} = Before
         /\ \A s \in RootSlots : origin(slotValue'[s]) = initial'.slots[s]
         /\ \A a \in Now : origin(slotValue'[a]) = initial'.slots[origin(a)]
         /\ IsInjective([a \in Now |-> origin(a)])
         /\ treadmill'.to = LargeObjects' \cap Before
    <2> HIDE DEF Now, Before, origin
    <2> QED
      BY <1>1, <1>2, <1>7, <1>9, <1>12, <1>14, <1>15, <1>16, <1>17, <1>18, <1>19
  <1> QED
    BY <1>20 DEF ClosureIsExact

\* Nothing that the invariant speaks of changes (notify_new_clean_block, or a
\* step of another part of the system).
LEMMA NothingChanges ==
    ASSUME TraceInv, ClosureInv,
           UNCHANGED <<phase, hi, layout, slotValue, initial, fwd, marks, markState, treadmill,
                       packets, tracer>>
    PROVE  ClosureInv'
  <1>1. ASSUME phase = "mutator" PROVE Untouched'
    <2>1. Untouched /\ LargeObjects' = LargeObjects
      BY <1>1 DEF ClosureInv, LargeObjects
    <2> QED
      BY <2>1 DEF Untouched
  <1>2. ASSUME phase = "closure" PROVE Closing'
    <2>1. Closing
      BY <1>2 DEF ClosureInv
    <2>2. UNCHANGED Heap
      BY DEF Heap
    <2>3. Grows /\ HeapClosing' /\ Used' = Used
      BY <1>2, <2>1, <2>2, HeapKeeps
    <2>4. \A a : Survives(a)' <=> Survives(a)
      BY DEF Survives
    <2>5. LiveSlots' = LiveSlots
      BY <2>4 DEF LiveSlots
    <2>6. \A s : InPackets(s)' <=> InPackets(s)
      BY DEF InPackets
    <2>7. ASSUME NEW w \in TraceWorkers PROVE AtObject(tracer[w])'
      BY <2>1, <2>3, OthersKeep
    <2>8. \A w \in TraceWorkers : \A s : HeldBy(tracer'[w], s) => s \in LiveSlots'
      BY <2>1, <2>5 DEF Closing
    <2>9. ASSUME NEW s \in LiveSlots' PROVE Remembered(s)'
      <3>1. Remembered(s) /\ (Settled(s) => Settled(s)')
        BY <2>1, <2>3, <2>5, StaysAlong, LiveSlotsAreUsed DEF Closing
      <3> QED
        BY <2>6, <3>1 DEF Remembered
    <2>10. ASSUME NEW o \in Originals PROVE OnTreadmill(o)'
      <3>1. OnTreadmill(o) /\ \A y : InSet(o, y)' <=> InSet(o, y)
        BY <2>1 DEF Closing, InSet
      <3>2. \A v \in TraceWorkers : /\ AtTreadmill(v, o)' <=> AtTreadmill(v, o)
                                    /\ AtTreadmill(v, o) => tracer'[v].young = tracer[v].young
        BY DEF AtTreadmill
      <3> QED
        BY <3>1, <3>2, OneKeeps
    <2>11. \A s : InPackets(s)' => s \in LiveSlots'
      BY <2>1, <2>5, <2>6 DEF Closing
    <2> QED
      BY <2>3, <2>7, <2>8, <2>9, <2>10, <2>11 DEF Closing
  <1>3. ASSUME phase = "released" PROVE ClosureIsExact'
    <2>1. ClosureIsExact /\ LargeObjects' = LargeObjects
      BY <1>3 DEF ClosureInv, LargeObjects
    <2>2. Reached(slotValue') = Reached(slotValue) /\ Reached(initial'.slots) = Reached(initial.slots)
      OBVIOUS
    <2> QED
      BY <2>1, <2>2 DEF ClosureIsExact
  <1> QED
    BY <1>1, <1>2, <1>3 DEF ClosureInv

\* Every step keeps the invariant of the closure.
LEMMA ClosureInvStep == TraceInv /\ ClosureInv /\ [TracingNext]_traceVars => ClosureInv'
  <1> SUFFICES ASSUME TraceInv, ClosureInv, [TracingNext]_traceVars PROVE ClosureInv'
    OBVIOUS
  <1>1. CASE notify_new_clean_block \/ UNCHANGED traceVars
    <2>1. UNCHANGED <<phase, hi, layout, slotValue, initial, fwd, marks, markState, treadmill,
                      packets, tracer>>
      BY <1>1 DEF notify_new_clean_block, Heap, traceVars
    <2> QED
      BY <2>1, NothingChanges
  <1>2. CASE prepare
    <2>1. phase = "mutator" /\ phase' = "closure"
      BY <1>2 DEF prepare
    <2>2. Closing'
      BY <1>2, <2>1, PrepareCloses DEF ClosureInv
    <2> QED
      BY <2>1, <2>2 DEF ClosureInv
  <1>3. CASE release
    <2>1. phase = "closure" /\ phase' = "released"
      BY <1>3 DEF release
    <2>2. ClosureIsExact'
      BY <1>3, <2>1, ReleaseIsExact DEF ClosureInv
    <2> QED
      BY <2>1, <2>2 DEF ClosureInv
  <1>4. ASSUME NEW w \in TraceWorkers,
               \/ do_work(w) \/ process_slot(w) \/ store(w)
               \/ get_forwarding_status(w) \/ attempt_to_forward(w)
               \/ spin_and_get_forwarded_object(w) \/ CopySpaceTrace(w)
               \/ trace_object_with_opportunistic_copy(w) \/ clear_forwarding_bits(w)
               \/ MarkInPlace(w) \/ copy(w) \/ publish(w) \/ trace_object_without_moving(w)
               \/ ImmortalSpaceTrace(w) \/ is_in_nursery(w) \/ test_and_mark(w) \/ treadmill_copy(w)
        PROVE  ClosureInv'
    <2>1. phase = "closure" /\ phase' = "closure"
      BY <1>4 DEF do_work, process_slot, store, get_forwarding_status, attempt_to_forward,
           spin_and_get_forwarded_object, CopySpaceTrace, trace_object_with_opportunistic_copy,
           clear_forwarding_bits, MarkInPlace, copy, publish, trace_object_without_moving,
           ImmortalSpaceTrace, MarkOrSkip, is_in_nursery, test_and_mark, treadmill_copy, At, Heap
    <2>2. Closing
      BY <2>1 DEF ClosureInv
    <2>3. Closing'
      BY <1>4, <2>2, DoWorkCloses, ProcessSlotCloses, StoreCloses, StatusCloses, AttemptCloses,
         SpinCloses, WinnerCloses, ClearCloses, PinCloses, CopyCloses, PublishCloses, MarkCloses,
         NurseryCloses, LargeMarkCloses, TreadmillCopyCloses
    <2> QED
      BY <2>1, <2>3 DEF ClosureInv
  <1> QED
    BY <1>1, <1>2, <1>3, <1>4 DEF TracingNext

\* For every number of workers, objects and roots, every heap and every packet
\* size: the closure yields the heap it started from.  After release each
\* reachable object is intact memory and the only survivor of the object it
\* stands for, its slot and the roots refer to the survivors of what they
\* referred to, and the treadmill holds exactly the reachable large objects
\* (PlanProcessEdges with the trace_object of copyspace, immixspace, immortalspace
\* and largeobjectspace, and Plan::release).
THEOREM ClosureIsExactThm == TracingSpec => []ClosureIsExact
  <1>1. TracingInit => TraceInv /\ ClosureInv
    BY TraceInvInit, UntouchedInit DEF ClosureInv, TracingInit
  <1>2. TraceInv /\ ClosureInv /\ [TracingNext]_traceVars => (TraceInv /\ ClosureInv)'
    BY TraceInvStep, ClosureInvStep
  <1>3. ClosureInv => ClosureIsExact
    BY DEF ClosureInv, ClosureIsExact
  <1> QED
    BY <1>1, <1>2, <1>3, PTL DEF TracingSpec
=============================================================================
