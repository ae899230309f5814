----------------------------- MODULE LXRRefCount -----------------------------
(****************************************************************************)
(* Deferred reference counting of the LXR plan in its default build          *)
(* (stop-the-world pauses, no evacuation): the field-logging write barrier,  *)
(* the increment, decrement and cycle-collection stages of an RC pause, the  *)
(* reference counts, the strong counts and the trial-deletion collector.     *)
(*                                                                           *)
(* A slot is <<src, field>>; packets of slots or objects are abstracted to   *)
(* the bag of what they hold, any element of which may be the next one a GC  *)
(* worker handles, so every split into packets and every schedule of the     *)
(* workers is covered.                                                       *)
(****************************************************************************)
EXTENDS Integers, Sequences, FiniteSets, Functions

CONSTANTS
    Objects,          \* addresses an object may occupy
    RootSlots,        \* mutator roots (RootKind::Strong)
    NumFields,        \* reference fields of an object
    Workers,          \* GC workers running ProcessDecs packets
    Null,
    MAX_REF_COUNT,    \* a count that reached it is stuck
    MAX_STRONG_REF_COUNT,
    MaxOps,           \* bound: mutator operations in a behaviour
    MaxPauses         \* bound: pauses in a behaviour

ASSUME CountAssumption ==
    /\ IsFiniteSet(Objects) /\ IsFiniteSet(RootSlots) /\ NumFields \in Nat
    /\ Null \notin Objects /\ RootSlots \cap (Objects \X (1..NumFields)) = {}
    /\ MAX_REF_COUNT \in Nat \ {0, 1}
    /\ MAX_STRONG_REF_COUNT \in Nat \ {0}
    /\ MaxOps \in Nat /\ MaxPauses \in Nat

VARIABLES
    roots,       \* root slot -> object or Null
    fields,      \* object -> sequence of field values
    rc,          \* RC_TABLE
    strong,      \* STRONG_RC_TABLE
    colour,      \* OBJ_COLOR_TABLE
    young,       \* objects allocated since the last pause, not promoted yet
    unlogged,    \* slots whose unlog bit is set: the next write is logged
    incs,        \* slots waiting for their increment, with their edge kind
    decs,        \* object -> number of decrements waiting
    currRoots,   \* object -> root increments of this pause (curr_roots)
    prevRoots,   \* object -> root increments of the last pause (prev_roots)
    cands,       \* s_cycle_candidates
    buffer,      \* memory of cands, what was written beyond its length included
    pushing,     \* worker -> push onto cands in flight: object and length read
    lost,        \* a push onto cands was overwritten by another
    phase,       \* "mutator", then the stages of a pause
    cursor,      \* index into cands of the running CycleCollector loop
    stk,         \* dfs_stack of mark, scan or collect_whites
    blk,         \* dfs_stack of the scan_black that scan called
    ops, pauses

vars == <<roots, fields, rc, strong, colour, young, unlogged, incs, decs, currRoots,
          prevRoots, cands, buffer, pushing, lost, phase, cursor, stk, blk, ops, pauses>>

heapVars == <<roots, fields, young, unlogged, ops>>
bufVars == <<incs, decs, currRoots, prevRoots>>
ccVars == <<colour, cursor, stk, blk>>

Fields == 1..NumFields
Slots == Objects \X Fields
NoPush == [obj |-> Null, len |-> 0]

BLACK_OUT_OF_STACK == 0
BLACK_IN_STACK == 1
GREY == 2
WHITE == 3

in_stack(o) == colour[o] = BLACK_IN_STACK
is_black(o) == colour[o] <= BLACK_IN_STACK

Lesser(a, b) == IF a < b THEN a ELSE b

\* What a slot holds: root slots are the mutator's, the others are fields.
Load(slot) == IF slot \in Slots THEN fields[slot[1]][slot[2]] ELSE roots[slot]

\* The elements of s that are in kept, in their order.
Filter(s, kept) ==
    LET first[i \in 0..Len(s)] ==
            IF i = 0 THEN <<>>
            ELSE IF s[i] \in kept THEN Append(first[i - 1], s[i]) ELSE first[i - 1]
    IN  first[Len(s)]

\* The objects the fields of o refer to, in field order (iterate_fields).
Children(o) == Filter(fields[o], Objects)
EdgesTo(o, x) == Cardinality({f \in Fields : fields[o][f] = x})

\* RefCountHelper: inc and dec leave a stuck count alone, dec a zero one too;
\* incBy and decBy are n of them in a row.
inc(c) == IF c = MAX_REF_COUNT THEN c ELSE c + 1
incBy(c, n) == IF c = MAX_REF_COUNT THEN c ELSE Lesser(c + n, MAX_REF_COUNT)
decBy(c, n) == IF c = MAX_REF_COUNT THEN c ELSE IF c < n THEN 0 ELSE c - n

strong_rc_inc(s) == Lesser(s + 1, MAX_STRONG_REF_COUNT)
strong_rc_dec(s) == IF s = 0 THEN 0 ELSE s - 1
is_dead_or_stuck(o) == rc[o] \in {0, MAX_REF_COUNT}

Plus(bag, x) == [bag EXCEPT ![x] = @ + 1]

-----------------------------------------------------------------------------
Init ==
    /\ roots = [r \in RootSlots |-> Null]
    /\ fields = [o \in Objects |-> [f \in Fields |-> Null]]
    /\ rc = [o \in Objects |-> 0]
    /\ strong = [o \in Objects |-> 0]
    /\ colour = [o \in Objects |-> BLACK_OUT_OF_STACK]
    /\ young = {} /\ unlogged = {} /\ incs = {}
    /\ decs = [o \in Objects |-> 0]
    /\ currRoots = [o \in Objects |-> 0]
    /\ prevRoots = [o \in Objects |-> 0]
    /\ cands = <<>> /\ buffer = <<>> /\ lost = FALSE
    /\ pushing = [w \in Workers |-> NoPush]
    /\ phase = "mutator"
    /\ cursor = 1 /\ stk = <<>> /\ blk = <<>>
    /\ ops = 0 /\ pauses = 0

-----------------------------------------------------------------------------
(* The mutator.  It reaches objects through its roots only.                  *)

Mutate ==
    /\ phase = "mutator" /\ ops < MaxOps
    /\ ops' = ops + 1
    /\ UNCHANGED <<rc, strong, currRoots, prevRoots, cands, buffer, pushing, lost, phase, pauses>>
    /\ UNCHANGED ccVars

\* Memory whose count is zero and that no young object occupies is free; the
\* allocator clears the unlog bits of the lines or blocks it hands out.
Alloc(r, o) ==
    /\ Mutate
    /\ rc[o] = 0 /\ o \notin young
    /\ young' = young \cup {o}
    /\ fields' = [fields EXCEPT ![o] = [f \in Fields |-> Null]]
    /\ unlogged' = {s \in unlogged : s[1] # o}
    /\ roots' = [roots EXCEPT ![r] = o]
    /\ UNCHANGED <<incs, decs>>

\* Mutant: the old value is recorded, the slot is not.
slowDropsSlot(slot, old) ==
    /\ decs' = IF old = Null THEN decs ELSE Plus(decs, old)
    /\ UNCHANGED incs

\* slow: the old value waits for a decrement, the slot for an increment.
slow(slot, old) ==
    /\ decs' = IF old = Null THEN decs ELSE Plus(decs, old)
    /\ incs' = incs \cup {<<"MATURE", slot>>}

\* enqueue_node: only the first write to a slot since it was unlogged logs it.
enqueue_node(slot) ==
    IF slot \in unlogged
    THEN unlogged' = unlogged \ {slot} /\ slow(slot, Load(slot))
    ELSE UNCHANGED <<unlogged, incs, decs>>

ObjectReferenceWrite(r, f, target) ==
    /\ Mutate
    /\ roots[r] # Null
    /\ target \in {roots[q] : q \in RootSlots} \cup {Null}
    /\ enqueue_node(<<roots[r], f>>)
    /\ fields' = [fields EXCEPT ![roots[r]][f] = target]
    /\ UNCHANGED <<roots, young>>

LoadRoot(r, q, f) ==
    /\ Mutate
    /\ roots[q] # Null
    /\ roots' = [roots EXCEPT ![r] = fields[roots[q]][f]]
    /\ UNCHANGED <<fields, young, unlogged, incs, decs>>

DropRoot(r) ==
    /\ Mutate
    /\ roots[r] # Null
    /\ roots' = [roots EXCEPT ![r] = Null]
    /\ UNCHANGED <<fields, young, unlogged, incs, decs>>

-----------------------------------------------------------------------------
(* The pause: increments of the roots and of the logged slots.               *)

\* The decrements of the last pause's roots are queued...
process_prev_roots ==
    /\ decs' = [o \in Objects |-> decs[o] + prevRoots[o]]
    /\ prevRoots' = [o \in Objects |-> 0]

\* ... and RCImmixCollectRootEdges processes the root slots as EDGE_KIND_ROOT.
RootIncs == {<<"ROOT", r>> : r \in RootSlots}

schedule_rc_collection ==
    /\ phase = "mutator" /\ pauses < MaxPauses
    /\ phase' = "incs"
    /\ pauses' = pauses + 1
    /\ process_prev_roots
    /\ incs' = incs \cup RootIncs
    /\ UNCHANGED <<rc, strong, currRoots, cands, buffer, pushing, lost>>
    /\ UNCHANGED <<heapVars, ccVars>>

\* scan_nursery_object, for an object o that just got its first increment: a
\* target already counted is incremented at once, a target with no count yet
\* has its slot queued.
scan_nursery_object(o, counts) ==
    [counts |-> [x \in Objects |->
                    IF counts[x] = 0 THEN 0 ELSE incBy(counts[x], EdgesTo(o, x))],
     new_incs |-> {<<"NURSERY", <<o, f>>>> :
                    f \in {g \in Fields : fields[o][g] # Null /\ counts[fields[o][g]] = 0}}]

\* promote unlogs every field of the object, which stops being young.
promote(o, counts) ==
    LET scanned == scan_nursery_object(o, counts)
    IN  [counts |-> scanned.counts, new_incs |-> scanned.new_incs,
         unlog |-> {o} \X Fields, promoted |-> {o}]

NotPromoted(counts) == [counts |-> counts, new_incs |-> {}, unlog |-> {}, promoted |-> {}]

\* ProcessIncs::inc: the first increment of an object.
IsFirstInc(o) == rc[o] = 0

\* Mutant: every increment is a strong one.
process_inc_and_evacuateAllStrong(kind, o) ==
    LET counts == [rc EXCEPT ![o] = inc(@)]
    IN  [promotion |-> IF rc[o] = 0 THEN promote(o, counts) ELSE NotPromoted(counts),
         strong |-> [strong EXCEPT ![o] = strong_rc_inc(@)]]

\* process_inc_and_evacuate without evacuation: the first increment, and every
\* increment from a root, is a strong one too.
process_inc_and_evacuate(kind, o) ==
    LET first == IsFirstInc(o)
        counts == [rc EXCEPT ![o] = inc(@)]
        strongs == IF first \/ kind = "ROOT"
                   THEN [strong EXCEPT ![o] = strong_rc_inc(@)] ELSE strong
    IN  [promotion |-> IF first THEN promote(o, counts) ELSE NotPromoted(counts),
         strong |-> strongs]

\* unlog_and_load_rc_object: a logged slot becomes loggable again.
Unlogs(kind, slot) == IF kind = "MATURE" THEN {slot} ELSE {}

\* process_slot; ProcessIncs::do_work records the objects of root slots.
process_slot(kind, slot) ==
    LET o == Load(slot)
        done == process_inc_and_evacuate(kind, o)
        after == done.promotion
    IN  /\ phase = "incs"
        /\ <<kind, slot>> \in incs
        /\ IF o = Null
           THEN /\ incs' = incs \ {<<kind, slot>>}
                /\ unlogged' = unlogged \cup Unlogs(kind, slot)
                /\ UNCHANGED <<rc, strong, young, currRoots>>
           ELSE /\ incs' = (incs \ {<<kind, slot>>}) \cup after.new_incs
                /\ unlogged' = unlogged \cup Unlogs(kind, slot) \cup after.unlog
                /\ rc' = after.counts /\ strong' = done.strong
                /\ young' = young \ after.promoted
                /\ currRoots' = IF kind = "ROOT" THEN Plus(currRoots, o) ELSE currRoots
        /\ UNCHANGED <<roots, fields, ops, decs, prevRoots, cands, buffer, pushing, lost, phase, pauses>>
        /\ UNCHANGED ccVars

\* Mutant: the roots of this pause are copied, not swapped.
releaseKeepsRoots ==
    /\ phase = "incs" /\ incs = {}
    /\ phase' = "decs"
    /\ young' = {}
    /\ prevRoots' = currRoots
    /\ UNCHANGED <<roots, fields, unlogged, ops, incs, decs, rc, strong, currRoots>>
    /\ UNCHANGED <<cands, buffer, pushing, lost, pauses, ccVars>>

\* Release, once every increment is done: the nursery that was not promoted is
\* swept, and this pause's roots become the previous ones.
release ==
    /\ phase = "incs" /\ incs = {}
    /\ phase' = "decs"
    /\ young' = {}
    /\ prevRoots' = currRoots
    /\ currRoots' = prevRoots
    /\ UNCHANGED <<roots, fields, unlogged, ops, incs, decs, rc, strong>>
    /\ UNCHANGED <<cands, buffer, pushing, lost, pauses, ccVars>>

-----------------------------------------------------------------------------
(* STWRCDecsAndSweep: decrements, from the roots of the previous pause, from *)
(* overwritten slots and from the fields of objects that died.               *)

\* process_dead_object: the counted, unstuck targets of its fields wait for a
\* decrement of their own.
process_dead_object(o, pending) ==
    [x \in Objects |-> pending[x] + IF is_dead_or_stuck(x) THEN 0 ELSE EdgesTo(o, x)]

\* Vec::push on the candidates, begun: the length is read here.
BeginPush(w, o) == pushing' = [pushing EXCEPT ![w] = [obj |-> o, len |-> Len(cands)]]

process_decs(w, o) ==
    LET pending == [decs EXCEPT ![o] = @ - 1]
    IN  /\ phase = "decs" /\ pushing[w] = NoPush
        /\ decs[o] > 0
        /\ \/ /\ is_dead_or_stuck(o)
              /\ decs' = pending
              /\ UNCHANGED <<rc, strong, pushing>>
           \/ /\ rc[o] = 1 /\ ~is_dead_or_stuck(o)
              /\ rc' = [rc EXCEPT ![o] = 0]
              /\ strong' = [strong EXCEPT ![o] = 0]
              /\ decs' = process_dead_object(o, pending)
              /\ UNCHANGED pushing
           \/ /\ rc[o] > 1 /\ ~is_dead_or_stuck(o)
              /\ rc' = [rc EXCEPT ![o] = @ - 1]
              /\ strong' = [strong EXCEPT ![o] = strong_rc_dec(@)]
              /\ decs' = pending
              /\ IF strong[o] = 1 THEN BeginPush(w, o) ELSE UNCHANGED pushing
        /\ UNCHANGED <<heapVars, incs, currRoots, prevRoots, cands, buffer, lost, phase, pauses, ccVars>>

\* The push ends: the element is written at the length read and the length is
\* that plus one, whatever another worker pushed in between.
FinishPush(w) ==
    LET p == pushing[w]
        written == IF p.len < Len(buffer) THEN [buffer EXCEPT ![p.len + 1] = p.obj]
                   ELSE Append(buffer, p.obj)
    IN  /\ p # NoPush
        /\ buffer' = written
        /\ cands' = SubSeq(written, 1, p.len + 1)
        /\ lost' = (lost \/ p.len < Len(cands))
        /\ pushing' = [pushing EXCEPT ![w] = NoPush]
        /\ UNCHANGED <<heapVars, bufVars, rc, strong, phase, pauses, ccVars>>

DecsDone ==
    /\ phase = "decs"
    /\ \A o \in Objects : decs[o] = 0
    /\ \A w \in Workers : pushing[w] = NoPush
    /\ phase' = "mark" /\ cursor' = 1
    /\ buffer' = <<>>
    /\ UNCHANGED <<heapVars, bufVars, rc, strong, cands, pushing, lost, pauses, colour, stk, blk>>

-----------------------------------------------------------------------------
(* CycleCollection: one CycleCollector packet, trial deletion over cands.    *)

Collecting == UNCHANGED <<heapVars, bufVars, buffer, pushing, lost, pauses>>

Top(stack) == stack[Len(stack)]
Pop(stack) == SubSeq(stack, 1, Len(stack) - 1)

should_mark(o) == rc[o] > 0 /\ colour[o] # GREY

\* do_work, first loop: mark from each candidate worth it, drop the others.
MarkCandidate ==
    /\ phase = "mark" /\ stk = <<>> /\ cursor <= Len(cands)
    /\ IF should_mark(cands[cursor])
       THEN stk' = <<cands[cursor]>> /\ cursor' = cursor + 1 /\ UNCHANGED cands
       ELSE /\ cands' = Pop([cands EXCEPT ![cursor] = Top(cands)])   \* swap_remove
            /\ UNCHANGED <<stk, cursor>>
    /\ UNCHANGED <<rc, strong, colour, blk, phase>> /\ Collecting

\* mark: grey what is reached, taking back the counts its fields gave.
mark ==
    LET curr == Top(stk)
    IN  /\ phase = "mark" /\ stk # <<>>
        /\ IF colour[curr] = BLACK_OUT_OF_STACK
           THEN /\ colour' = [colour EXCEPT ![curr] = GREY]
                /\ rc' = [x \in Objects |-> decBy(rc[x], EdgesTo(curr, x))]
                /\ stk' = Pop(stk) \o Children(curr)
           ELSE stk' = Pop(stk) /\ UNCHANGED <<colour, rc>>
        /\ UNCHANGED <<strong, cands, cursor, blk, phase>> /\ Collecting

\* do_work, the loops that follow: scan, then collect, from each candidate left.
NextCandidate ==
    /\ phase \in {"scan", "collect"} /\ stk = <<>> /\ blk = <<>>
    /\ cursor <= Len(cands)
    /\ stk' = <<cands[cursor]>> /\ cursor' = cursor + 1
    /\ UNCHANGED <<rc, strong, colour, blk, cands, phase>> /\ Collecting

\* scan: a grey object with a count left is held from outside.
scan ==
    LET curr == Top(stk)
        grey == colour[curr] = GREY
    IN  /\ phase = "scan" /\ stk # <<>> /\ blk = <<>>
        /\ blk' = IF grey /\ rc[curr] > 0 THEN <<curr>> ELSE <<>>
        /\ IF grey /\ rc[curr] = 0
           THEN /\ colour' = [colour EXCEPT ![curr] = WHITE]
                /\ stk' = Pop(stk) \o Children(curr)
           ELSE stk' = Pop(stk) /\ UNCHANGED colour
        /\ UNCHANGED <<rc, strong, cands, cursor, phase>> /\ Collecting

\* scan_black: give the counts back, strongly along the edges that do not
\* close a cycle of the depth-first search.
scan_black ==
    LET curr == Top(blk)
        forward == {x \in Objects : ~in_stack(x) /\ x # curr}
        base == [strong EXCEPT ![curr] = Lesser(rc[curr], MAX_STRONG_REF_COUNT)]
    IN  /\ phase = "scan" /\ blk # <<>>
        /\ IF is_black(curr)
           THEN /\ colour' = [colour EXCEPT ![curr] = BLACK_OUT_OF_STACK]
                /\ blk' = Pop(blk)
                /\ UNCHANGED <<rc, strong>>
           ELSE /\ colour' = [colour EXCEPT ![curr] = BLACK_IN_STACK]
                /\ rc' = [x \in Objects |-> incBy(rc[x], EdgesTo(curr, x))]
                /\ strong' = [x \in Objects |->
                                IF x \in forward
                                THEN Lesser(base[x] + EdgesTo(curr, x), MAX_STRONG_REF_COUNT)
                                ELSE base[x]]
                /\ blk' = blk \o Filter(Children(curr), forward)
        /\ UNCHANGED <<cands, cursor, stk, phase>> /\ Collecting

\* Mutant: the strong count of a collected object is left behind.
collect_whitesKeepsStrong ==
    LET curr == Top(stk)
    IN  /\ phase = "collect" /\ stk # <<>>
        /\ IF colour[curr] = WHITE
           THEN /\ colour' = [colour EXCEPT ![curr] = BLACK_OUT_OF_STACK]
                /\ stk' = Pop(stk) \o Children(curr)
           ELSE stk' = Pop(stk) /\ UNCHANGED colour
        /\ UNCHANGED <<rc, strong, cands, cursor, blk, phase>> /\ Collecting

\* collect_whites and process_dead_object: a white object's memory is free.
collect_whites ==
    LET curr == Top(stk)
    IN  /\ phase = "collect" /\ stk # <<>>
        /\ IF colour[curr] = WHITE
           THEN /\ colour' = [colour EXCEPT ![curr] = BLACK_OUT_OF_STACK]
                /\ strong' = [strong EXCEPT ![curr] = 0]
                /\ stk' = Pop(stk) \o Children(curr)
           ELSE stk' = Pop(stk) /\ UNCHANGED <<colour, strong>>
        /\ UNCHANGED <<rc, cands, cursor, blk, phase>> /\ Collecting

\* The end of a loop of do_work; after the last one the candidates are
\* cleared, and the pause ends.
LoopDone ==
    /\ phase \in {"mark", "scan", "collect"}
    /\ stk = <<>> /\ blk = <<>> /\ cursor > Len(cands)
    /\ phase' = CASE phase = "mark" -> "scan"
                  [] phase = "scan" -> "collect"
                  [] phase = "collect" -> "mutator"
    /\ cands' = IF phase = "collect" THEN <<>> ELSE cands
    /\ cursor' = 1
    /\ UNCHANGED <<rc, strong, colour, stk, blk>> /\ Collecting

-----------------------------------------------------------------------------
MutatorStep ==
    \/ \E r \in RootSlots, o \in Objects : Alloc(r, o)
    \/ \E r \in RootSlots, f \in Fields, target \in Objects \cup {Null} :
            ObjectReferenceWrite(r, f, target)
    \/ \E r, q \in RootSlots, f \in Fields : LoadRoot(r, q, f)
    \/ \E r \in RootSlots : DropRoot(r)

CycleCollector ==
    MarkCandidate \/ mark \/ NextCandidate \/ scan \/ scan_black \/ collect_whites \/ LoopDone

\* ProcessIncs and ProcessDecs packets, the recursive ones included.
process_incs(packet) == \E p \in packet : process_slot(p[1], p[2])
ProcessIncs == process_incs(incs)
ProcessDecs == \E w \in Workers : (\E o \in Objects : process_decs(w, o)) \/ FinishPush(w)

GCStep == ProcessIncs \/ release \/ ProcessDecs \/ DecsDone \/ CycleCollector

\* No more pauses: the mutator may stop. A pause itself never gets stuck.
Done == phase = "mutator" /\ pauses = MaxPauses /\ UNCHANGED vars

Next == MutatorStep \/ schedule_rc_collection \/ GCStep \/ Done

Spec == Init /\ [][Next]_vars

-----------------------------------------------------------------------------
TypeOK ==
    /\ roots \in [RootSlots -> Objects \cup {Null}]
    /\ fields \in [Objects -> [Fields -> Objects \cup {Null}]]
    /\ rc \in [Objects -> 0..MAX_REF_COUNT]
    /\ strong \in [Objects -> 0..MAX_STRONG_REF_COUNT]
    /\ colour \in [Objects -> BLACK_OUT_OF_STACK..WHITE]
    /\ young \subseteq Objects /\ unlogged \subseteq Slots
    /\ incs \subseteq ({"MATURE", "NURSERY"} \X Slots) \cup ({"ROOT"} \X RootSlots)
    /\ decs \in [Objects -> Nat]
    /\ currRoots \in [Objects -> Nat] /\ prevRoots \in [Objects -> Nat]
    /\ cands \in Seq(Objects) /\ buffer \in Seq(Objects)
    /\ pushing \in [Workers -> [obj : Objects \cup {Null}, len : Nat]]
    /\ lost \in BOOLEAN
    /\ phase \in {"mutator", "incs", "decs", "mark", "scan", "collect"}
    /\ cursor \in Nat /\ stk \in Seq(Objects) /\ blk \in Seq(Objects)
    /\ ops \in 0..MaxOps /\ pauses \in 0..MaxPauses

-----------------------------------------------------------------------------
(* Properties.                                                               *)

ReachableFrom(set) ==
    LET within[n \in 0..Cardinality(Objects)] ==
            IF n = 0 THEN set
            ELSE within[n - 1] \cup
                 {x \in Objects : \E o \in within[n - 1], f \in Fields : fields[o][f] = x}
    IN  within[Cardinality(Objects)]

RootObjects == {roots[r] : r \in RootSlots} \ {Null}
Live == ReachableFrom(RootObjects)
Stuck == {o \in Objects : rc[o] = MAX_REF_COUNT}

\* Whatever the mutator can reach is never free: it is young or counted, and
\* the cycle collector never frees it (process_decs, collect_whites and the
\* nursery sweep of release only reclaim unreachable memory).
LiveObjectsAreHeld ==
    \A o \in Live :
        /\ phase \in {"mutator", "incs", "decs"} => o \in young \/ rc[o] > 0
        /\ phase = "collect" => rc[o] > 0 /\ colour[o] # WHITE

\* Objects whose fields have been counted: counted themselves, or trial-deleted
\* to zero by mark and still on its stack.
Counted(o) == is_black(o) /\ (rc[o] > 0 \/ (phase = "mark" /\ o \in Range(stk)))
Pending(o, f) == \E p \in incs : p[2] = <<o, f>>

\* A count that is not stuck is exact at every step of ProcessIncs, ProcessDecs
\* and CycleCollector: the counted slots that hold the object, plus the
\* decrements and root decrements still owed to it.  In particular no pending
\* decrement ever finds its object dead.
CountsAreExact ==
    \A o \in Objects \ Stuck :
        rc[o] = Cardinality({s \in Slots : /\ Counted(s[1]) /\ ~Pending(s[1], s[2])
                                           /\ fields[s[1]][s[2]] = o})
                + decs[o] + currRoots[o] + prevRoots[o]

\* Between pauses the collector leaves no trace: every object is black, and a
\* counted object has a strong count (it will become a candidate when it loses
\* it), unless a racing push lost a candidate.
CollectorLeavesNoTrace ==
    phase = "mutator" =>
        /\ \A o \in Objects : colour[o] = BLACK_OUT_OF_STACK
        /\ ~lost => \A o \in Objects : (rc[o] > 0) <=> (strong[o] > 0)

\* A pause frees all the garbage there is when it starts, cycles included: what
\* is still counted when it ends is reachable from the roots or from a stuck
\* object, unless a racing push lost a candidate.
GarbageIsCollected ==
    [][ (phase = "collect" /\ phase' = "mutator" /\ ~lost) =>
            \A o \in Objects : rc[o] > 0 => o \in ReachableFrom(RootObjects \cup Stuck) ]_vars

\* scan asserts that a grey object has no strong count left
\* (plan/lxr/gc_work.rs:190).
GreyHasNoStrongCount ==
    (phase = "scan" /\ blk = <<>> /\ stk # <<>>) =>
        (colour[Top(stk)] = GREY => strong[Top(stk)] = 0)

\* s_cycle_candidates_mut requires exclusive access of its caller
\* (plan/lxr/global.rs:1336).
CandidatesAreExclusive ==
    \A v, w \in Workers : (pushing[v] # NoPush /\ pushing[w] # NoPush) => v = w
=============================================================================
