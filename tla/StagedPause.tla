----------------------------- MODULE StagedPause -----------------------------
(***************************************************************************)
(* What the scheduler promises the plans: a collection is a pause of the   *)
(* mutators that goes through stages in order.  The work of a stage is     *)
(* done in that stage; a stage is entered only when the work of all the    *)
(* stages before it is done; the pause ends only when all work is done.    *)
(* Work is added by mutators while they run and by the collection, for the *)
(* stage it is in or a later one.                                          *)
(***************************************************************************)
EXTENDS Naturals

CONSTANTS Stages,      \* the stages of a pause, 1 .. n
          Work         \* the pieces of work

VARIABLES collecting,  \* a collection is in progress
          paused,      \* the mutators are stopped
          stage,       \* the stage of the pause, 0 before the first one
          work         \* the work to do, for each stage

vars == <<collecting, paused, stage, work>>

Init ==
    /\ collecting = FALSE
    /\ paused = FALSE
    /\ stage = 0
    /\ work = [s \in Stages |-> {}]

DoneBefore(t) == \A s \in Stages : s < t => work[s] = {}

Start ==
    /\ ~collecting
    /\ collecting' = TRUE
    /\ UNCHANGED <<paused, stage, work>>

Pause ==
    /\ collecting /\ ~paused
    /\ paused' = TRUE
    /\ UNCHANGED <<collecting, stage, work>>

Enter(t) ==
    /\ paused
    /\ t > stage
    /\ DoneBefore(t)
    /\ stage' = t
    /\ UNCHANGED <<collecting, paused, work>>

Add(s, x) ==
    /\ s >= stage
    /\ x \notin UNION {work[t] : t \in Stages}
    /\ work' = [work EXCEPT ![s] = @ \cup {x}]
    /\ UNCHANGED <<collecting, paused, stage>>

Do(s, x) ==
    /\ paused
    /\ s = stage
    /\ x \in work[s]
    /\ work' = [work EXCEPT ![s] = @ \ {x}]
    /\ UNCHANGED <<collecting, paused, stage>>

Resume ==
    /\ paused
    /\ \A s \in Stages : work[s] = {}
    /\ collecting' = FALSE
    /\ paused' = FALSE
    /\ stage' = 0
    /\ UNCHANGED work

Next ==
    \/ Start \/ Pause \/ Resume
    \/ \E s \in Stages : Enter(s)
    \/ \E s \in Stages, x \in Work : Add(s, x) \/ Do(s, x)

Spec == Init /\ [][Next]_vars
=============================================================================
