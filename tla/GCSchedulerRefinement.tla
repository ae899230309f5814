------------------------ MODULE GCSchedulerRefinement ------------------------
(***************************************************************************)
(* The scheduler implements StagedPause.  A piece of abstract work is a    *)
(* packet of a pause stage from the moment it is added until its do_work   *)
(* returns; the stage of the pause is the latest open bucket.              *)
(***************************************************************************)
EXTENDS GCScheduler

\* The stage the pause is in.
CurrentStage == CHOOSE s \in active : NotBeforeOpen(s)

Pause ==
    INSTANCE StagedPause WITH
        Stages <- STWStages,
        Work <- WorkPackets,
        collecting <- current = GoalGc,
        paused <- in_gc_pause,
        stage <- CurrentStage,
        work <- [s \in STWStages |-> Outstanding(s)]

\* Every behaviour of the scheduler is a behaviour of StagedPause: the
\* collection pauses, goes through its stages in order with the work of a
\* stage done before the next one is entered, and resumes the mutators
\* (on_last_parked, update_buckets and notify_mutators_paused together).
ImplementsStagedPause == Pause!Spec
=============================================================================
