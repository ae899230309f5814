---------------------------- MODULE MCCollection ----------------------------
(***************************************************************************)
(* What happens around a pause, for TLC: the loop that opens the work      *)
(* buckets, LXR's sweeping jobs and the lines and unlog bits a sweep       *)
(* leaves, allocation contexts, the copying trace and the statistics.  The *)
(* models share no state, so a behaviour is one of one component: part is  *)
(* chosen at the start, and the variables of the others keep one of their  *)
(* initial values.                                                         *)
(***************************************************************************)
EXTENDS UpdateBucketsLoop, UnlogTable, LazySweepingJobs, MutatorContexts, Tracing, Statistics

VARIABLE part

Parts == {"loop", "unlog", "jobs", "contexts", "trace", "statistics"}

AllPlans == {"NoGC", "SemiSpace", "GenCopy", "GenImmix", "MarkSweep", "Immix", "PageProtect",
             "MarkCompact", "StickyImmix", "LXR"}
TwoBuilds == {{}, {"code_space", "ro_space", "nogc_multi_space"}}

\* Where the two objects of the trace are.
SpacePairs == {<<"copyspace0", "copyspace0">>, <<"copyspace0", "los">>,
               <<"los", "immortal">>, <<"defrag", "block">>}

Init ==
  /\ part \in Parts
  /\ part # "loop" => before = [active |-> {Unconstrained, FirstSTW}, disabled |-> {},
                                full |-> {}, sentinels |-> {}, progress |-> 0]
  /\ part # "jobs" => lazy = FALSE
  /\ part # "contexts" => build = [plan |-> "NoGC", features |-> {}, hi |-> FALSE]
  /\ part # "trace" => /\ layout = [a \in Addresses |-> IF a = 1 THEN "defrag"
                                                        ELSE IF a = 2 THEN "block" ELSE "unused"]
                       /\ slotValue = [s \in RootSlots \cup Addresses |-> Null]
  /\ LoopInit /\ UnlogInit /\ JobsInit /\ ContextsInit /\ TracingInit /\ StatInit

Next ==
  \/ part = "loop" /\ LoopNext
       /\ UNCHANGED <<part, unlogVars, jobVars, ctxVars, traceVars, statVars>>
  \/ part = "unlog" /\ UnlogNext
       /\ UNCHANGED <<part, loopVars, jobVars, ctxVars, traceVars, statVars>>
  \/ part = "jobs" /\ JobsNext
       /\ UNCHANGED <<part, loopVars, unlogVars, ctxVars, traceVars, statVars>>
  \/ part = "contexts" /\ ContextsNext
       /\ UNCHANGED <<part, loopVars, unlogVars, jobVars, traceVars, statVars>>
  \/ part = "trace" /\ TracingNext
       /\ UNCHANGED <<part, loopVars, unlogVars, jobVars, ctxVars, statVars>>
  \/ part = "statistics" /\ StatNext
       /\ UNCHANGED <<part, loopVars, unlogVars, jobVars, ctxVars, traceVars>>

Spec ==
  Init /\ [][Next]_<<part, loopVars, unlogVars, jobVars, ctxVars, traceVars, statVars>>
=============================================================================
