----------------------------- MODULE MCProgress -----------------------------
(***************************************************************************)
(* The two waits of a mutator thread for TLC: on a lock bit of LXR's write *)
(* barrier, and on collections in the slow path of an allocation.  The     *)
(* models share no state, so a behaviour is one of one of them: part is    *)
(* chosen at the start, and the variables of the other keep one of their   *)
(* initial values.                                                         *)
(***************************************************************************)
EXTENDS FieldLogging, AllocSlowPath

VARIABLE part

\* A start-up setting of AllocSlowPath.
Setting(plan, dynamic, stress, phys, allocations, userGCRequests) ==
  [plan |-> plan, dynamic |-> dynamic, stress |-> stress, phys |-> phys,
   maxAllocs |-> allocations, maxUserGCs |-> userGCRequests,
   minHeap |-> 2, maxHeap |-> IF plan = "generational" THEN 7 ELSE 4]

\* Fixed and dynamic triggers, with and without stress collections and user
\* requests, and address space (3 pages) smaller than the heap.
StartUpSettings ==
  {Setting("full", FALSE, FALSE, 3, 2, 0), Setting("full", FALSE, TRUE, 9, 2, 0),
   Setting("full", TRUE, TRUE, 9, 2, 0), Setting("full", TRUE, TRUE, 9, 1, 1),
   Setting("generational", FALSE, TRUE, 9, 2, 0), Setting("generational", TRUE, FALSE, 9, 2, 0),
   Setting("generational", FALSE, FALSE, 3, 2, 0), Setting("generational", FALSE, FALSE, 3, 1, 2),
   Setting("lxr", FALSE, FALSE, 9, 1, 1)}

Init ==
  /\ part \in {"barrier", "allocation"}
  /\ LoggingInit /\ (part # "barrier" => granule = 1)
  /\ AllocInit /\ (part # "allocation" => setting = Setting("full", FALSE, FALSE, 3, 2, 0))

Next ==
  \/ part = "barrier" /\ LoggingNext /\ UNCHANGED <<part, allocVars>>
  \/ part = "allocation" /\ AllocNext /\ UNCHANGED <<part, loggingVars>>

Spec == Init /\ [][Next]_<<part, loggingVars, allocVars>> /\ LoggingFairness /\ AllocFairness
=============================================================================
