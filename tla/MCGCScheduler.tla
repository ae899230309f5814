---------------------------- MODULE MCGCScheduler ----------------------------
(* Instances of GCScheduler for TLC. *)
EXTENDS GCSchedulerInvariants, GCSchedulerRefinement, TLC

\* Workers are interchangeable, and so are ordinary packets and mutators.
Symmetry == Permutations(Workers) \cup Permutations(WorkPackets)
               \cup Permutations(Mutators)
=============================================================================
