------------------------------ MODULE MCSpaces ------------------------------
(***************************************************************************)
(* The spaces and plans that reclaim memory by tracing, for TLC.  A        *)
(* program is built with one plan, so a behaviour is one of one component: *)
(* part is chosen at the start, and the variables of the others keep the   *)
(* first of their initial values.                                          *)
(***************************************************************************)
EXTENDS ImmixLines, MarkCompact, MallocSpace, MarkSweepBlocks

VARIABLE part

Parts == {"immix", "markcompact", "malloc", "marksweep"}

\* A one-word and a two-word object; the second is aligned to two words.
TwoShapes == << [size |-> 1, align |-> 1], [size |-> 2, align |-> 2] >>

\* The cell sizes of the two bins.
TwoBins == <<1, 2>>

Init ==
  /\ part \in Parts
  /\ LinesInit /\ (part # "immix" => ~ immix.always)
  /\ MarkCompactInit /\ (part # "markcompact" => ~ mono.stress)
  /\ MallocInit
  /\ MarkSweepInit /\ (part # "marksweep" => ~ eager)

Next ==
  \/ part = "immix" /\ LinesNext /\ UNCHANGED <<part, mcVars, mallocVars, msVars>>
  \/ part = "markcompact" /\ MarkCompactNext
       /\ UNCHANGED <<part, immixVars, mallocVars, msVars>>
  \/ part = "malloc" /\ MallocNext /\ UNCHANGED <<part, immixVars, mcVars, msVars>>
  \/ part = "marksweep" /\ MarkSweepNext /\ UNCHANGED <<part, immixVars, mcVars, mallocVars>>

Spec == Init /\ [][Next]_<<part, immixVars, mcVars, mallocVars, msVars>>
=============================================================================
