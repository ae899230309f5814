------------------------------ MODULE MCNursery -----------------------------
(***************************************************************************)
(* Young memory for TLC: the blocks LXR's mutators fill, and the nurseries *)
(* of the generational plans.  The models share no state, so a behaviour   *)
(* is one of one of them: part is chosen at the start, and the variables   *)
(* of the other keep one of their initial values.                          *)
(***************************************************************************)
EXTENDS ImmixBlocks, Generational

VARIABLE part

Init ==
  /\ part \in {"blocks", "generations"}
  /\ BlocksInit
  /\ GenInit /\ (part # "generations" => cycle.plan = "gencopy")

Next ==
  \/ part = "blocks" /\ BlocksNext /\ UNCHANGED <<part, genVars>>
  \/ part = "generations" /\ GenNext /\ UNCHANGED <<part, blockVars>>

Spec == Init /\ [][Next]_<<part, blockVars, genVars>>
=============================================================================
