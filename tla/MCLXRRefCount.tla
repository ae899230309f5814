--------------------------- MODULE MCLXRRefCount ---------------------------
(* LXRRefCount for TLC: object, root and worker names are interchangeable.   *)
EXTENDS LXRInvariants, TLC

Symmetry == Permutations(Objects) \cup Permutations(RootSlots) \cup Permutations(Workers)
=============================================================================
