------------------------------ MODULE MCMpscList ------------------------------
(* MpscList for TLC. *)
EXTENDS MpscList, TLC

CONSTANTS i1, i2, i3, i4

MCItems == {i1, i2, i3, i4}

\* The workers are never compared but for equality.
Symmetry == Permutations(MCItems)
===============================================================================
