------------------------------- MODULE MCPage -------------------------------
(***************************************************************************)
(* Page with the slots as a symmetry set: no property names one of them.   *)
(***************************************************************************)
EXTENDS Page, TLC

Symmetry == Permutations(Slots)
=============================================================================
