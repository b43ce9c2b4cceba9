------------------------- MODULE MCSecurityActions -------------------------
(***************************************************************************)
(* Model-checking instances of SecurityActions: model values and the       *)
(* symmetry the safety runs use.                                           *)
(***************************************************************************)
EXTENDS SecurityActions, TLC

Symmetry == Permutations(ActionIds) \cup Permutations(Workers)
=============================================================================
