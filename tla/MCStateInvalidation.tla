------------------------ MODULE MCStateInvalidation ------------------------
(* StateInvalidation with the symmetry of its model values.                *)
EXTENDS StateInvalidation, TLC

(* Jobs, entries and workers are told apart only by their state; liveness  *)
(* runs do not use the symmetry.                                           *)
Symmetry == Permutations(ActionIds) \cup Permutations(Entries)
              \cup Permutations(Workers)
=============================================================================
