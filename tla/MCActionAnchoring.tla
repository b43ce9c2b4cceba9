-------------------------- MODULE MCActionAnchoring --------------------------
(* ActionAnchoring for TLC: the projectors are interchangeable, in runs that *)
(* check no liveness.                                                        *)
EXTENDS ActionAnchoring, TLC

Symmetry == Permutations(Projectors)
=============================================================================
