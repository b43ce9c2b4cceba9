--------------------------- MODULE MCProtectedAccess ---------------------------
(* Two concurrent requests of one actor, told apart only by their state. *)
EXTENDS ProtectedAccess, TLC

MCBothModes == {"baseline", "adaptive"}
MCOperations == {"read", "export"}

MCSymmetry == Permutations(Requests) \cup Permutations(Contents)
=============================================================================
