--------------------------- MODULE MCAuditOutbox ---------------------------
(* AuditOutbox with the symmetry of its model values.                      *)
EXTENDS AuditOutbox, TLC

(* Events, commitments and workers are told apart only by their state;     *)
(* liveness runs do not use the symmetry.                                  *)
Symmetry == Permutations(Events) \cup Permutations(Values)
              \cup Permutations(Workers)
=============================================================================
