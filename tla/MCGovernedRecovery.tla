------------------------- MODULE MCGovernedRecovery -------------------------
(* GovernedRecovery with scores in points and postures to recover from,    *)
(* and the rules that propose the actions it recovers from.                *)
EXTENDS GovernedRecovery, ActionTriggers, TLC

Medium == Points(60)
FallAndRise == {Points(20), Points(90)}

Suspended == {TransitionState(InitialState, "suspend-subject")}
Revoked == {TransitionState(InitialState, "revoke-certificate")}

(* Scores on both sides of every threshold and ceiling.                    *)
AroundThresholds ==
  {Points(n) : n \in {0, 20, 21, 34, 35, 45, 64, 65, 75, 100}}

(* Two sources, two kinds, a kind that never acts, and an entry too old.   *)
Sightings ==
  {[evidenceId |-> 1, sourceId |-> "s1", kind |-> "device-compromised",
    age |-> 0],
   [evidenceId |-> 2, sourceId |-> "s1", kind |-> "identity-compromised",
    age |-> 300],
   [evidenceId |-> 3, sourceId |-> "s2", kind |-> "identity-compromised",
    age |-> 10],
   [evidenceId |-> 4, sourceId |-> "s2", kind |-> "certificate-revoked",
    age |-> 0],
   [evidenceId |-> 5, sourceId |-> "s3", kind |-> "device-compromised",
    age |-> 301]}

(* Requests and proofs are told apart only by their state.                 *)
Symmetry == Permutations(Requests) \cup Permutations(Proofs)

(* More severe evidence leads to no milder posture (ActionTriggers, what   *)
(* evaluateSecurityActionTriggers proposes), which does not depend on the  *)
(* requests: it is judged before the first evaluation.                     *)
EvidenceNeverWeakens == transitions = <<>> => MoreEvidenceNoWeaker
=============================================================================
