--------------------------- MODULE ActionTriggers ---------------------------
(***************************************************************************)
(* Which security actions a policy decision, a trust transition and severe *)
(* evidence call for: evaluateSecurityActionTriggers of services/          *)
(* orchestrator/src/index.mjs.  The function is pure; it proposes actions  *)
(* and leaves it to the queue to accept and execute them.                  *)
(*                                                                         *)
(* A list of evidence is a set, for its order is lost in the summary.  An  *)
(* entry is about the target and names the component of its kind, or the   *)
(* whole evaluation is refused: only entries that do are described.        *)
(***************************************************************************)
EXTENDS TrustControls, SecurityActionState, FiniteSets

CONSTANTS
  SevereEvidence,  \* the accepted evidence to try: [evidenceId |->,
                   \* sourceId |->, kind |->, age |-> in seconds]
  TriggerScores    \* scores before an evaluation and scores it may come to

PolicyOutcomes == {"ALLOW", "STEP_UP", "DENY", "QUARANTINE"}

(* A decision names a quarantine action exactly when it quarantines.       *)
PolicyDecisions ==
  [outcome : {"QUARANTINE"}, action : QuarantineTypes]
    \cup [outcome : PolicyOutcomes \ {"QUARANTINE"}, action : {"none"}]

MaximumAgeSeconds == 300
ActionableKinds == CriticalKinds \ {"certificate-revoked"}

EvidenceAccepted(severe) ==
  /\ \A e \in severe :
       /\ e.kind \in ActionableKinds
       /\ e.age \in 0..MaximumAgeSeconds
  /\ \A d, e \in severe : d.evidenceId = e.evidenceId => d = e

(* normalizeTrustTransition: a transition is refused unless its band and   *)
(* its critical evidence explain its score.                                *)
TransitionAccepted(t) ==
  /\ (t.kind = "critical-override") <=> (t.critical # "none")
  /\ t.band \in {"high", "medium"} => t.score >= DeteriorationThreshold(t.band)
  /\ t.critical # "none" => /\ t.band = "low"
                            /\ t.score <= ScoreCeiling(t.critical)

(* trustConfirmsSevereEvidence                                             *)
TrustConfirms(t, kinds) ==
  /\ t.band = "low"
  /\ t.kind = "critical-override"
  /\ t.critical \in kinds
  /\ t.score <= ScoreCeiling(t.critical)

Sources(severe) == {e.sourceId : e \in severe}
KindsOf(severe) == {e.kind : e \in severe}

Corroborated(t, severe) ==
  /\ Cardinality(Sources(severe)) >= 2
  /\ Cardinality(KindsOf(severe)) >= 2
  /\ TrustConfirms(t, KindsOf(severe))

\* An operator named Bug... is what a plausible mistake would turn the definition
\* after it into; no specification uses it.

(* Pending evidence that replaces the policy's action.                     *)
BugTriggeredActions(decision, t, severe) ==
  CASE Corroborated(t, severe) -> {"revoke-certificate"}
    [] ~Corroborated(t, severe) /\ severe # {} -> {"block-renewal"}
    [] OTHER -> {decision.action} \ {"none"}

(* The action types: the policy's obligation, which pending evidence adds  *)
(* to and corroborated evidence replaces.                                  *)
TriggeredActions(decision, t, severe) ==
  CASE Corroborated(t, severe) -> {"revoke-certificate"}
    [] ~Corroborated(t, severe) /\ severe # {} ->
         ({decision.action} \ {"none"})
           \cup (IF decision.action = "suspend-subject" THEN {}
                 ELSE {"block-renewal"})
    [] OTHER -> {decision.action} \ {"none"}

-----------------------------------------------------------------------------
(* The transitions the trust controls can hand to the triggers.            *)

TriggerBefores ==
  {before \in [score : TriggerScores, band : Bands,
               streak : 0..(RequiredStreak - 1)] : ControlAccepted(before)}

Produced(before, candidate, critical) ==
  LET after == Controlled(before, candidate,
                 [cap |-> 30, sources |-> 2, critical |-> critical])
  IN  [score |-> after.score, band |-> after.band, kind |-> after.kind,
       critical |-> critical]

ProducedTransitions ==
  {Produced(before, candidate, critical) : before \in TriggerBefores,
     candidate \in TriggerScores, critical \in CriticalKinds \cup {"none"}}

(* The posture after a set of actions; the protective actions it is used   *)
(* for only ever tighten, in any order.                                    *)
After(posture, types) ==
  LET Step(s, type) == IF type \in types THEN TransitionState(s, type) ELSE s
  IN  Step(Step(Step(Step(posture, "restrict-access"), "suspend-subject"),
                "block-renewal"), "revoke-certificate")

AccessRank == [a \in AccessStates |->
  CASE a = "normal" -> 0 [] a = "restricted" -> 1 [] a = "suspended" -> 2]

AtLeastAsStrict(s, p) ==
  /\ AccessRank[s.access] >= AccessRank[p.access]
  /\ p.renewal = "blocked" => s.renewal = "blocked"
  /\ p.targetCertificate = "revoked" => s.targetCertificate = "revoked"

(* Whatever the trust controls hand over is accepted, although each band is *)
(* entered and left at different scores (index.mjs:280-306).  Then more    *)
(* severe evidence never leads to a milder posture than less evidence      *)
(* does, or than the policy's own obligation, for a target whose           *)
(* certificate is not revoked yet; and no evidence revokes a certificate   *)
(* unless two sources, two kinds and the trust of the subject agree        *)
(* (index.mjs:478-534).                                                    *)
MoreEvidenceNoWeaker ==
  \A decision \in PolicyDecisions, t \in ProducedTransitions,
     more \in SUBSET SevereEvidence,
     posture \in {p \in Posture : /\ DefinedState(p)
                                  /\ p.targetCertificate = "active"} :
    EvidenceAccepted(more) =>
      /\ TransitionAccepted(t)
      /\ \A less \in SUBSET more :
           AtLeastAsStrict(
             After(posture, TriggeredActions(decision, t, more)),
             After(posture, TriggeredActions(decision, t, less)))
      /\ "revoke-certificate" \in TriggeredActions(decision, t, more) =>
           /\ t.score <= Points(20)
           /\ \E d, e \in more : /\ d.sourceId # e.sourceId
                                 /\ \E f, g \in more : f.kind # g.kind
=============================================================================
