-------------------------- MODULE GovernedRecovery --------------------------
(***************************************************************************)
(* The authorization of a recovery: an administrator's request goes        *)
(* through createGovernedRecoveryService (services/orchestrator/src/       *)
(* governed-recovery.mjs), which loads the target's posture and trust      *)
(* checkpoint, then the active severe evidence, derives the next recovery  *)
(* action with evaluateSecurityActionRecovery (index.mjs), and has         *)
(* orchestration.authorize_security_recovery (migration 038) check it all  *)
(* again in the transaction that records the authorization.  Evaluations   *)
(* of trust, protective actions, evidence and other requests go on between *)
(* these steps.                                                            *)
(*                                                                         *)
(* Simplifications:                                                        *)
(*   - one target; its actions take effect in one step (SecurityActions    *)
(*     has the queue), a recovery only on the posture it was authorized for*)
(*     and before it expires; an issued replacement is a valid one;        *)
(*   - an evaluation of trust is one step, with the observed score as its  *)
(*     candidate (TrustTransitions has the smoothing and the races);       *)
(*   - an administrator has one idempotency key and one request id for each*)
(*     request, sends all repetitions of it alike, and stays administrator;*)
(*   - authorize_security_recovery is one step, at its read of the current *)
(*     transition: an evaluation recorded while it runs comes after it;    *)
(*   - service and database share a clock, whose tick is five minutes: the *)
(*     greatest age of a transition and the lifetime of an authorization.  *)
(***************************************************************************)
EXTENDS SecurityActionState, TrustControls, Sequences

CONSTANTS
  Requests,         \* requests of administrators, by idempotency key
  Resolved,         \* those with a cause-resolution reference
  Proofs,           \* step-up proofs
  Candidates,       \* scores an evaluation may start from
  SourceCounts,     \* numbers of distinct sources behind an evaluation
  Criticals,        \* kinds of critical evidence, or "none"
  InitialPostures,  \* postures the target may have at the start: those the
                    \* service reads (an undefined one is refused on load)
  Explanations,     \* how explanations tell the distinct sources: all that the
                    \* engine writes say their "count"; only the fixture in
                    \* database/tests/verify-governed-security-recovery.sql
                    \* lists their "ids" as well
  MaxVersions,      \* bound: versions of the posture
  MaxEvaluations,   \* bound: evaluations of trust
  MaxTime,          \* bound: last tick
  MaxEvidence,      \* bound: times severe evidence appears
  MaxLost           \* bound: answers that are lost, and crashes

ASSUME RequestsAssumption == Resolved \subseteq Requests
ASSUME InputsAssumption ==
  /\ Candidates \subseteq Scores
  /\ SourceCounts \subseteq Nat \ {0}
  /\ Criticals \subseteq CriticalKinds \cup {"none"}
  /\ InitialPostures \subseteq {p \in Posture : DefinedState(p)}
  /\ Explanations \subseteq {"count", "ids"}
ASSUME BoundsAssumption ==
  /\ MaxVersions \in Nat /\ MaxEvaluations \in Nat /\ MaxTime \in Nat
  /\ MaxEvidence \in Nat /\ MaxLost \in Nat

VARIABLES
  now,            \* the clock
  lost,           \* answers that were lost, and crashes
  postures,       \* the composite postures of the target, by state version
  transitions,    \* trust.subject_trust_transitions of the subject
  evidence,       \* whether severe evidence about the subject is active
  sightings,      \* times severe evidence appeared
  proofs,         \* step-up proofs that are valid and not consumed
  authorizations, \* orchestration.security_recovery_authorizations
  request         \* each request: what the service holds of it

vars == <<now, lost, postures, transitions, evidence, sightings, proofs,
          authorizations, request>>

Transition ==
  [after : Control, kind : Kinds, eligible : BOOLEAN, sources : Nat,
   explanation : Explanations, evaluatedAt : Nat]

Authorization ==
  [request : Requests, type : RecoveryTypes, version : Nat \ {0},
   transition : Nat \ {0}, proof : Proofs, at : Nat]

(* "idle": not sent, or its answer was lost; "loaded": has the context;    *)
(* "eligible": has a recovery action to authorize; "answered" and          *)
(* "refused" are over.  A request keeps the proof it was first sent with.  *)
Phases == {"idle", "loaded", "eligible", "answered", "refused"}

Request ==
  [phase : Phases, proof : Proofs \cup {"unsent"}, at : Nat,
   version : Nat, transition : Nat, type : RecoveryTypes \cup {"none"}]

TypeOK ==
  /\ now \in 0..MaxTime
  /\ lost \in 0..MaxLost
  /\ postures \in Seq({p \in Posture : DefinedState(p)})
  /\ transitions \in Seq(Transition)
  /\ evidence \in BOOLEAN
  /\ sightings \in 0..MaxEvidence
  /\ proofs \subseteq Proofs
  /\ authorizations \in Seq(Authorization)
  /\ request \in [Requests -> Request]

----------------------------------------------------------------------------
(* Helpers *)

Version == Len(postures)
CurrentPosture == postures[Version]
CurrentTransition == Len(transitions)

ControlBefore ==
  IF transitions = <<>> THEN InitialControl
  ELSE transitions[CurrentTransition].after

(* get_security_recovery_context: the checkpoint of a transition, with the *)
(* sources whose ids its explanation lists.                                *)
Checkpoint(t) ==
  [control |-> t.after,
   kind    |-> t.kind,
   streak  |-> IF t.kind = "recovered" THEN RequiredStreak ELSE t.after.streak,
   sources |-> IF t.explanation = "ids" THEN t.sources ELSE 0]

(* The trust a posture asks for: SECURITY_ACTION_RECOVERY_POLICY.          *)
Strict(p) ==
  \/ p.targetCertificate = "revoked"
  \/ p.access = "suspended"
  \/ p.renewal = "blocked"

(* Faulty variants, named Bug..., are what a plausible mistake would turn  *)
(* the definition after them into; no specification uses them.             *)
BugTrustReady(p, checkpoint) ==
  /\ checkpoint.kind = "recovered"
  /\ checkpoint.streak >= RequiredStreak
  /\ IF Strict(p)
     THEN /\ checkpoint.control.band = "high"
          /\ checkpoint.control.score >= RecoveryThreshold("medium")
     ELSE /\ checkpoint.control.band \in {"medium", "high"}
          /\ checkpoint.control.score >= RecoveryThreshold("low")

(* recoveryTrustReady                                                      *)
TrustReady(p, checkpoint) ==
  /\ checkpoint.kind = "recovered"
  /\ checkpoint.streak >= RequiredStreak
  /\ checkpoint.sources >= RequiredSources
  /\ IF Strict(p)
     THEN /\ checkpoint.control.band = "high"
          /\ checkpoint.control.score >= RecoveryThreshold("medium")
     ELSE /\ checkpoint.control.band \in {"medium", "high"}
          /\ checkpoint.control.score >= RecoveryThreshold("low")

(* evaluateSecurityActionRecovery: the next recovery action, or "none".    *)
NextRecovery(p, checkpoint, active, resolved) ==
  IF active \/ ~TrustReady(p, checkpoint)
     \/ (p.targetCertificate = "revoked" /\ ~resolved)
  THEN "none"
  ELSE IF p.targetCertificate = "revoked" /\ p.replacement = "required"
  THEN "issue-replacement-certificate"
  ELSE IF p.access # "normal" \/ p.renewal # "allowed"
  THEN "restore-access" ELSE "none"

(* The trust conditions of authorize_security_recovery, which counts the   *)
(* sources from the explanation's other field.                             *)
TrustAccepted(p, t) ==
  /\ t.kind = "recovered" /\ t.eligible
  /\ t.sources >= RequiredSources
  /\ IF Strict(p)
     THEN t.after.score >= RecoveryThreshold("medium") /\ t.after.band = "high"
     ELSE t.after.score >= RecoveryThreshold("low")
          /\ t.after.band \in {"medium", "high"}

(* Its conditions on the posture and the cause.                            *)
ConditionsAccepted(p, type, resolved) ==
  IF type = "issue-replacement-certificate"
  THEN p.targetCertificate = "revoked" /\ p.replacement = "required"
       /\ resolved
  ELSE /\ p.access # "normal" \/ p.renewal # "allowed"
       /\ p.targetCertificate = "revoked"
            => p.replacement = "issued" /\ resolved

AuthorizationsOf(r) ==
  {i \in DOMAIN authorizations : authorizations[i].request = r}

Update(r, value) == request' = [request EXCEPT ![r] = value]

(* The state version and the transition are those the service evaluated.   *)
StateUnchanged(r) ==
  /\ request[r].version = Version
  /\ request[r].transition = CurrentTransition

BugConsume(r) == UNCHANGED proofs

(* audit.consume_step_up_proof                                             *)
Consume(r) == proofs' = proofs \ {request[r].proof}

(* An authorization under the idempotency key of the request.              *)
FindAuthorization(r) == AuthorizationsOf(r)

(* The conditions of an exact replay: the same target, action, transition  *)
(* and state version as the authorization under the same key.              *)
SameIntent(r, a) ==
  /\ a.type = request[r].type
  /\ a.transition = request[r].transition
  /\ a.version = request[r].version

(* reject_duplicate_recovery_authorization (migration 040)                 *)
AlreadyAuthorized(r) ==
  \E i \in DOMAIN authorizations : SameIntent(r, authorizations[i])

Authorizable(r) ==
  /\ StateUnchanged(r)
  /\ ~AlreadyAuthorized(r)
  /\ LET t == transitions[request[r].transition]
     IN  /\ request[r].at \in t.evaluatedAt..(t.evaluatedAt + 1)
         /\ TrustAccepted(CurrentPosture, t)
  /\ now <= request[r].at + 1
  /\ ConditionsAccepted(CurrentPosture, request[r].type, r \in Resolved)
  /\ request[r].proof \in proofs

----------------------------------------------------------------------------
(* Actions *)

Init ==
  /\ now = 0
  /\ lost = 0
  /\ \E p \in InitialPostures : postures = <<p>>
  /\ transitions = <<>>
  /\ evidence = FALSE
  /\ sightings = 0
  /\ proofs = Proofs
  /\ authorizations = <<>>
  /\ request = [r \in Requests |->
       [phase |-> "idle", proof |-> "unsent", at |-> 0, version |-> 0,
        transition |-> 0, type |-> "none"]]

(* An evaluation of trust is recorded.                                     *)
Evaluate ==
  /\ CurrentTransition < MaxEvaluations
  /\ \E candidate \in Candidates, sources \in SourceCounts,
        explanation \in Explanations, critical \in Criticals :
       LET result == Controlled(ControlBefore, candidate,
                       [cap |-> 100, sources |-> sources,
                        critical |-> critical])
       IN  transitions' = Append(transitions,
             [after |-> [score  |-> result.score, band |-> result.band,
                         streak |-> result.streak],
              kind |-> result.kind, eligible |-> result.eligible,
              sources |-> sources, explanation |-> explanation,
              evaluatedAt |-> now])
  /\ UNCHANGED <<now, lost, postures, evidence, sightings, proofs,
                 authorizations, request>>

(* A protective action takes effect.                                       *)
Protect(type) ==
  /\ Version < MaxVersions
  /\ ~AlreadySatisfied(CurrentPosture, type)
  /\ TransitionDefined(CurrentPosture, type)
  /\ postures' = Append(postures, TransitionState(CurrentPosture, type))
  /\ UNCHANGED <<now, lost, transitions, evidence, sightings, proofs,
                 authorizations, request>>

(* A recovery action takes effect (SecurityActions: claim and acknowledge).*)
Recover(i) ==
  /\ Version < MaxVersions
  /\ authorizations[i].version = Version
  /\ now <= authorizations[i].at + 1
  /\ TransitionDefined(CurrentPosture, authorizations[i].type)
  /\ postures' = Append(postures,
                        TransitionState(CurrentPosture,
                                        authorizations[i].type))
  /\ UNCHANGED <<now, lost, transitions, evidence, sightings, proofs,
                 authorizations, request>>

(* Severe evidence about the subject appears, and ages out.                *)
EvidenceAppears ==
  /\ ~evidence /\ sightings < MaxEvidence
  /\ evidence' = TRUE
  /\ sightings' = sightings + 1
  /\ UNCHANGED <<now, lost, postures, transitions, proofs, authorizations,
                 request>>

EvidenceClears ==
  /\ evidence
  /\ evidence' = FALSE
  /\ UNCHANGED <<now, lost, postures, transitions, sightings, proofs,
                 authorizations, request>>

(* authorize: the service reads its clock and loads the context.  A target *)
(* without a transition has no context.                                    *)
Load(r) ==
  /\ request[r].phase = "idle"
  /\ transitions # <<>>
  /\ \E p \in Proofs :
       /\ request[r].proof \in {"unsent", p}
       /\ Update(r, [phase |-> "loaded", proof |-> p, at |-> now,
                     version |-> Version, transition |-> CurrentTransition,
                     type |-> "none"])
  /\ UNCHANGED <<now, lost, postures, transitions, evidence, sightings,
                 proofs, authorizations>>

(* loadRecoveryContext: the row that was read and, after it, the active    *)
(* severe evidence.                                                        *)
RecoveryContext(r) ==
  [posture    |-> postures[request[r].version],
   checkpoint |-> Checkpoint(transitions[request[r].transition]),
   severe     |-> evidence]

(* It loads the active severe evidence and evaluates.                      *)
EvaluateRecovery(r) ==
  /\ request[r].phase = "loaded"
  /\ LET context == RecoveryContext(r)
         type == NextRecovery(context.posture, context.checkpoint,
                              context.severe, r \in Resolved)
     IN  Update(r, [request[r] EXCEPT !.type = type,
                      !.phase = IF type = "none" THEN "refused"
                                ELSE "eligible"])
  /\ UNCHANGED <<now, lost, postures, transitions, evidence, sightings,
                 proofs, authorizations>>

(* What the caller learns: the answer, or nothing, and sends it again.     *)
Answer(r, phase) ==
  \/ Update(r, [request[r] EXCEPT !.phase = phase]) /\ UNCHANGED lost
  \/ /\ lost < MaxLost /\ lost' = lost + 1
     /\ Update(r, [request[r] EXCEPT !.phase = "idle"])

(* authorizeRecoveryAction: what the request asks to be recorded.          *)
AskedAuthorization(r) ==
  [request |-> r, type |-> request[r].type,
   version |-> request[r].version, transition |-> request[r].transition,
   proof |-> request[r].proof, at |-> request[r].at]

(* authorize_security_recovery records an authorization, enqueues its      *)
(* action and consumes the proof, in one transaction.                      *)
Authorize(r) ==
  /\ request[r].phase = "eligible"
  /\ FindAuthorization(r) = {}
  /\ Authorizable(r)
  /\ Consume(r)
  /\ authorizations' = Append(authorizations, AskedAuthorization(r))
  /\ Answer(r, "answered")
  /\ UNCHANGED <<now, postures, transitions, evidence, sightings>>

(* An exact replay is answered with the authorization it made before.      *)
Replay(r) ==
  /\ request[r].phase = "eligible"
  /\ \E i \in FindAuthorization(r) : SameIntent(r, authorizations[i])
  /\ Answer(r, "answered")
  /\ UNCHANGED <<now, postures, transitions, evidence, sightings, proofs,
                 authorizations>>

(* The function raises: a changed intent, or a condition that fails.       *)
Deny(r) ==
  /\ request[r].phase = "eligible"
  /\ \/ \E i \in FindAuthorization(r) : ~SameIntent(r, authorizations[i])
     \/ FindAuthorization(r) = {} /\ ~Authorizable(r)
  /\ Update(r, [request[r] EXCEPT !.phase = "refused"])
  /\ UNCHANGED <<now, lost, postures, transitions, evidence, sightings,
                 proofs, authorizations>>

(* The service dies, or fails, before it calls the function.               *)
Crash(r) ==
  /\ request[r].phase \in {"loaded", "eligible"}
  /\ lost < MaxLost /\ lost' = lost + 1
  /\ Update(r, [request[r] EXCEPT !.phase = "idle"])
  /\ UNCHANGED <<now, postures, transitions, evidence, sightings, proofs,
                 authorizations>>

(* A proof that was not used expires.                                      *)
ProofExpires ==
  /\ \E p \in proofs : proofs' = proofs \ {p}
  /\ UNCHANGED <<now, lost, postures, transitions, evidence, sightings,
                 authorizations, request>>

Tick ==
  /\ now < MaxTime
  /\ now' = now + 1
  /\ UNCHANGED <<lost, postures, transitions, evidence, sightings, proofs,
                 authorizations, request>>

Serve(r) ==
  \/ Load(r) \/ EvaluateRecovery(r)
  \/ Authorize(r) \/ Replay(r) \/ Deny(r) \/ Crash(r)

Next ==
  \/ Evaluate \/ EvidenceAppears \/ EvidenceClears \/ ProofExpires \/ Tick
  \/ \E type \in ProtectiveTypes : Protect(type)
  \/ \E i \in DOMAIN authorizations : Recover(i)
  \/ \E r \in Requests : Serve(r)

Spec == Init /\ [][Next]_vars

----------------------------------------------------------------------------
(* Properties *)

(* Every recorded authorization rests on the posture of the version it     *)
(* names and on a trust that recovered no more than five minutes before:   *)
(* the last two evaluations up to its transition were both corroborated and*)
(* at the recovery threshold of the band they left, and the trust they     *)
(* ended in suffices for the posture (authorize_security_recovery;         *)
(* docs/architecture/governed-security-recovery.md, "Authorization         *)
(* boundary").                                                             *)
AuthorizationJustified ==
  \A i \in DOMAIN authorizations :
    LET a == authorizations[i]
        p == postures[a.version]
        t == transitions[a.transition]
    IN  /\ t.kind = "recovered"
        /\ a.at - t.evaluatedAt \in 0..1
        /\ a.transition > 1
        /\ \A j \in {a.transition - 1, a.transition} :
             /\ transitions[j].sources >= RequiredSources
             /\ transitions[j].after.score >=
                  RecoveryThreshold(transitions[a.transition - 1].after.band)
        /\ BandSuffices(p, t.after.band)
        /\ RecoveryConditionsMet(p, a.type)

(* What is authorized is what the target and its trust are at that moment, *)
(* although the service read them in an earlier transaction (the state     *)
(* version and the transition it passes to authorize_security_recovery).   *)
AuthorizedOnCurrent ==
  [][\A i \in DOMAIN authorizations' \ DOMAIN authorizations :
       /\ authorizations'[i].version = Version
       /\ authorizations'[i].transition = CurrentTransition]_vars

(* A target that was revoked has normal access again only after two        *)
(* authorizations, of a replacement and then of the restoration, for       *)
(* different postures and with different step-up proofs, neither of them   *)
(* before the revocation (the two-stage recovery after revocation).        *)
TwoStageRecovery ==
  \A v, w \in DOMAIN postures :
    /\ v < w
    /\ postures[v].replacement = "required"
    /\ postures[w].access = "normal"
    => \E i, j \in DOMAIN authorizations :
         /\ authorizations[i].type = "issue-replacement-certificate"
         /\ authorizations[j].type = "restore-access"
         /\ authorizations[i].version \in v..(w - 1)
         /\ authorizations[j].version \in (authorizations[i].version + 1)
                                            ..(w - 1)
         /\ authorizations[i].proof # authorizations[j].proof

(* Requests that were sent again and requests that share a step-up proof   *)
(* make at most one authorization between them (idempotency key and        *)
(* consume_step_up_proof).                                                 *)
AuthorizedOnce ==
  \A i, j \in DOMAIN authorizations :
    \/ authorizations[i].request = authorizations[j].request
    \/ authorizations[i].proof = authorizations[j].proof
    => i = j

(* The service takes the corroboration of a recovery from the ids that an  *)
(* explanation lists, the function from their count: whatever both accept, *)
(* though they read at different times, rests on a transition that lists   *)
(* its sources.  The engine writes no such transition (the theorem         *)
(* EngineRecoversNothing says what follows).                               *)
AuthorizationListsSources ==
  \A i \in DOMAIN authorizations :
    transitions[authorizations[i].transition].explanation = "ids"

(* A recovered, corroborated trust that suffices for a controlled posture  *)
(* makes a recovery eligible, once the cause is resolved and no severe     *)
(* evidence is active.                                                     *)
RecoveredIsEligible ==
  /\ transitions # <<>>
  /\ Strict(CurrentPosture)
  /\ \E type \in RecoveryTypes : RecoveryConditionsMet(CurrentPosture, type)
  /\ LET t == transitions[CurrentTransition]
     IN  t.kind = "recovered" /\ t.after.band = "high"
         /\ t.sources >= RequiredSources
  => NextRecovery(CurrentPosture,
                  Checkpoint(transitions[CurrentTransition]),
                  FALSE, TRUE) # "none"

(* No recovery is authorized while severe evidence is active.              *)
EvidenceBlocksRecovery ==
  [][authorizations' # authorizations => ~evidence]_vars

(* A request that made an authorization, and is sent again because its     *)
(* answer was lost, is not refused.                                        *)
ReplayAnswered ==
  \A r \in Requests :
    AuthorizationsOf(r) # {} => request[r].phase # "refused"
=============================================================================
