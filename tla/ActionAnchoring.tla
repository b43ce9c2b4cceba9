--------------------------- MODULE ActionAnchoring ---------------------------
(***************************************************************************)
(* The audit trail of security actions: what the triggers of migration 039 *)
(* capture, the projector and the verifier of services/audit/src/security- *)
(* action-anchoring.mjs, and the chaincode's answer to the verifier.  The  *)
(* queue (SecurityActions) and the outbox with its worker (AuditOutbox)    *)
(* are here by what they promise: a status changes in one transaction, and *)
(* an enqueued commitment reaches the ledger once and unchanged.           *)
(*                                                                         *)
(* Simplifications:                                                        *)
(*   - all actions share a tenant, a channel and a correlation;            *)
(*   - an event id stands for what the immutable source row says of the    *)
(*     event; a document adds what is looked up: cause and certificate;    *)
(*   - hashing is injective: a commitment is the document it commits to;   *)
(*   - a forged document is well-formed, keeps its event, and differs in    *)
(*     what it says of the certificate;                                    *)
(*   - one decision, and one trust event, per action;                      *)
(*   - events that are ready are projected in any order.                   *)
(***************************************************************************)
EXTENDS Integers, FiniteSets

CONSTANTS
  Actions,      \* action ids
  Types,        \* action types that are requested
  Projectors,   \* running projector processes
  None,         \* no event; nothing loaded
  Forged,       \* what a forged document says of the certificate
  MaxAttempts,  \* bound: attempts of an action
  MaxMishaps    \* bound: rows damaged, recordings lost

RecoveryTypes == {"restore-access", "issue-replacement-certificate"}
CertificateTypes == {"revoke-certificate", "issue-replacement-certificate"}

ASSUME TypesAssumption ==
  Types \subseteq {"suspend-subject", "revoke-certificate"} \cup RecoveryTypes
ASSUME AttemptsAssumption == {MaxAttempts, MaxMishaps} \subseteq Nat

VARIABLES
  action,      \* orchestration.security_actions
  captured,    \* audit.security_action_audit_events
  replacement, \* the certificate that replaces an action's target
  outbox,      \* audit.fabric_commitment_outbox
  channel,     \* the commitments on the channel
  projector,   \* the document each projector is about to record
  verifier,    \* what a verification has loaded, and its verdict
  mishaps      \* faults that happened

anchoringVars ==
  <<action, captured, replacement, outbox, channel, projector, verifier, mishaps>>

ActionKinds == {"requested", "succeeded", "failed"}
CauseKinds == {"decided", "trust"}

Id(kind, a, n) == [kind |-> kind, action |-> a, attempt |-> n]
Ids == {Id("requested", a, 0) : a \in Actions}
         \cup {Id(k, a, n) : k \in {"succeeded", "failed"}, a \in Actions, n \in 1..MaxAttempts}
         \cup {Id(k, a, 0) : k \in CauseKinds \cup {"revoked", "issued"}, a \in Actions}

Document == [event : Ids, cause : Ids \cup {None}, certificate : Ids \cup {None, Forged}]
OutboxRow ==
  [document : Document, commitment : Document, status : {"pending", "committed"}]
ASSUME NoneAssumption == None \notin Ids \cup Document \cup OutboxRow
ASSUME ForgedAssumption == Forged \notin Ids \cup {None}

Tampered(document) == [document EXCEPT !.certificate = Forged]
Genuine(document) == document.certificate # Forged

NoAction == [status |-> "none"]
Verdicts == {"none", "verified", "refused"}
NoVerification == [sources |-> None, records |-> None, promised |-> {}, verdict |-> "none"]

AnchoringTypeOK ==
  /\ action \in [Actions -> {NoAction} \cup [type : Types, attempts : 0..MaxAttempts,
       final : BOOLEAN, status : {"pending", "executing", "succeeded", "failed"}]]
  /\ captured \subseteq Ids
  /\ replacement \in [Actions -> {"none", "active", "ended"}]
  /\ outbox \in [Ids -> OutboxRow \cup {None}]
  /\ channel \in [Ids -> Document \cup {None}]
  /\ projector \in [Projectors -> Document \cup {None}]
  /\ verifier.verdict \in Verdicts /\ verifier.promised \subseteq Document
  /\ mishaps \in 0..MaxMishaps

AnchoringInit ==
  /\ action = [a \in Actions |-> NoAction]
  /\ captured = {}
  /\ replacement = [a \in Actions |-> "none"]
  /\ outbox = [e \in Ids |-> None] /\ channel = [e \in Ids |-> None]
  /\ projector = [p \in Projectors |-> None]
  /\ verifier = NoVerification
  /\ mishaps = 0

Mishap == mishaps < MaxMishaps /\ mishaps' = mishaps + 1

-----------------------------------------------------------------------------
(* The queue and the triggers *)

Exists(a) == action[a] # NoAction
Recovery(a) == action[a].type \in RecoveryTypes
Waiting(a) == Exists(a) /\ ~action[a].final /\ action[a].status \in {"pending", "failed"}

\* capture_security_action_audit_event: an update that leaves the status as it
\* was is not an outcome.
Capture(a, row) ==
  IF row.status \in {"succeeded", "failed"} /\ row.status # action[a].status
  THEN {Id(row.status, a, row.attempts)} ELSE {}

Update(a, row) ==
  /\ action' = [action EXCEPT ![a] = row]
  /\ captured' = captured \cup Capture(a, row)

\* The request of a recovery is captured with its authorization, in the same
\* transaction; any other request with the action.
Request(a, type) ==
  /\ ~Exists(a)
  /\ action' = [action EXCEPT ![a] =
       [type |-> type, attempts |-> 0, final |-> FALSE, status |-> "pending"]]
  /\ captured' = captured \cup {Id("requested", a, 0)}
  /\ UNCHANGED <<replacement, outbox, channel, projector, verifier, mishaps>>

ClaimAction(a) ==
  /\ Waiting(a) /\ action[a].attempts < MaxAttempts
  /\ Update(a, [action[a] EXCEPT !.status = "executing", !.attempts = @ + 1])
  /\ UNCHANGED <<replacement, outbox, channel, projector, verifier, mishaps>>

\* The executor fails, or the lease runs out.
Fail(a) ==
  /\ Exists(a) /\ action[a].status = "executing"
  /\ Update(a, [action[a] EXCEPT !.status = "failed"])
  /\ UNCHANGED <<replacement, outbox, channel, projector, verifier, mishaps>>

\* The replacement is active when it is recorded (migration 038).
Succeed(a) ==
  /\ Exists(a) /\ action[a].status = "executing"
  /\ Update(a, [action[a] EXCEPT !.status = "succeeded", !.final = TRUE])
  /\ replacement' = IF action[a].type = "issue-replacement-certificate"
                    THEN [replacement EXCEPT ![a] = "active"] ELSE replacement
  /\ UNCHANGED <<outbox, channel, projector, verifier, mishaps>>

\* claim_security_action gives up a recovery that the posture outran, whether it
\* was tried before or not, and an untried control that is in force.
Suppress(a) ==
  /\ Waiting(a) /\ action[a].attempts < MaxAttempts
  /\ Recovery(a) \/ action[a].attempts = 0
  /\ Update(a, [action[a] EXCEPT !.status = "failed", !.attempts = @ + 1, !.final = TRUE])
  /\ UNCHANGED <<replacement, outbox, channel, projector, verifier, mishaps>>

\* The replacement is renewed, revoked or expires.
EndReplacement(a) ==
  /\ replacement[a] = "active"
  /\ replacement' = [replacement EXCEPT ![a] = "ended"]
  /\ UNCHANGED <<action, captured, outbox, channel, projector, verifier, mishaps>>

-----------------------------------------------------------------------------
(* The outbox and the ledger *)

Enqueued(e) == outbox[e] # None

NewOutboxRow(document) ==
  [document |-> document, commitment |-> document, status |-> "pending"]

\* The decision, the trust transition and the certificate's event are enqueued
\* by others, at any time after they happened.
EnqueueOther(e) ==
  /\ e.kind \notin ActionKinds /\ Exists(e.action) /\ ~Enqueued(e)
  /\ \/ e.kind = IF Recovery(e.action) THEN "trust" ELSE "decided"
     \/ /\ action[e.action].status = "succeeded"
        /\ <<action[e.action].type, e.kind>> \in
             {<<"revoke-certificate", "revoked">>, <<"issue-replacement-certificate", "issued">>}
  /\ outbox' = [outbox EXCEPT ![e] =
       NewOutboxRow([event |-> e, cause |-> None, certificate |-> None])]
  /\ UNCHANGED <<action, captured, replacement, channel, projector, verifier, mishaps>>

\* The outbox worker, the gateway and CommitCommitment
Deliver(e) ==
  /\ Enqueued(e) /\ outbox[e].status = "pending"
  /\ channel' = [channel EXCEPT ![e] = IF @ = None THEN outbox[e].commitment ELSE @]
  /\ channel'[e] = outbox[e].commitment
  /\ outbox' = [outbox EXCEPT ![e].status = "committed"]
  /\ UNCHANGED <<action, captured, replacement, projector, verifier, mishaps>>

\* A row is damaged off the chain, before or after it is delivered: its document,
\* its document with the commitment to it, or how far it says it got.
Damage(e) ==
  /\ Enqueued(e) /\ Mishap
  /\ LET forged == Tampered(outbox[e].document)
     IN  \E row \in {[outbox[e] EXCEPT !.document = forged],
                     [outbox[e] EXCEPT !.document = forged, !.commitment = forged],
                     [outbox[e] EXCEPT !.status = "committed"]} :
           outbox' = [outbox EXCEPT ![e] = row]
  /\ UNCHANGED <<action, captured, replacement, channel, projector, verifier>>

-----------------------------------------------------------------------------
(* The projector *)

\* The event that explains another: an outcome is explained by its request,
\* which is looked up in what was captured, a request by what led to it, which is
\* looked up in the outbox.
Cause(e) ==
  IF e.kind # "requested" THEN Id("requested", e.action, 0)
  ELSE LET cause == Id(IF Recovery(e.action) THEN "trust" ELSE "decided", e.action, 0)
       IN  IF Enqueued(cause) THEN cause ELSE None

NeedsCertificate(e) == e.kind = "succeeded" /\ action[e.action].type \in CertificateTypes

\* A revocation names its event; a replacement is looked up while it is active.
CertificateEvent(e) ==
  IF ~NeedsCertificate(e) THEN None
  ELSE IF action[e.action].type = "revoke-certificate" THEN Id("revoked", e.action, 0)
  ELSE IF replacement[e.action] = "active" THEN Id("issued", e.action, 0)
  ELSE None

\* An operator named Bug... is what a plausible mistake would turn the definition
\* after it into; no specification uses it.

BugPrerequisites(e) == Cause(e) # None
\* What must be in the outbox before the event
Prerequisites(e) ==
  /\ Cause(e) # None /\ Enqueued(Cause(e))
  /\ NeedsCertificate(e) =>
       CertificateEvent(e) # None /\ Enqueued(CertificateEvent(e))

\* sourceFromRow: the source as a reader sees it now
Source(e) == [event |-> e, cause |-> Cause(e), certificate |-> CertificateEvent(e)]

BugBuildable(source) ==
  /\ source.cause # None
  /\ source.event.kind # "requested" => source.certificate # None
\* buildSecurityActionAuditEvent can make a document of the source.
Buildable(source) ==
  /\ source.cause # None
  /\ NeedsCertificate(source.event) => source.certificate # None

\* loadNext, and the event and its commitment built from it
LoadNext(p) ==
  /\ projector[p] = None
  /\ \E e \in captured :
       /\ ~Enqueued(e) /\ Prerequisites(e) /\ Buildable(Source(e))
       /\ projector' = [projector EXCEPT ![p] = Source(e)]
  /\ UNCHANGED <<action, captured, replacement, outbox, channel, verifier, mishaps>>

\* record_security_action_audit_commitment accepts the document: it looks the
\* prerequisites up again, and keeps what is already there.
Acceptable(document) ==
  /\ Prerequisites(document.event)
  /\ document = Source(document.event)
  /\ Enqueued(document.event) => outbox[document.event].document = document

Record(p) ==
  /\ projector[p] # None /\ Acceptable(projector[p])
  /\ LET e == projector[p].event
     IN  outbox' = [outbox EXCEPT ![e] = IF @ = None THEN NewOutboxRow(projector[p]) ELSE @]
  /\ projector' = [projector EXCEPT ![p] = None]
  /\ UNCHANGED <<action, captured, replacement, channel, verifier, mishaps>>

\* The recording is refused, or fails.
RecordFails(p) ==
  /\ projector[p] # None
  /\ IF Acceptable(projector[p]) THEN Mishap ELSE UNCHANGED mishaps
  /\ projector' = [projector EXCEPT ![p] = None]
  /\ UNCHANGED <<action, captured, replacement, outbox, channel, verifier>>

-----------------------------------------------------------------------------
(* The verifier *)

ActionEvents(records) == {e \in DOMAIN records : e.kind \in ActionKinds}

\* validateCommittedRecord: the commitment is compared with one made of the row's
\* own document.
CommittedRecord(r) == r.status = "committed" /\ r.document = r.commitment

\* verifyCausalLink
CausalLink(source, records) ==
  /\ source.cause \in DOMAIN records
  /\ source.cause.kind =
       IF source.event.kind # "requested" THEN "requested"
       ELSE IF Recovery(source.event.action) THEN "trust" ELSE "decided"

\* verifyCertificateLink
CertificateLink(source, records) ==
  source.certificate # None =>
    /\ source.certificate \in DOMAIN records
    /\ source.certificate.kind =
         IF action[source.event.action].type = "revoke-certificate" THEN "revoked" ELSE "issued"

BugReadsBack(e, records) == TRUE
\* readCommitment of the gateway and ReadCommitment of the chaincode answer with
\* what the channel holds, or with an error.
ReadsBack(e, records) ==
  channel[e] # None /\ channel[e] = records[e].commitment

\* verify: the ledger only grows, so its reads are one with the comparison.
Accepted(sources, records) ==
  /\ sources # {}
  /\ \A e \in DOMAIN records : CommittedRecord(records[e])
  /\ ActionEvents(records) = {s.event : s \in sources}
  /\ \A s \in sources :
       /\ Buildable(s)
       /\ records[s.event].document = s
       /\ CausalLink(s, records) /\ CertificateLink(s, records)
       /\ ReadsBack(s.event, records)

\* list_security_action_audit_expectations
Expectations == {Source(e) : e \in captured}

\* list_security_action_audit_records lists the expectations once more.
Records ==
  LET related == UNION {{e, Cause(e), CertificateEvent(e)} : e \in captured}
  IN  [e \in {d \in related \ {None} : Enqueued(d)} |-> outbox[e]]

\* loadBundle sends two queries at once: either may be answered first.
LoadFirst ==
  /\ verifier.verdict = "none"
  /\ verifier.sources = None /\ verifier.records = None
  /\ \/ verifier' = [verifier EXCEPT !.sources = Expectations]
     \/ verifier' = [verifier EXCEPT !.records = Records]
  /\ UNCHANGED <<action, captured, replacement, outbox, channel, projector, mishaps>>

\* The second answer, and verify
Verify ==
  LET sources == IF verifier.sources = None THEN Expectations ELSE verifier.sources
      records == IF verifier.records = None THEN Records ELSE verifier.records
  IN  /\ verifier.sources # None \/ verifier.records # None
      /\ verifier' = [sources |-> None, records |-> None, promised |-> sources,
                      verdict |-> IF Accepted(sources, records)
                                  THEN "verified" ELSE "refused"]
      /\ UNCHANGED <<action, captured, replacement, outbox, channel, projector, mishaps>>

\* list_fabric_causal_verification_records: whatever is in the outbox
CausalRecords == [e \in {d \in Ids : Enqueued(d)} |-> outbox[e]]

\* verifyLinks of the causal verifier (services/audit/src/verification.mjs).  That a
\* decision rests on its evidence, policy and certificate is taken for granted.
CausalLinks(records) ==
  /\ ActionEvents(records) # {}
  /\ \A e \in DOMAIN records :
       records[e].document.cause \in DOMAIN records \cup {None}
  /\ \A e \in ActionEvents(records) :
       LET decision == Id("decided", e.action, 0)
       IN  decision \in DOMAIN records /\ records[e].document.cause = decision

\* validateDurableRecord: as validateCommittedRecord
DurableRecord(r) == r.status = "committed" /\ r.document = r.commitment

\* createCausalAuditVerifier.verify reads every record back from the channel.
VerifyCausally ==
  /\ verifier = NoVerification
  /\ LET records == CausalRecords
         accepted == /\ \A e \in DOMAIN records :
                          DurableRecord(records[e]) /\ ReadsBack(e, records)
                     /\ CausalLinks(records)
     IN  verifier' = [NoVerification EXCEPT
           !.promised = {records[e].document : e \in ActionEvents(records)},
           !.verdict = IF accepted THEN "verified" ELSE "refused"]
  /\ UNCHANGED <<action, captured, replacement, outbox, channel, projector, mishaps>>

-----------------------------------------------------------------------------
AnchoringNext ==
  \/ \E a \in Actions :
       \/ \E type \in Types : Request(a, type)
       \/ ClaimAction(a) \/ Fail(a) \/ Succeed(a) \/ Suppress(a) \/ EndReplacement(a)
  \/ \E e \in Ids : EnqueueOther(e) \/ Deliver(e) \/ Damage(e)
  \/ \E p \in Projectors : LoadNext(p) \/ Record(p) \/ RecordFails(p)
  \/ LoadFirst \/ Verify \/ VerifyCausally

AnchoringSpec == AnchoringInit /\ [][AnchoringNext]_anchoringVars

\* The projectors are polled, and what is in the outbox is delivered.
AnchoringFairSpec ==
  /\ AnchoringSpec
  /\ \A p \in Projectors :
       WF_anchoringVars(LoadNext(p)) /\ WF_anchoringVars(Record(p) \/ RecordFails(p))
  /\ WF_anchoringVars(\E e \in Ids : Deliver(e))

-----------------------------------------------------------------------------
(* Properties *)

\* However the retries of an action, its claims and its suppression fall, each
\* attempt that an execution closed has one outcome in the audit trail, under the
\* number the queue gave it, and nothing else has: no attempt has two, and none is
\* recorded that did not happen.  (A suppression after a failure: see below.)
AttemptsCaptured ==
  \A a \in Actions : Exists(a) =>
    LET outcomes(n) == {e \in captured : e.action = a /\ e.attempt = n /\ n > 0}
        row == action[a]
        suppressed == row.final /\ row.status = "failed"
    IN  /\ \A n \in 1..MaxAttempts :
             /\ Cardinality(outcomes(n)) <= 1
             /\ outcomes(n) # {} => n <= row.attempts
             /\ n < row.attempts => outcomes(n) = {Id("failed", a, n)}
        /\ row.status \in {"succeeded", "failed"} /\ ~suppressed =>
             outcomes(row.attempts) = {Id(row.status, a, row.attempts)}

\* What the audit trail says of an action can be followed on the ledger's side:
\* whatever is projected by however many projectors names a cause that was enqueued
\* before it, an outcome its request and a request its decision or transition, and a
\* certificate's action the certificate's event.
TrailIsConnected ==
  \A e \in captured : Enqueued(e) /\ Genuine(outbox[e].document) =>
    LET d == outbox[e].document
    IN  /\ d.event = e /\ d.cause # None /\ Enqueued(d.cause)
        /\ d.cause.action = e.action
        /\ d.cause.kind \in IF e.kind = "requested" THEN CauseKinds ELSE {"requested"}
        /\ NeedsCertificate(e) => d.certificate # None /\ Enqueued(d.certificate)

\* A verification that succeeds was right: what the immutable sources say of every
\* event that the action verifier expects, and what the outbox said of every event
\* that the causal verifier found, is on the ledger, although the two queries and
\* the ledger are read at different times, and although rows of the outbox are
\* damaged before and after they are delivered.
VerifiedIsAnchored ==
  verifier.verdict = "verified" =>
    /\ verifier.promised # {}
    /\ \A document \in verifier.promised : channel[document.event] = document

Committed(e) == Enqueued(e) /\ outbox[e].status = "committed"

\* Whatever is captured is anchored in the end, once what it waits for is
\* enqueued, by projectors that fail and whose lookups go stale.
EventuallyAnchored ==
  []<>(\A e \in captured : Prerequisites(e) => Committed(e))

\* "whenever an execution attempt succeeds or fails" (docs/architecture/security-
\* action-audit-anchoring.md, line 3): a recovery that failed and is then given up
\* stays failed, and its last attempt is not captured.
EveryAttemptCaptured ==
  \A a \in Actions : Exists(a) =>
    \A n \in 1..action[a].attempts :
      \/ action[a].status = "executing" /\ n = action[a].attempts
      \/ \E e \in captured : e.action = a /\ e.attempt = n

\* "Projection waits without discarding state when its cause is not yet present"
\* (docs/architecture/security-action-audit-anchoring.md): a success that waits for
\* the event of its replacement waits forever once the replacement has ended.
ReplacementIsAnchored ==
  \A a \in Actions, n \in 1..MaxAttempts :
    (Id("succeeded", a, n) \in captured /\ Enqueued(Id("requested", a, 0))
       /\ Enqueued(Id("issued", a, 0)))
      ~> Committed(Id("succeeded", a, n))

\* The same lookup makes a trail that was verified unverifiable: nothing was lost
\* or changed, only the replacement's state.
VerifiedStaysVerifiable ==
  (\A e \in captured : Committed(e)) => \A e \in captured : Buildable(Source(e))

\* The causal verifier compares the ledger with the outbox alone: of a row that was
\* replaced before it was delivered it verifies what nobody recorded.
VerifiedIsGenuine ==
  verifier.verdict = "verified" => \A document \in verifier.promised : Genuine(document)

\* "Terminal action events name the requested action event" (docs/architecture/
\* causal-audit-verification.md, line 26), which the causal verifier refuses: it
\* wants the decision.
OutcomesPassCausally ==
  LET records == CausalRecords
  IN  (/\ ActionEvents(records) # {}
       /\ \A e \in DOMAIN records : CommittedRecord(records[e]) /\ ReadsBack(e, records)
       /\ \A e \in ActionEvents(records) : ~Recovery(e.action))
      => CausalLinks(records)
=============================================================================
