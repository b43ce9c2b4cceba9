--------------------------- MODULE ProtectedAccess ---------------------------
(***************************************************************************)
(* A protected request of the tenant API: the audited handler              *)
(* (apps/api/src/app.mjs), the transaction of the repository               *)
(* (repository.mjs) that checks the caller's authority and certificate,    *)
(* spends a step-up proof, asks the policy engine (policy-enforcement.mjs),*)
(* records the decision and reads the rows, and the request timeout that   *)
(* races with it (request-safeguards.mjs).                                 *)
(*                                                                         *)
(* The handler and its transaction are two processes: after a timeout the  *)
(* handler has answered while the transaction still runs.  What an open    *)
(* transaction wrote is in its own record and reaches the tables when it   *)
(* commits; a row it wrote or locked makes the others wait.                *)
(*                                                                         *)
(* One tenant actor with one certificate, whose requests run concurrently. *)
(* Every error of a statement that is not modelled by its cause (a lock or *)
(* statement timeout, the policy engine unreachable, a bundle other than   *)
(* the active one in the engine) is the action Fail: the transaction is    *)
(* rolled back.  Time is a bounded clock; 'changes' bounds what the rest   *)
(* of the system does to the actor.                                        *)
(***************************************************************************)
EXTENDS Integers, FiniteSets

CONSTANTS Requests, Proofs, None,
          Modes,        \* authorization modes of the deployment
          Operations,   \* operations clients ask for
          Contents,     \* request bodies told apart by their hash
          StateAge,     \* REQUEST_STATE_POLICY.maximumStateAgeSeconds
          StaleAfter,   \* staleAfterSeconds of the trust configuration
          ProofLife,    \* STEP_UP_POLICY.proofLifetimeSeconds
          ChallengeLife,\* STEP_UP_POLICY.challengeLifetimeSeconds
          MaxTime, MaxChanges

ASSUME BoundsAssumption ==
  /\ {StateAge, StaleAfter, ProofLife, ChallengeLife, MaxTime} \subseteq Nat \ {0}
  /\ MaxChanges \in Nat
  /\ Modes \subseteq {"baseline", "adaptive"}
  /\ Operations \subseteq {"read", "export", "review"}

VARIABLES
  now,
  mode,         \* the authorization mode the API was built with
  authority,    \* membership of the actor: active, admin role, version
  certificate,  \* inventory row of the presented certificate
  trust,        \* current trust transition: score band, evaluation time
  steps,        \* step-up challenges, each with the proof it was answered by
  receipts,     \* audit.api_sensitive_operation_receipts
  decisions,    \* audit.policy_decision_provenance
  quarantines,  \* audit.security_action_requests
  events,       \* last event of audit.api_request_events per request
  request,      \* what the client asked and what it was answered
  work,         \* the request's database transaction
  changes

tables == <<steps, receipts, decisions, quarantines>>
actor  == <<authority, certificate, trust>>
vars   == <<now, mode, authority, certificate, trust, steps, receipts, decisions,
            quarantines, events, request, work, changes>>

-----------------------------------------------------------------------------
(* Types.                                                                  *)

Bands == {"quarantine", "low", "good"}

Outcomes == {"ALLOW", "DENY", "STEP_UP", "QUARANTINE"}

\* What the policy engine answered, and the age of the trust it saw
Decision == [outcome : Outcomes, trustAge : Int]

\* A row of audit.policy_decision_provenance
Recorded ==
  [outcome : Outcomes, trustAge : Int, version : Nat, certificate : Nat,
   proof : Proofs \cup {None}]

\* A row of audit.api_sensitive_operation_receipts
Receipt == [op : Operations, content : Contents \cup {None}, operation : Requests]

Statuses == {"ok", "error", "timeout"}

Results == {"served", "denied", "unavailable", "conflict"}

Asked ==
  [stage : {"idle", "running", "answered"}, op : Operations \cup {None},
   content : Contents \cup {None}, presents : Proofs \cup {None},
   requestedAt : Nat, status : Statuses \cup {None},
   operation : Requests \cup {None}]

Stages ==
  {"closed", "connect", "begun", "valid", "trust", "policy", "record", "reserve",
   "rows", "committing", "denying"}

Looked == [band : Bands, at : Nat, fresh : BOOLEAN]

Work ==
  [at : Stages, admin : BOOLEAN, version : Nat, certificate : Nat,
   validUntil : Nat, proof : Proofs \cup {None}, trust : Looked \cup {None},
   decision : Decision \cup {None}, operation : Requests \cup {None},
   aborted : BOOLEAN,
   result : Results \cup {None}]

StepUp ==
  [state : {"none", "issued", "verified"}, op : Operations \cup {None},
   at : Nat, verifiedAt : Nat, spentBy : Requests \cup {None}]

\* Where something may be missing, None is not one of the things.
ASSUME NoneAssumption ==
  /\ None \notin Requests \cup Proofs \cup Operations \cup Statuses \cup Results
  /\ None \notin Decision \cup Recorded

-----------------------------------------------------------------------------
(* Routes, roles and the policy.                                           *)

\* exportRecords and reviewMembership take an idempotency key and controls
Sensitive(op) == op \in {"export", "review"}

\* ROLE_ACTION_MATRIX: a sensitive operation belongs to a tenant administrator
RoleEligible(op, admin) == Sensitive(op) => admin

\* resolveTenantContext: tenant, subject and membership are all active
ContextResolved == authority.active

\* The certificate status service accepts an active certificate only.
StatusAccepted == certificate.active

\* Row level security: an inactive actor sees no row, another subject's record
\* only a tenant administrator; the operation is denied when a row is missing.
RowsVisible(op) == authority.active /\ (op = "export" => authority.admin)

\* lookup_current_trust_score: evaluated longer ago than the configuration
\* allows, the score has no value for the policy
Fresh(t) == now - t.at <= StaleAfter

ProofExpires(p) == steps[p].verifiedAt + ProofLife
\* createStepUpChallengeMaterial sets the expiry, get_step_up_challenge checks it
ChallengeOpen(p) == steps[p].state = "issued" /\ now <= steps[p].at + ChallengeLife

\* step_up_proof_valid of the policy: verified before the request came in
ProofAccepted(r, p) ==
  /\ p # None
  /\ steps[p].verifiedAt <= request[r].requestedAt
  /\ request[r].requestedAt <= ProofExpires(p)

\* policy_result: the first rule that applies, for a score that was fresh (or
\* not) when it was looked up
PolicyOutcome(r, t, p) ==
  LET sensitive == Sensitive(request[r].op)
  IN  CASE ~t.fresh                                  -> "DENY"
        [] t.fresh /\ t.band = "quarantine"          -> "QUARANTINE"
        [] t.fresh /\ t.band = "low" /\ sensitive    -> "DENY"
        [] t.fresh /\ t.band = "low" /\ ~sensitive   -> "ALLOW"
        [] t.fresh /\ t.band = "good"                ->
             IF sensitive /\ ~ProofAccepted(r, p) THEN "STEP_UP" ELSE "ALLOW"

-----------------------------------------------------------------------------
(* Transactions.                                                           *)

Idle == [stage |-> "idle", op |-> None, content |-> None, presents |-> None,
         requestedAt |-> 0, status |-> None, operation |-> None]

\* What is kept of a request that got an error: failureDecision and the error
\* handler of the API turn it into 401, 403, 409 or 503, and none of them says
\* more.  The event of a denial is written, or its write fails too.
Refused(r) == [Idle EXCEPT !.stage = "answered", !.status = "error"]
DenialEvent == {"deny", "authenticated"}

Closed == [at |-> "closed", admin |-> FALSE, version |-> 0, certificate |-> 0, validUntil |-> 0,
           proof |-> None, trust |-> None, decision |-> None, operation |-> None,
           aborted |-> FALSE, result |-> None]

\* The transaction is over; its result waits for the handler, if that still
\* waits for it.
Ended(r, result, operation) ==
  IF work[r].aborted THEN Closed
  ELSE [Closed EXCEPT !.result = result, !.operation = operation]

Open(r) == work[r].at # "closed"

\* Nobody waits for what a request that timed out asked.
Forgotten(r) ==
  IF work[r].aborted THEN [request EXCEPT ![r] = [Refused(r) EXCEPT !.status = "timeout"]]
  ELSE request

\* assertFresh in front of every protected query, and throwIfAborted
MayQuery(r) == ~work[r].aborted /\ now < work[r].validUntil

\* identity.lock_current_actor_certificate_status: FOR SHARE until the end
CertificateLocked == \E r \in Requests : Open(r) /\ work[r].validUntil > 0

\* An operator named Bug... is what a plausible mistake would turn the definition
\* after it into; no specification uses it.

\* consumed_at IS NULL, and the row is not locked by an open transaction
BugProofFree(p) == steps[p].state = "verified" /\ steps[p].spentBy = None
ProofFree(p) ==
  /\ steps[p].state = "verified" /\ steps[p].spentBy = None
  /\ \A r \in Requests : work[r].proof # p

ReceiptsFor(op) == {x \in receipts : x.op = op}

\* the unique key makes a second insert wait for the transaction of the first
BugReceiptPending(op) == FALSE
ReceiptPending(op) == \E r \in Requests : Open(r) /\ work[r].operation = r /\ request[r].op = op

Init ==
  /\ now = StaleAfter
  /\ mode \in Modes
  /\ authority = [active |-> TRUE, admin |-> TRUE, version |-> 1]
  /\ certificate = [active |-> TRUE, version |-> 1]
  /\ trust = [band |-> "good", at |-> 0]
  /\ steps = [p \in Proofs |-> [state |-> "none", op |-> None, at |-> 0, verifiedAt |-> 0, spentBy |-> None]]
  /\ receipts = {}
  /\ decisions = [r \in Requests |-> None]
  /\ quarantines = {}
  /\ events = [r \in Requests |-> None]
  /\ request = [r \in Requests |-> Idle]
  /\ work = [r \in Requests |-> Closed]
  /\ changes = 0

-----------------------------------------------------------------------------
(* The audited handler.                                                    *)

\* The gateway identity is accepted and its audit event is written before
\* anything is executed.  The client presents a proof or none; every request
\* for one operation uses the same idempotency key.
ReceiveRequest(r) ==
  /\ request[r].stage = "idle"
  /\ \E op \in Operations, c \in Contents \cup {None}, p \in Proofs \cup {None} :
       /\ p # None => Sensitive(op) /\ steps[p].state = "verified"
       /\ Sensitive(op) <=> c # None
       /\ request' = [request EXCEPT ![r].stage = "running", ![r].op = op, ![r].content = c,
                                     ![r].presents = p, ![r].requestedAt = now]
  /\ events' = [events EXCEPT ![r] = "authenticated"]
  /\ work' = [work EXCEPT ![r].at = "connect"]
  /\ UNCHANGED <<now, mode, actor, tables, changes>>

\* The identity is refused (the refusal is audited) or its audit event cannot
\* be written: nothing is executed.
RefuseRequest(r) ==
  /\ request[r].stage = "idle"
  /\ request' = [request EXCEPT ![r] = Refused(r)]
  /\ events' \in {events, [events EXCEPT ![r] = "deny"]}
  /\ UNCHANGED <<now, mode, actor, tables, work, changes>>

\* The operation ended before the deadline.  The access event is written
\* first; without it the client gets an error whatever the operation did.
BugAnswerRequest(r) ==
  /\ request[r].stage = "running" /\ work[r].result # None
  /\ IF work[r].result = "served"
     THEN /\ events' \in {[events EXCEPT ![r] = "allow"], events}
          /\ request' = [request EXCEPT ![r].stage = "answered", ![r].status = "ok",
                                        ![r].operation = work[r].operation]
     ELSE /\ \E event \in DenialEvent : events' = [events EXCEPT ![r] = event]
          /\ request' = [request EXCEPT ![r] = Refused(r)]
  /\ work' = [work EXCEPT ![r] = Closed]
  /\ UNCHANGED <<now, mode, actor, tables, changes>>
AnswerRequest(r) ==
  /\ request[r].stage = "running" /\ work[r].result # None
  /\ \/ /\ work[r].result = "served"
        /\ events' = [events EXCEPT ![r] = "allow"]
        /\ request' = [request EXCEPT ![r].stage = "answered", ![r].status = "ok",
                                      ![r].operation = work[r].operation]
     \/ /\ work[r].result = "served"
        /\ request' = [request EXCEPT ![r] = Refused(r)]
        /\ UNCHANGED events
     \/ /\ work[r].result # "served"
        /\ \E event \in DenialEvent : events' = [events EXCEPT ![r] = event]
        /\ request' = [request EXCEPT ![r] = Refused(r)]
  /\ work' = [work EXCEPT ![r] = Closed]
  /\ UNCHANGED <<now, mode, actor, tables, changes>>

\* runWithRequestTimeout: the timer aborts the signal and the client is
\* answered, whatever the transaction is doing.
RequestTimeout(r) ==
  /\ request[r].stage = "running" /\ work[r].result = None
  /\ \E event \in DenialEvent : events' = [events EXCEPT ![r] = event]
  /\ request' = [request EXCEPT ![r].stage = "answered", ![r].status = "timeout"]
  /\ work' = [work EXCEPT ![r].aborted = TRUE]
  /\ UNCHANGED <<now, mode, actor, tables, changes>>

-----------------------------------------------------------------------------
(* The transaction: withTenantContext around one operation.                *)

\* A statement failed, was refused or was aborted: roll back.
Fail(r) ==
  /\ Open(r)
  /\ \E result \in {"denied", "unavailable"} :
       work' = [work EXCEPT ![r] = Ended(r, result, None)]
  /\ request' = Forgotten(r)
  /\ UNCHANGED <<now, mode, actor, tables, events, changes>>

\* BEGIN, set_tenant_actor_context and the authority query; resolveTenantContext
OpenTransaction(r) ==
  /\ work[r].at = "connect" /\ ~work[r].aborted
  /\ ContextResolved
  /\ work' = [work EXCEPT ![r].at = "begun", ![r].admin = authority.admin,
                          ![r].version = authority.version]
  /\ UNCHANGED <<now, mode, actor, tables, events, request, changes>>

\* requestStateRevalidator.validate: the row lock is held from here on
ValidateState(r) ==
  /\ work[r].at = "begun" /\ ~work[r].aborted
  /\ authority.active /\ StatusAccepted
  /\ work' = [work EXCEPT ![r].at = "valid", ![r].certificate = certificate.version,
                          ![r].validUntil = now + StateAge]
  /\ UNCHANGED <<now, mode, actor, tables, events, request, changes>>

\* authorizeProtectedOperation up to the policy: the role, and the proof that
\* consume_step_up_proof marks as spent.  The baseline mode has no policy: its
\* authorizer of sensitive operations is asked after the reservation.
Authorize(r) ==
  /\ work[r].at = "valid" /\ MayQuery(r)
  /\ RoleEligible(request[r].op, work[r].admin)
  /\ \/ /\ mode = "baseline"
        /\ work' = [work EXCEPT ![r].at = IF Sensitive(request[r].op) THEN "reserve" ELSE "rows"]
     \/ /\ mode = "adaptive" /\ request[r].presents = None
        /\ work' = [work EXCEPT ![r].at = "trust"]
     \/ /\ mode = "adaptive" /\ request[r].presents # None
        /\ authority.active /\ ProofFree(request[r].presents)
        /\ steps[request[r].presents].op = request[r].op
        /\ now <= ProofExpires(request[r].presents)
        /\ work' = [work EXCEPT ![r].at = "trust", ![r].proof = request[r].presents]
  /\ UNCHANGED <<now, mode, actor, tables, events, request, changes>>

\* normalizeDatabaseRow: the score the actor has, and whether it may be used
TrustView == [band |-> trust.band, at |-> trust.at, fresh |-> Fresh(trust)]

\* trustScoreLookupService.lookup, in a transaction and on a connection of its own
LookupTrust(r) ==
  /\ work[r].at = "trust" /\ ~work[r].aborted
  /\ authority.active
  /\ work' = [work EXCEPT ![r].at = "policy", ![r].trust = TrustView]
  /\ UNCHANGED <<now, mode, actor, tables, events, request, changes>>

\* assertTrustRemainsFresh: the age at the lookup and the time since then
TrustRemainsFresh(t) == t.fresh => now - t.at <= StaleAfter

\* The engine sees the trust as it was looked up; the trust must still be fresh
\* when its answer is there.
PolicyDecides(r) ==
  /\ work[r].at = "policy" /\ ~work[r].aborted
  /\ TrustRemainsFresh(work[r].trust)
  /\ work' = [work EXCEPT ![r].at = "record",
       ![r].decision = [outcome |-> PolicyOutcome(r, work[r].trust, work[r].proof),
                        trustAge |-> now - work[r].trust.at]]
  /\ UNCHANGED <<now, mode, actor, tables, events, request, changes>>

\* createPolicyDecisionProvenance: the decision with the authority, certificate
\* and proof it was taken for
Provenance(r) ==
  IF work[r].decision = None THEN None
  ELSE [outcome |-> work[r].decision.outcome, trustAge |-> work[r].decision.trustAge,
        version |-> work[r].version, certificate |-> work[r].certificate,
        proof |-> work[r].proof]

\* audit.record_policy_decision_provenance: refused when the actor or a version
\* in the decision is no longer current.  A denial and a quarantine (with its
\* action request) are committed, an allowed operation goes on.
RecordDecision(r) ==
  /\ work[r].at = "record" /\ MayQuery(r)
  /\ authority.active /\ authority.version = Provenance(r).version
  /\ certificate.version = Provenance(r).certificate
  /\ work' = [work EXCEPT ![r].at =
       IF work[r].decision.outcome # "ALLOW" THEN "denying"
       ELSE IF Sensitive(request[r].op) THEN "reserve" ELSE "rows"]
  /\ UNCHANGED <<now, mode, actor, tables, events, request, changes>>

\* audit.reserve_api_sensitive_operation: one receipt per key; a second request
\* with the same content gets the operation of the first
Reserve(r) ==
  /\ work[r].at = "reserve" /\ MayQuery(r)
  /\ ~ReceiptPending(request[r].op)
  /\ \/ /\ ReceiptsFor(request[r].op) = {}
        /\ work' = [work EXCEPT ![r].at = "rows", ![r].operation = r]
     \/ \E known \in ReceiptsFor(request[r].op) :
          work' = IF known.content # request[r].content
                  THEN [work EXCEPT ![r] = Ended(r, "conflict", None)]
                  ELSE [work EXCEPT ![r].at = "rows", ![r].operation = known.operation]
  /\ UNCHANGED <<now, mode, actor, tables, events, request, changes>>

\* The protected query.  COMMIT is sent when the rows are there.
ReadRows(r) ==
  /\ work[r].at = "rows" /\ MayQuery(r)
  /\ RowsVisible(request[r].op)
  /\ work' = [work EXCEPT ![r].at = "committing"]
  /\ UNCHANGED <<now, mode, actor, tables, events, request, changes>>

\* What the transaction wrote becomes visible, all of it.
Written(r) ==
  /\ steps' = IF work[r].proof = None THEN steps
              ELSE [steps EXCEPT ![work[r].proof].spentBy = r]
  /\ receipts' = IF work[r].operation # r THEN receipts
                 ELSE receipts \cup {[op |-> request[r].op, content |-> request[r].content,
                                      operation |-> r]}
  /\ decisions' = [decisions EXCEPT ![r] = Provenance(r)]
  /\ quarantines' = IF work[r].decision # None /\ work[r].decision.outcome = "QUARANTINE"
                    THEN quarantines \cup {r} ELSE quarantines

\* COMMIT of an operation, or of a recorded denial.  It was sent before the
\* timer fired, so a transaction whose request timed out may still commit; the
\* connection may be lost before the confirmation arrives.
Commit(r) ==
  /\ work[r].at \in {"committing", "denying"}
  /\ Written(r)
  /\ \E result \in {IF work[r].at = "committing" THEN "served" ELSE "denied", "unavailable"} :
       work' = [work EXCEPT ![r] = Ended(r, result, work[r].operation)]
  /\ request' = Forgotten(r)
  /\ UNCHANGED <<now, mode, actor, events, changes>>

-----------------------------------------------------------------------------
(* The actor's other calls and the rest of the system.                     *)

\* POST /v1/step-up/challenges: issueStepUpChallenge in a transaction of its own.
\* A mode without a policy has no step-up.
IssueChallenge(p) ==
  /\ mode = "adaptive" /\ ContextResolved /\ StatusAccepted
  /\ steps[p].state = "none"
  /\ RoleEligible("export", authority.admin)
  /\ \E op \in {o \in Operations : Sensitive(o)} :
       steps' = [steps EXCEPT ![p].state = "issued", ![p].op = op, ![p].at = now]
  /\ UNCHANGED <<now, mode, actor, receipts, decisions, quarantines, events, request, work, changes>>

\* POST .../verifications: verifyStepUpChallenge.  The certificate is locked until
\* the end; complete_step_up_challenge does not look at the membership again.
VerifyChallenge(p) ==
  /\ ChallengeOpen(p)
  /\ StatusAccepted
  /\ steps' = [steps EXCEPT ![p].state = "verified", ![p].verifiedAt = now, ![p].at = 0]
  /\ UNCHANGED <<now, mode, actor, receipts, decisions, quarantines, events, request, work, changes>>

Change == changes < MaxChanges /\ changes' = changes + 1

\* Memberships are not locked by a request.
ChangeMembership ==
  /\ Change
  /\ authority' = [authority EXCEPT !.active = ~@, !.version = @ + 1]
  /\ UNCHANGED <<now, mode, certificate, trust, tables, events, request, work>>

\* A role assignment has no version of its own.
RemoveAdminRole ==
  /\ Change /\ authority.admin
  /\ authority' = [authority EXCEPT !.admin = FALSE]
  /\ UNCHANGED <<now, mode, certificate, trust, tables, events, request, work>>

\* Revocation, renewal and expiry update the certificate's row.
EndCertificate ==
  /\ Change /\ certificate.active /\ ~CertificateLocked
  /\ certificate' = [active |-> FALSE, version |-> certificate.version + 1]
  /\ UNCHANGED <<now, mode, authority, trust, tables, events, request, work>>

MoveTrust ==
  /\ Change
  /\ \E band \in Bands : trust' = [band |-> band, at |-> now]
  /\ UNCHANGED <<now, mode, authority, certificate, tables, events, request, work>>

Tick ==
  /\ now < MaxTime /\ now' = now + 1
  /\ UNCHANGED <<mode, actor, tables, events, request, work, changes>>

Handler(r) == ReceiveRequest(r) \/ RefuseRequest(r) \/ AnswerRequest(r) \/ RequestTimeout(r)

Transaction(r) ==
  \/ OpenTransaction(r) \/ ValidateState(r) \/ Authorize(r) \/ LookupTrust(r)
  \/ PolicyDecides(r) \/ RecordDecision(r) \/ Reserve(r) \/ ReadRows(r)
  \/ Commit(r) \/ Fail(r)

Next ==
  \/ \E r \in Requests : Handler(r) \/ Transaction(r)
  \/ \E p \in Proofs : IssueChallenge(p) \/ VerifyChallenge(p)
  \/ ChangeMembership \/ RemoveAdminRole \/ EndCertificate \/ MoveTrust \/ Tick

\* The timer of a request fires.  Once it has, the statement the transaction
\* waits for ends (it has timeouts of its own) and the next one throws.
Fairness ==
  \A r \in Requests :
    /\ WF_vars(RequestTimeout(r) \/ AnswerRequest(r))
    /\ WF_vars(work[r].aborted /\ (Commit(r) \/ Fail(r)))

-----------------------------------------------------------------------------
(* Properties.                                                             *)

\* Every variable holds a value of the kind the code stores there.
TypeOK ==
  /\ now \in Nat /\ mode \in Modes /\ changes \in Nat
  /\ authority \in [active : BOOLEAN, admin : BOOLEAN, version : Nat]
  /\ certificate \in [active : BOOLEAN, version : Nat]
  /\ trust \in [band : Bands, at : Nat]
  /\ steps \in [Proofs -> StepUp]
  /\ receipts \subseteq Receipt
  /\ decisions \in [Requests -> Recorded \cup {None}]
  /\ quarantines \subseteq Requests
  /\ events \in [Requests -> {"authenticated", "allow", "deny", None}]
  /\ request \in [Requests -> Asked]
  /\ work \in [Requests -> Work]

\* A client is told 200 only for work that is accounted for: its audit event
\* is there and, in adaptive mode, the committed decision of this request
\* allows it; a sensitive one has its receipt and, in adaptive mode, the proof
\* it presented is spent on it.
ServedIsAccounted ==
  \A r \in Requests : request[r].status = "ok" =>
    /\ events[r] = "allow"
    /\ mode = "adaptive" => decisions[r] # None /\ decisions[r].outcome = "ALLOW"
    /\ Sensitive(request[r].op) =>
         /\ \E x \in receipts : x.operation = request[r].operation /\ x.content = request[r].content
         /\ mode = "adaptive" => steps[request[r].presents].spentBy = r

\* A step-up proof serves one request: when it is spent, the decision of the
\* request that spent it is on record (a rolled back request leaves the proof
\* unspent), and no other recorded decision names it.
ProofServesOneDecision ==
  \A p \in Proofs :
    /\ steps[p].spentBy # None =>
         decisions[steps[p].spentBy] # None /\ decisions[steps[p].spentBy].proof = p
    /\ \A r \in Requests : decisions[r] # None /\ decisions[r].proof = p => steps[p].spentBy = r

\* Clients that used the same idempotency key and were served got the same
\* operation, for the same request.
OneOperationPerKey ==
  \A q, r \in Requests :
    /\ request[q].status = "ok" /\ request[r].status = "ok"
    /\ Sensitive(request[q].op) /\ request[q].op = request[r].op
    => request[q].operation = request[r].operation /\ request[q].content = request[r].content

\* A recorded decision that allows or quarantines was taken on a trust score no
\* older than the configuration permits, however long the engine took.
DecidedOnFreshTrust ==
  \A r \in Requests : decisions[r] # None /\ decisions[r].outcome # "DENY" =>
    decisions[r].trustAge <= StaleAfter

\* A decision reaches the tables while the certificate it names is active and
\* unchanged: the lifecycle waits for the requests that rely on it.
CertificateHeldToCommit ==
  [][\A r \in Requests : decisions[r] = None /\ decisions'[r] # None =>
       certificate.active /\ certificate.version = decisions'[r].certificate]_vars

\* Every request is answered and its transaction ends, so that a revocation
\* does not wait for ever for the row lock of a request.
RequestEnds ==
  \A r \in Requests : request[r].stage = "running" ~> request[r].stage = "answered" /\ ~Open(r)

\* docs/architecture/request-safeguards.md: a timeout rolls back the transaction.
TimeoutRollsBack ==
  \A r \in Requests :
    request[r].status = "timeout" => decisions[r] = None

Spec == Init /\ [][Next]_vars
FairSpec == Spec /\ Fairness
=============================================================================
