# TLA+ verification of tenant_trust

tenant_trust is a multi-tenant SaaS platform that closes a loop around its
subjects' certificates: signed evidence becomes trust scores, trust transitions
and request context become policy decisions, decisions and severe evidence
become durable security actions (restrict, suspend, block renewal, revoke,
restore, replace), and their outcomes are invalidated in caches, anchored in a
Fabric ledger and fed back into trust. Nearly all of its guarantees are carried
by PostgreSQL functions that several stateless workers and services call
concurrently, with leases, claim tokens, timeouts and retries. That is what these
modules model.

Paths below are relative to the repository root.

## 1. Inventory

| Part | Code | State | Operations | What is hard | Module |
| --- | --- | --- | --- | --- | --- |
| Security action queue | `services/orchestrator/src/action-orchestration.mjs`, migrations 035, 038, 040, 041 | posture row per (tenant, subject, certificate), action rows, attempt rows, recovery authorizations | enqueue, claim, execute, mark succeeded / failed, recover expired leases | concurrent claims at READ COMMITTED, expired leases with a live worker, lost answers, two implementations of one transition function, recovery against severity precedence | `SecurityActions` |
| State machine and rules | `services/orchestrator/src/index.mjs` | none (pure) | transition, trigger evaluation, recovery evaluation | corroboration, more evidence must not weaken the answer, agreement with the SQL | `SecurityActionState`, `ActionTriggers` |
| Governed recovery | `governed-recovery.mjs`, 038 | authorizations | load context, evaluate, authorize | posture or trust changes between evaluation, authorization and execution | `GovernedRecovery` |
| State invalidation | `security-state-invalidation.mjs`, 037 | outbox and attempts in PostgreSQL; sessions, cache entries and a marker in Redis | queue (trigger), claim, invalidate, complete, fail | effect in Redis and acknowledgement in PostgreSQL are not atomic | `StateInvalidation` |
| Audit outbox and ledger | `services/audit/src/index.mjs`, 030, 032; `chaincode/audit/src/audit-contract.ts`, `apps/api/src/fabric-audit-gateway.mjs` | outbox and transaction attempts; commitments on the channel | enqueue, claim, submit, record, commit, fail | two-phase delivery to a ledger that may commit a transaction whose id was never recorded | `AuditOutbox` |
| Action anchoring and verification | `services/audit/src/security-action-anchoring.mjs`, `verification.mjs`, 039, 034 | captured events, their projections | capture (triggers), project, verify | causes that arrive later, lookups that go stale, verification that reads three moments | `ActionAnchoring` |
| Trust transitions | `services/trust/src`, `packages/trust-model`, 020, 023, 024 | state versions, transitions | store, evaluate, record | optimistic versions, smoothing, hysteresis, exact decimals against rounded ones | `TrustTransitions`, `TrustControls`, `WeightedScore` |
| Evidence ingestion | `services/evidence/src/index.mjs`, `packages/evidence-sources`, 014-018 | sources, keys, receipts, rate windows, encrypted evidence | verify, guard, store, read, erase, rotate | replay across key rotation, window boundaries, context read before the guard | `EvidenceIngestion` |
| Evidence delivery and consumption | `packages/evidence-events`, `packages/messaging`, `services/trust/src/validated-evidence-consumer.mjs`, `services/trust/src/index.mjs`, 019-021 | outbox, stream, effects, staged components | publish, deliver, consume | stalled publishers, duplicates, overlapping handlers, another writer of the state | `EvidenceDelivery` |
| Certificates and their feedback | `packages/certificate-*`, 007-011, 028; `services/trust/src/certificate-lifecycle-feedback.mjs`, 036 | inventory, idempotency keys, lifecycle events, feedback evidence | issue, renew, revoke, expire, validate, publish, feed back | renewal against revocation, issuer and inventory apart, cached verdicts, redelivery | `CertificateLifecycle` |
| Protected API request | `apps/api/src` (`app`, `repository`, `policy-enforcement`, `step-up-authentication`, `request-safeguards`, `request-state`, `request-audit`), 012, 013, 026-029 | challenges and proofs, receipts, decision provenance, access events | authenticate, look up trust, decide, record, reserve, read, commit, answer | a timer that races COMMIT, one-time proofs, concurrent changes of the actor | `ProtectedAccess` |
| Tenancy and versioned registries | 004, 006, 022, 025, `services/trust/src/configuration-management.mjs`, `services/policy/src/policy-bundles.mjs` | tenant, memberships, roles, configurations, bundles, their events | create, activate, roll back, suspend, reactivate, tear down, remove | times of several clocks, checks made before a lock, the last administrator | `TenantLifecycle` |
| Review console | `apps/review-demo` | inventory, trust and audit feed in memory | run scenario, issue, renew, revoke | state shared by personas of two tenants, a decision that changes what it is taken on | `ReviewConsole` |
| Evaluation, simulators, scripts, infrastructure | `packages/evaluation`, `packages/evidence-simulators`, `scripts`, `infra` | | | | not modelled |

Interaction: an accepted envelope enters an outbox whose publisher hands it to
JetStream; the trust service consumes it, stores a state version and records a
transition. The policy service's QUARANTINE decisions reach the queue by a
trigger on `audit.security_action_requests`; severe evidence reaches it through
the severity API; an administrator's recovery reaches it through
`authorize_security_recovery`, which also reads the current trust transition and
consumes a step-up proof. A succeeded suspension or revocation queues a state
invalidation by trigger; every outcome is captured by trigger, projected to the
audit outbox and committed to the ledger. A certificate's lifecycle events reach
the trust service as evidence. All workers are polling loops that claim a row,
act outside the database and report with the token of their claim.

## 2. How the code is modelled

Common conventions, in every module:

- A plpgsql function that a worker calls is one action: PostgreSQL commits it
  as a whole or, when it raises, changes nothing. The exception is
  `claim_security_action`, whose statements are steps of their own at READ
  COMMITTED: each sees what others committed before it, and the row locks it
  holds, `SKIP LOCKED` and a unique index are all that keeps them apart. The
  claim of an invalidation, which an advisory lock of the subject covers but for
  the snapshot of its one `SELECT`, is a step that may have selected from stale
  rows. A transaction of several calls is several actions where something else
  can come between them: the protected request, the ingestion guard, the removal
  of an administrator.
- A worker is a process with a phase of its own. What it read at its claim is
  kept in its record and used later, however stale; its report carries the
  token of its claim, and the database accepts it or not by the code's rule.
- A crash is a step back to idle that leaves everything the worker did in
  place. A failed call either happened or did not; a lost answer is a call that
  happened and whose caller takes the path of its `catch`. All of them are
  counted and bounded by `MaxFaults` (`MaxMishaps` in `ActionAnchoring`), or are
  free where that stays finite.
- Time is a number of ticks, and the constants of the code (lease, delay,
  validity) are small numbers of ticks in the same order. Where only ages
  matter, as in `EvidenceDelivery`, instants are kept as remaining waits.
- Where one proof module is about two components, the definitions of one of them
  carry its name (`IngestionInit`, `InvalidationNext`, `AnchoringSpec`, `ConsoleSpec`).
- Definitions named `Bug...` are faulty variants of the definition after them.
  No specification uses them; they document what each property depends on.
- A digest, a signature, an id or a payload is a model value that is equal
  exactly when what it covers is.

### Security action queue: `SecurityActions`, `SecurityActionState`

`SecurityActionState` holds the composite posture (access, renewal, target
certificate, replacement) and both of the code's transition functions:
`TransitionState` is `transitionSecurityActionState` of `index.mjs`, which the
worker evaluates, and `ExpectedState` what `mark_security_action_succeeded`
derives again in SQL.

| State | Code |
| --- | --- |
| `posture`, `version` | `orchestration.subject_security_states` and its `state_version`; version 0 is no row |
| `action`, `attempts` | `security_actions`, `security_action_attempts` |
| `authorization` | `security_recovery_authorizations` |
| `inventory`, `replacements` | `identity.certificates`: the target's state, its replacements |
| `trust` | the current trust transition of the subject (band and version) |
| `worker` | what each `createSecurityActionWorker` holds; while its claim runs, the rows that the claim has changed or locked |

| Actions | Code |
| --- | --- |
| `RequestQuarantine`, `EnqueueSeverity` | the trigger on quarantine requests and `enqueue_severity_security_action` (035) |
| `AuthorizeRecovery` | `authorize_security_recovery` (038), with its step-up proof left to GovernedRecovery |
| `ClaimSweep`, `ClaimSuppress`, `ClaimSelect`; `ClaimNothing`, `ClaimSuppressed`, `ClaimTake`, `ClaimConflict` | `claim_security_action` (040), statement by statement: expire leases and suppress stale recoveries; suppress redundant controls; select a row and lock it (`SKIP LOCKED`). It ends with nothing to claim, or, with the state row locked, by suppressing a recovery that is stale by now, by taking the row, or rolled back by the unique index on executing actions (035) |
| `ExecuteInternal`, `ExecuteRevocation`, `ExecuteReplacement`, `ExecutorFails`, `RejectExecution` | `createSecurityActionExecutor.execute` |
| `MarkSucceeded`, `MarkSucceededRejected`, `MarkFailed` | the reports of `runOnce`, with lost answers |
| `RecoverExpiredLeases` | the operational function of 041 |
| `RevokeOutside`, `TrustTransition` | `record_certificate_revocation` called by someone else; an evaluation of trust |

A claim's rows are visible to others only when it commits (`Commit`); `View` is
what its own statements see. What others report or expire waits for the rows it
has locked (`Free`). The lock of the state row is part of the last step: from
there on no other claim of the target and no success can come between, and a
failure, which does not take that lock, frees the target either before or after.
A request of a protective action takes no lock that a claim holds.

`SecurityPosture` is the abstract specification: a posture changes only by a
transition of the state machine taken from the posture the target has, and a
recovery only by a grant for exactly that version, which any transition
withdraws. `ImplementsPosture` maps its `granted` to the stored authorizations
of the present state version.

### Rules and governed recovery: `ActionTriggers`, `GovernedRecovery`

`ActionTriggers` is `evaluateSecurityActionTriggers`: what a policy decision, a
trust transition and a list of severe evidence call for. It is pure; its
property ranges over all transitions the controls can compute and all sublists
of the sample evidence. `EvidenceNeverWeakens` is stated for an active target
certificate: for a target that is already revoked and replaced, corroborated
evidence proposes only a revocation that changes nothing, where a single report
would still block renewal. (The repository's services call the queue's enqueue
functions; this function is used by its tests and its evaluation.)

In `GovernedRecovery` a request of an administrator goes through `Load` (posture and trust
checkpoint), `EvaluateRecovery` (the severe evidence, read later, and
`evaluateSecurityActionRecovery`) and `Authorize`, `Replay` or `Deny`
(`authorize_security_recovery`), while `Evaluate`, `Protect`, `Recover`,
`EvidenceAppears` and other requests go on. `postures` is the history of the
target's posture by version, `transitions` that of the subject's trust. The
initial postures are those the columns' constraints admit. An explanation tells
the distinct sources of an evaluation by their count, which the function in SQL
reads (`038:234`), or also by their ids, which the service reads (`038:108`). The
trust engine (`trust-transition-controls.mjs:232`) writes only the count; only
the fixture `database/tests/verify-governed-security-recovery.sql` lists ids.
`Explanations` is the set of shapes that occur. With the engine's alone
(`{"count"}`) nothing is ever authorized, a theorem (`EngineRecoversNothing`),
so what the module says of authorizations it says of the fixture's shape, mixed
with the engine's in any order. A tick is five minutes.

### Trust: `TrustControls`, `WeightedScore`, `TrustTransitions`

`TrustControls` is the arithmetic of one evaluation in hundredths of a point:
`NextTemporals` is `advanceSmoothedTrustScore` (cold start, fresh observation,
decay with its half-life, rounding half up; between two half-lives the decayed
score is any value between the two), `Controlled` is
`applyTrustTransitionControls` (influence cap, critical override, hysteresis,
streak). `TrustTransitions` is the record of one subject: `StoreState` writes
state versions, engines `ReadState`, `ReadTransition` and `Record` in separate
transactions, and `OrderAccepted` and `ChangeAccepted` are what
`record_subject_trust_transition` (023) checks. There the five components of a state
version are represented by their weighted score, which is `WeightedScore`:
exact decimals as pairs of digits and scale, the score rounded once, the
contributions rounded one by one as an explanation records them, and the sum the
database demands of them. `ScoresAreRecordable` is a constant-level property
over samples of the values and weights the columns can hold. The program also
accepts weights with five decimals, for which it fails (`FinerWeights`,
`NearHalf` and `OneList` of `MCTrustTransitions`); the columns of migration 005
are `numeric(5,4)`, so that no stored configuration has them.

### Evidence: `EvidenceIngestion`, `EvidenceDelivery`

`EvidenceIngestion` follows a request from the verification of its envelope
under a context it read (`Verify`) to the guard (`ApplyGuard`), which has two
implementations of one interface:
`GuardOutcome` with `ReplayReason` and `CurrentRate` is the database's
(015, 016, 018), `MemoryReason` and `MemoryNext` the in-memory one, and
`GuardsAgree` compares them in every state. Sources and keys are planned,
registered, rotated, revoked, suspended, reconfigured; an automatic suspension
follows rate violations. `stored` is the encrypted copy with its retention,
read, erased and purged.

`EvidenceDelivery` takes accepted events through the outbox (`Claim`, `Publish`,
`MarkPublished`), the stream with its duplicate window and the durable consumer with its
redeliveries to `validated-evidence-consumer.mjs`: `handlers` counts the
handlers of a message that are at work, an effect row makes a delivery count
once, `staged` is the newest observation of a component, and `StoreState` also
happens by another writer of the same subject with the version it read.

### Certificates: `CertificateLifecycle`

A caller prepares (`PrepareIssuance`, `PrepareRenewal`, `PrepareRevocation`: key,
membership, window), goes to the issuer (`SignCertificate`, `RevokeAtIssuer`) and
writes the inventory (`RecordIssuance`, `RecordRenewal`, `RecordRevocation`), so that
renewals, revocations, expiry, suspensions and a retired issuer come in between,
and `Abandon` ends it anywhere. Every recorded change appends a lifecycle event,
which is published and delivered to the feedback any number of times, before or
after the action it derives from is reported. `cached` is until when a verdict
of `packages/certificate-status` is accepted.

### Protected requests: `ProtectedAccess`

A handler and its database transaction are two processes, because the timer of
`request-safeguards.mjs` lets the handler answer while the transaction runs on.
A transaction checks authority and certificate (which it locks), spends a
step-up proof, has trust looked up (in a transaction of its own, on a second
connection of the pool), gets a decision, records provenance, reserves a
receipt, reads and commits; the answer comes only after the access event was
written. What it wrote is in `work[r]` until `Commit`. `ChangeMembership`,
`RemoveAdminRole`, `EndCertificate` and `MoveTrust` are the rest of the system.
Observations: provenance, spent proof and receipt commit atomically or not at
all; memberships are not locked between the record of the decision and the
commit, so a decision may commit after the membership it names ended; a role
assignment has no version that the decision could be bound to.

### Tenancy and registries: `TenantLifecycle`

One tenant with a versioned registry, which is either its trust configurations
(022) or its policy bundles (025): both have the same life and differ in what a
rollback appends. An administrator's session prepares a request with the time of
its own service's clock (up to `Ahead` fast, up to `Behind` old) and the history
it read, and the database judges it later under its lock. The platform suspends,
reactivates and tears the tenant down; administrators remove each other in
transactions of two steps, because the trigger of 006 looks for a remaining
administrator without a lock.

### Action anchoring: `ActionAnchoring`

The triggers capture an event for every request, success and failure; the
projector loads an event whose prerequisites are in the outbox (`LoadNext`),
builds its document and records it in a later transaction (`Record`), by which
time what it looked up may have changed. The action verifier takes two queries
and reads the ledger (`LoadFirst`, `Verify`), the causal verifier one set of
records (`VerifyCausally`). `Damage` replaces the document of an outbox row by a
well-formed other one, with the commitment to it or without, or its status,
before the row is delivered or after. Both verifiers recompute the commitment
from the row's own document, so a row that was replaced consistently passes that
test; the action verifier also compares it with the immutable sources, the
causal verifier with the ledger alone. The queue and the outbox worker are here by what they promise and the
runs of their own modules show.

### Review console: `ReviewConsole`

The server of `apps/review-demo` with its fixtures as they are in the code:
four subjects of two tenants, three personas, certificates, trust histories and
scenarios. It shares nothing with the rest; `MCTenantLifecycle` explores it in
the same run as the tenant, a behaviour being one or the other.

## 3. What the runs check

`tlc -config <cfg> <module>` repeats a run; the module is the `MC...` one of
the component. `CHECK_DEADLOCK FALSE` stands in every cfg because each of these
systems legitimately stops: once everything is settled and the bounds are used
up there is nothing left to do.

| Run | Instance | Shows |
| --- | --- | --- |
| `queue_interleaved` | 1 target, 3 actions of four types (a restriction, a revocation and both recoveries), revocation outside the queue, 2 workers, claims statement by statement, 1 tick, 2 claims of an action, 1 fault, 1 evaluation of trust | two workers never act on one target under current claims; what settled stays settled; the queue implements `SecurityPosture` |
| `queue_liveness` | 1 target, 2 actions, 1 worker, revocation outside the queue, 3 ticks, 2 claims of an action, 1 fault, fairness | every protective action settles; a revocation on record is in the inventory |
| `trust_evaluation` | 2 engines, 3 state versions with scores 0 or 100, 1 or 2 sources, with and without critical evidence, cap 30, staleness after 1 of 2 ticks, 1 lost answer; 3 values, 3 weight vectors and 6 reference lists for the score | one chain of transitions; hysteresis; JavaScript and SQL agree on every state change; what the engine scores can be recorded |
| `recovery_authorize` | revoked target, 2 requests, 2 step-up proofs, 3 evaluations with explanations of either shape, 4 posture versions, 1 appearance of severe evidence, 1 lost answer or crash; 5 entries of evidence and 10 scores for the triggers | what is authorized is justified, in two stages, and on explanations that list their sources; more evidence never weakens the answer |
| `invalidation` | 1 subject, 2 actions, 1 entry, 2 workers, 8 ticks, 4 claims of a job, 1 fault, fairness | what was live when an action succeeded is gone when its job is completed; one job of a subject at a time; every job completes |
| `outbox_delivery` | 1 event, 2 commitments, 2 workers, clocks up to 1 tick apart, 12 ticks, 7 claims, 1 fault, fairness | what PostgreSQL says of an event is what Fabric decided; no outcome is invented; the event is eventually committed |
| `evidence_ingestion` | 1 source, 2 keys, 2 members of whom one is administrator, 9 envelopes (5 of them refused before the guard), 2 requests, quota 2 per window of 2 ticks, suspension after 1 excess, 3 ticks | no replay, order within a key's epoch; acceptance only while source, key and member are active; the two guards agree |
| `evidence_delivery` | 2 events of one component, 2 publishers, 2 deliveries, 1 version of another writer, 1 fault, fairness | the staged component is the newest consumed observation; every version is earned once; everything valid is published |
| `certificates` | 1 enrolment, 2 racing renewals, 1 revocation, 2 callers, 3 signed certificates of which the issuer revokes one, validity 4, 3 instants around the renewal window and the end | renewals never fork; revoked means the issuer revoked, and every event can be published; no verdict outlives its certificate; effects apply once |
| `access` | 2 requests for a read or an export in either mode, 1 proof, 2 contents, 2 ticks, 1 change of the actor | success only for accounted work; a proof serves one decision; a key serves one operation |
| `tenant` | 2 administrators, 3 versions with 2 contents, 5 events, a clock 1 tick ahead, both registries, 1 tick, suspension and teardown; the console with 5 ticks and a feed of 3 | times in force tile; the history explains them; renewals of the console never fork and its newest event explains every change |
| `anchoring` | 1 action of two types, 1 attempt, 2 projectors, 1 fault, fairness | the trail is connected; a verification that succeeds was right; what is captured is anchored |

Why the bounds are enough. Targets, subjects and events do not share state, they
meet only in the workers, which hold one claim at a time; one of each with two
competing workers shows every interleaving of the code's transactions on it (and
the theorems of section 5 hold for any number). Two claims of one row are enough
for a late report to meet a newer claim, a third for it to meet a closed one.
Two actions are enough for overlap, suppression and the overwritten marker; the
three of `queue_interleaved` are a protective action, a recovery authorized on
its result and one more between the two. A fault takes any of its
forms at any point; more faults repeat it. Scores at both ends of the scale
drive an evaluation to every threshold through the cap of 30 points within
three versions. Two keys, one rotation and the four envelopes that reach the
guard meet in every order, so that each of its reasons occurs, also across
epochs. Two events of one component and one other writer give every order of
observation, stream and version. Two requests that share a proof and a key are
what a proof and a receipt have to tell apart; a third would meet a settled one.
Three versions are a first one, its successor and a rollback; the fifth event
is the second activation's end. One action with one attempt has every end a trail can
have, success, failure and being given up, and two projectors may hold two loads
of one event; the trail of a retry is in the wider instance below.

Wider instances and further properties. `queue_interleaved` also passes with all
six types and no revocation outside the queue, in two to three times the time.
`queue_core.cfg` has calls stamped by
clocks that are late, revocation outside the queue and the attempt ledger, for
two actions. With clocks apart from the database's (`ClockTolerance = 1`,
`MaxOffset = 1`) and one action, the instance of `invalidation` passes with
`StoredTimeHonest` and `DelayNeverNegative` as well; with two actions and clocks
apart it takes longer than these runs may. With one projector and two attempts
(`MaxAttempts = 2`) the one of `anchoring` passes, too, and has
`AttemptsCaptured`. The modules state some more properties, which hold on the
instance of their run and can be listed in its cfg (some are theorems, section 5): `RecoveryOnAuthorizedPosture`
(queue), `AuthorizedOnCurrent`, `AuthorizedOnce` (recovery),
`OpenAttemptIsCurrent`, `AnchoredOnce`, `CommittedIsFinal` (outbox),
`AcceptedIsKept` (ingestion), `CausalHistory` (certificates),
`DecidedOnFreshTrust`, `CertificateHeldToCommit`, and with one request under
`FairSpec` without symmetry `RequestEnds` (access), `ReplacedIsFinal`, `RetirementIsFinal` (tenant).

Every property of a run has a faulty variant of a modelled definition that makes
the run fail (`mutants` in PROJECT.json), so none of them holds by the shape of
its model.

## 4. Fairness

- `SecurityActions`, `StateInvalidation`, `AuditOutbox`: `WF(Work(w))`, or
  `WF(WorkerStep(w))`, for every worker, for `runOnce` is called by a polling
  loop, and a worker that is restarted polls again. Every step of a worker is
  enabled until it takes it, so weak fairness suffices. Faults are not fair, and
  bounded. `WF(Tick)`: time passes. In `SecurityActions` it is `SF(Tick)`: a lease
  that runs out during a claim is a fault, so the bound on faults may stop the
  clock while a claim is on its way, and a worker that claims nothing again and
  again would stop it for ever. `AuditOutbox` also `WF(Decide)`: Fabric decides on some transaction it
  ordered as long as there are any. Without it the code asks for the status of the
  transaction for ever, by design; the event is never submitted again.
- `EvidenceDelivery`: `WF` of time, of the consumer and of each publisher's next
  call, and `SF` of claiming one event: publishers run on an interval shorter
  than the retry delay, so a row that keeps failing does not starve one that is
  due; JetStream keeps delivering, and the handlers end.
- `ActionAnchoring`: `WF` of each projector's two transactions (it is a polling
  worker) and of the delivery of what is in the outbox, which is what
  `outbox_delivery` shows.

`ProtectionSettles` is about protective actions only, and excepts targets whose
posture is undefined: where a revocation outside the queue came before the first
action, a quarantine is retried for ever (section 6); and a recovery whose authorization expires is never claimed
again and never settled. Its run has one worker and two actions, too few for the
race of `queue_race`, which needs four actions and two workers: a revocation
caught in it is retried for ever, too. `EventuallyPublished` is about
evidence observed no later than it was accepted, and `EventuallyAnchored` about
events whose prerequisites are there: section 6 says what happens to the others.
The number of ticks and claims is enough for every retry
that the allowed faults cause: in `outbox_delivery` waiting in vain counts as the
fault, and with two of them `EventuallyCommitted` would fail for the end of time
only.

## 5. What is proved

Each theorem holds for every value of the constants that satisfies the
assumptions named in its module: any number of targets, actions, workers and
engines, any delays, any bounds.

- `SecurityActionsProofs`. `TypeCorrect`; `SettledForever`: no step changes a
  settled action. Every step makes *progress*, a transitive relation on rows; for a
  claim this needs that the rows it has locked are still what the table says, but
  for its own changes, when it commits (`LocksInv`: two claims never hold one row,
  and a locked row has progressed from the table's; `LocksCorrect`).
  `MutualExclusion` (`ClaimsExclusive`), from `HoldersInv`: at most one action of a
  target is executing (`OneExecutingPerTarget`), which `ClaimTake` keeps by the
  unique index, and of the workers at most one has the token of an execution.
  `RevocationConfirmed` and `PostureImplemented`, the refinement of
  `SecurityPosture`, need what a claim is worth when it is reported, `ClaimInv`:
  a requested action's target has a row, and a recovery was authorized for a
  version that the target has had; an action executes on a version the target has
  had, a recovery on the one it was authorized for; and a worker whose claim is
  still current (its last attempt, still executing, the version unchanged)
  computed its result from the posture the target has now. Every step then is a
  request, a claim, a success or quiet (`StepKinds`), and maps to `Track` or
  `Grant`, a stutter, `Protect` or `Recover`, a stutter.
- `TrustProofs`, for the record of trust transitions: `TypeCorrect` (a score never
  leaves the scale through averaging, decay, cap and ceiling), `OneChain`,
  `InfluenceCapped`, `CorroboratedRise`, `ChangesAccepted`, `EachObservationOnce`.
  The invariant is `HistoryInv`: types, the chain, and `AllExplained`: each recorded
  transition is what `Controlled` computes from the control before it and some
  candidate score. Cap and hysteresis then are facts about `Controlled`
  (`ControlledCap`, `ControlledStreak`), and a streak of two in the database tells
  of the transition before (`StreakBefore`). For the weighted score:
  `ScoresRecorded`, for all values and weights that the columns can hold
  (`FitColumns`: two decimals and four, which the samples of the run are of). A
  product then has at most the six decimals to which a contribution is rounded,
  so that the database adds the exact sum (`ContributionsAddUp`), and rounding does
  not depend on the scale at which that sum is written (`RoundedAtSix`); and each
  product is at most 100 times its weight (`ScoreOnScale`). The sum, a fold, is
  five terms because any function that satisfies the fold's equation agrees with
  them on every set of components, by a least counterexample (`AddsUp`), and
  one exists (`AdderExists`). For state invalidation:
  `InvalidationTypeCorrect`, `CompletedStays`, `MutualExclusion`, and `Enforced`,
  which needs `EnforcementInv`: a marker names an action only if that action's
  entries are gone, a worker past `InvalidateSubject` holds an action whose entries
  are gone, and an exposed entry that is live is still registered in the index
  (an entry never returns). Its type invariant adds that workers hold queued jobs
  and that no clock is before the beginning.
- `AuditOutboxProofs`. `Anchored`, `OutcomesAreDecided`, `OpenAttempts`,
  `WrittenOnce`, `CommittedForever`, from `OutboxInv`: what the channel holds
  was submitted for that record (`FabricInv`), a row is committed only by a
  transaction that validated or a record that was found (`RowsInv`), and an
  attempt that is open belongs to the row's present claim (`AttemptsInv`).
  For action anchoring: `AnchoringTypeCorrect`, `TrailConnected`,
  `VerifiedAnchored`, from `AnchoringInv`: only what happened to an action that
  exists is captured, only what was captured is projected, and a document that is
  genuine is the one of its event. That a verification was right rests on what the
  verifiers compare, not on the rows being genuine: the ledger holds the very
  documents that a verdict was about, and never loses one; nothing captured, enqueued or anchored ever disappears
  (`TrailKept`), which is why queries of different moments may be combined. And
  `OneOutcomePerAttempt`, from `AttemptsCounted`: the attempts before the last one
  failed and were captured so, and what is captured of the last goes with the
  action's status.
- `ProtectedAccessProofs`. `ServedAccounted`, `ProofSpentOnce`,
  `KeyIsOneOperation`, `FreshDecisions`, `CertificateHeld`, from `AccessInv`:
  what each request in flight holds at its stage (`RequestsInv`), that two of
  them never spend one proof (`ProofsApart`) or work under one key
  (`KeysApart`), and what the tables say of those that ended (`TablesInv`). The
  environment spends no proof and cannot change a certificate that a request has
  locked; everything a request writes becomes visible in its commit.
- `CertificateLifecycleProofs`. `LinearSuccession`, `RecordedConfirmed`,
  `AcceptanceBounded`, `EffectAppliedOnce`, `EndedForever`, from
  `CertificatesInv`: a signed certificate belongs to one call, a row is
  superseded exactly when it has a successor and has no second one, every event
  can be published, no verdict lasts longer than its lifetime from now, and an
  effect follows its evidence.

- `GovernedRecoveryProofs`. `TypeCorrect`, `Justified`, `OneAuthorization`,
  `TwoStages` and `SourcesListed`, from `RecoveryInv`: what a request in flight holds
  was read from the tables (`HeldInv`); a streak counts what the transition
  before left (`StreaksInv`); an authorization names a posture and a transition
  that was accepted for it, and has spent its proof (`AcceptedInv`,
  `AuthorizedOnce`); and from a revocation on a replacement is required until one
  was authorized, and access is restricted until it is restored after that
  (`StagesInv`). Initial postures are ones the schema admits. `SourcesListed` (what the service
  found eligible, from ids, and the function accepted) yields
  `EngineRecoversNothing`: where explanations are those of the engine, no
  authorization ever exists.
  `MoreEvidence` and `NeverWeakens` are about `TriggeredActions` itself, for any
  finite evidence and scores on the scale.
- `EvidenceProofs`. `TypeCorrect`, `StagedNewest`, `VersionsEarned`, from
  `DeliveryInv`: a sequence that a publisher or a published row names is a
  message of that evidence, published rows are final (`RowStep`), only published
  evidence is consumed, and what is staged is the observation of one consumed
  event (`StagedInv`). `HandleConsumes` reduces the consumer's outcomes to two,
  nothing or `Consumes`, and the order `Newer` does the rest. For ingestion:
  `IngestionTypeCorrect`, `EpochsOrdered`, `AcceptanceIsActive`, `GuardsAlwaysAgree`
  and `AcceptedEvidenceIsKept`, from `IngestionInv`: a source is verified by its one
  active key, a receipt's key was enrolled for the receipt's source, and within an
  epoch sequences and times of receipts rise together; the last theorem also needs
  `CopiesKept`. That an epoch has a newest receipt is an argument by least elements.
- `TenantProofs`. For a tenant's registry: `TenantTypeCorrect`, `ForceHasNoGap`,
  `LedgerExplains`, `ReplacedStaysAsItWas`, `RetirementStays`, from `TenantInv`.
  `TenantTypeInv` adds to the types that a rollback was asked of a version there is
  and that a retired tenant has no administrators. `RegistryInv`: one version in
  force, a time of activation exactly for what is or was in force, and `Tiled`,
  what `TimesTile` says of the times. An activation and a rollback are both a
  version that `Enters`: it replaces the one in force at the time it enters
  itself, which the SQL refuses to be earlier, and that is why there is neither
  overlap nor gap (`EntersTiled`) whatever clock the time came from. `LedgerInv` adds to `HistoryExplains` that
  the events name versions there are; each operation appends to the ledger
  entries of which only the last can be an activation (`Extended`). For the
  console: `RenewalsChain` and `EveryChangeExplained`, from `ConsoleInv`.

Of the properties the runs check, all safety properties are theorems. Only
model-checked: the liveness properties (`ProtectionSettles`, `InvalidationCompletes`,
`EventuallyCommitted`, `EventuallyPublished`, `EventuallyAnchored`), which under
fairness are out of the prover's reach, and some of the further properties that
the modules state.

## 6. Where the code and its documents differ

Each of these has a property that states what is written, and TLC finds it
violated by what the code does. Where no cfg is named, the property takes the
place of the properties in the cfg of the component's run. A cfg with several
properties stops at the first; without its line it shows the next.

| Property, cfg | What the model shows | What is written |
| --- | --- | --- |
| `EvaluationContinues`, `trust_capped.cfg` | A capped or overridden score is stored beside the temporal score it differs from, and `normalizePrevious` (`transition-explanation.mjs:200`) refuses the pair: the subject cannot be evaluated again. | `docs/architecture/trust-transition-controls.md:39` |
| `RecoveredIsEligible`, `recovery_evidence.cfg` | The engine records the count of the distinct sources and not their ids, the service counts the ids and asks for two: no trust makes a recovery eligible, and nothing is ever authorized on the engine's explanations (`EngineRecoversNothing`). | `docs/architecture/governed-security-recovery.md:13` |
| `SuppressedControlInForce`, `queue_suppression.cfg` | After a revocation outside the queue, a revoke action is suppressed as satisfied although nothing was suspended or blocked. | `docs/architecture/security-action-state-machine.md:36` |
| `SeverityPrecedence`, `queue_race.cfg` | A severity action is requested, claimed and failed after another claim selected a recovery of its target and before that claim takes it: the recovery executes while severity work that was begun waits for its retry. (Its result is still refused if the posture changed.) | `docs/architecture/security-action-adversarial-verification.md:14` ("Pending or retryable severity work takes precedence over recovery for the same tenant, subject and certificate") |
| `ResultAccepted`, `queue_race.cfg` | A second revocation that is queued between the redundancy sweep and the selection of a claim, for a target that was revoked and recovered, is executed. The worker computes no change, SQL derives a suspension: `RESULT_INVALID`, retried for ever, and as live severity work it blocks every recovery. | `database/migrations/040_security_action_conflict_safeguards.sql:114` |
| `SkewIsTolerated`, `certificates_defects.cfg` | A revocation confirmed up to two seconds ahead of the database's clock is admitted, and the event it inserts is refused by a CHECK: the issuer has revoked, the inventory has not (`007:126`). | `database/migrations/010_revocation_confirmation_time.sql:114` |
| `RedeliveryIsDuplicate`, `certificates_defects.cfg` | A redelivery after the source action was reported derives that action, compares it with the recorded one that had none, and raises a conflict (`036:221`). | `docs/architecture/certificate-lifecycle-trust-feedback.md:13` |
| `AdministratorRemains`, `tenant_defects.cfg` | Two administrators who remove each other concurrently both pass the trigger (`006:185`). | `database/migrations/006_tenant_lifecycle_controls.sql:197` |
| `TornDownHasNoAuthority`, `tenant_defects.cfg` | An activation that checked the tenant before it waited for the lock (`025:239`) completes after the teardown. | `docs/architecture/tenant-lifecycle-controls.md:41` |
| `AllPublished`, `evidence_delivery.cfg` with `Ahead = {e2}` | Evidence observed up to 30 seconds ahead is accepted, and the event builder refuses it at every retry. | `docs/architecture/accepted-evidence-event-delivery.md:3` |
| `PublishedIsConsumed` (evidence_delivery) | Five deliveries that fail leave a published event unconsumed for ever. | `docs/architecture/validated-evidence-trust-consumption.md:28` ("the same event remains retryable") |
| `TimeoutRollsBack` (access) | A timer that fires while COMMIT is in flight answers 503, and the operation commits. A retry under the same key finds it. | `docs/architecture/request-safeguards.md:11` |
| `EveryAttemptCaptured`, `anchoring_defects.cfg` | A failed recovery that is then given up stays `failed`: its last attempt changes no status and is not captured (`039:97`). | `docs/architecture/security-action-audit-anchoring.md:3` |
| `ReplacementIsAnchored`, `anchoring_defects.cfg` | The lookup of a replacement wants it active (`039:294`): once it ended, the success of its action waits for ever. | `docs/architecture/security-action-audit-anchoring.md:16` |
| `VerifiedStaysVerifiable`, `anchoring_defects.cfg` | The same lookup (`039:567`) makes a trail that was verified unverifiable. | the same |
| `OutcomesPassCausally`, `anchoring_defects.cfg` | The causal verifier wants the decision as the cause of every action event (`verification.mjs:177`) and refuses each trail with an outcome. | `docs/architecture/causal-audit-verification.md:26` |
| `EffectAtMostOnce`, `StoredCountsExact`, `invalidation_marker.cfg` | The marker of a subject remembers one action, so after another one a retry is a second effect; a retry that finds the marker stores zero deletions. | `docs/architecture/security-state-invalidation.md:13`, `:21` |
| `ExactReplayReturnsAction`, `queue_suppression.cfg` | `enqueueSeverityAction` fails on an exact replay whose action is executing or has succeeded. | `docs/architecture/idempotent-security-action-orchestration.md:9` |
| `EvidenceBlocksRecovery`, `recovery_evidence.cfg` | Severe evidence that appears after the service looked for it does not stop the authorization. | `docs/architecture/security-action-trigger-recovery-rules.md:48` |
| `ReplayAnswered`, `recovery_evidence.cfg` | A request sent again after its recovery took effect is evaluated anew and refused. | `docs/architecture/governed-security-recovery.md:18` |
| `SubmissionsRetained`, `outbox_retained.cfg` | A submission whose record fails is in no attempt row. | `docs/architecture/fabric-commit-reconciliation.md:3` |

Further observations:

- `VerifiedIsGenuine` (`anchoring_defects.cfg`): a row of the outbox that was
  replaced consistently before its delivery is anchored as it then is, and the
  causal verifier, which compares the ledger with the outbox alone, accepts it.
  `docs/security/fabric-ledger-privacy-and-tamper-detection.md:25` promises only
  that a change after the commit is found.
- A quarantine that failed may be retried after a governed recovery and restrict
  access again. A recovery needs a transition of kind `recovered`, which a
  subject in the high band never makes again, so a second stage that misses its
  five minutes waits until trust has fallen and risen.
- The ingestion guard reads the rate clock before it waits for the source's row
  (`RateTimeOrder`): a request that waited may find a later violation time on the
  row, and the CHECK of `018:344` aborts it. The caller is told that the service is
  unavailable and sends again.
- The action verifier reads only the action's own events back from the channel;
  causes and certificate events are compared off the chain.
- Review console: `execute` does not look at the acting persona's own
  certificate, while the scenarios say that "no previous permission survives"
  its revocation (`demo-domain.mjs:310`); the audit feed is not scoped to a
  tenant (`server.mjs:95`); a denied attempt evaluates trust anew, so that a
  decision denied for staleness may be allowed after an attempt that was denied;
  an older decision is rendered with the present time (`trust-dashboard.mjs:232`);
  the page shows whichever load was answered last (`app.js:417`). The target rule
  of `docs/architecture/tenant-certificate-dashboard.md:16` ("the authenticated
  subject or ... `tenant-admin`") is `tenant-admin` in the code.

## 7. What is not modelled

- The evaluation harness, evidence simulators, scripts and infrastructure: no
  state that outlives a run, or configuration.
- Cryptography, canonical encoding and certificate parsing; HTTP, gRPC, NATS
  and logging; row-level security, which is taken to hide other tenants' rows.
- The read-only listings of the API and of the operations view, the history of
  rejected evidence, the archives and signatures of policy bundles and the rules
  of `decision.rego` beyond the outcome they give a protected request.
- The page of the review console and its audit operations view.
- Several tenants: nothing a module models is shared between two of them, except
  in the console, where both are modelled.
- The closed loop as one system: the components meet in the promises that their
  own runs show (the trail is captured from the queue, the outbox delivers what is
  enqueued, an accepted envelope is in the outbox), and a product of two of their
  state spaces is out of TLC's reach.
