-------------------------- MODULE SecurityActions --------------------------
(***************************************************************************)
(* The durable security-action queue of the orchestrator: the plpgsql      *)
(* functions of migrations 035, 038, 040 and 041, the worker and executor  *)
(* of services/orchestrator/src/action-orchestration.mjs, and the governed *)
(* recovery authorization of governed-recovery.mjs.                        *)
(*                                                                         *)
(* Simplifications:                                                        *)
(*   - a target is a (tenant, subject, certificate) row; ids are model     *)
(*     values, and an action id stands for its (decision, type, authority) *)
(*     semantic key, which is unique;                                      *)
(*   - time is a number of ticks; a repository call is stamped by its      *)
(*     caller's clock up to MaxLag ticks before it commits;                *)
(*   - a claim token is the attempt number: every claim increments         *)
(*     attempt_count, so (action, attempt) identifies a token;             *)
(*   - a function call that raises an exception is rolled back and changes *)
(*     nothing in the database;                                            *)
(*   - claim_security_action runs at READ COMMITTED, statement by          *)
(*     statement; every other function decides under the row locks it      *)
(*     takes first and is one step.  Calls that PostgreSQL aborts because  *)
(*     their row locks form a cycle are left out: they change nothing;     *)
(*   - rows due at the same instant are claimed in any order (the code     *)
(*     breaks the tie by requested_at and a random id);                    *)
(*   - the certificate authority is external: revoking and issuing are     *)
(*     modelled from what the executor and the database check of them.     *)
(***************************************************************************)
EXTENDS SecurityActionState, Integers, FiniteSets, Sequences

CONSTANTS
  Targets,            \* (tenant, subject, certificate) rows
  ActionIds,          \* ids of the actions that may be requested
  RequestedTypes,     \* bound: types of the actions that are requested
  Workers,            \* running action workers
  Infinity,           \* next_attempt_at of an action that is never retried
  LeaseTime,          \* 300 s: lease of a claim
  RecoveryValidity,   \* 300 s: lifetime of a recovery authorization
  TransitionWindow,   \* 300 s: maximum age of the trust transition it uses
  InitialRetryDelay,  \* 5 s
  MaxRetryDelay,      \* 600 s
  OutsideRevocation,  \* may a certificate be revoked outside the queue?
  MaxLag,             \* bound: age of a caller's timestamp at commit
  MaxTime,            \* bound: last tick
  MaxAttempts,        \* bound: claims of one action
  MaxFaults,          \* bound: crashes, executor failures, lost answers,
                      \* leases outlived by their worker
  MaxTransitions      \* bound: trust transitions of one subject

ASSUME InfinityAssumption == Infinity \notin Int
ASSUME TimesAssumption ==
  /\ LeaseTime \in Nat /\ RecoveryValidity \in Nat /\ TransitionWindow \in Nat
  /\ InitialRetryDelay \in Nat \ {0} /\ MaxRetryDelay \in Nat \ {0}
ASSUME BoundsAssumption ==
  /\ MaxLag \in Nat /\ MaxTime \in Nat /\ MaxAttempts \in Nat
  /\ MaxFaults \in Nat /\ MaxTransitions \in Nat
  /\ OutsideRevocation \in BOOLEAN

VARIABLES
  now,          \* the database clock
  faults,       \* faults that happened so far
  inventory,    \* identity.certificates.state of each target certificate
  replacements, \* issue times of the replacement certificates of a target
  trust,        \* the current trust transition of the target's subject
  posture,      \* orchestration.subject_security_states: the four columns
  version,      \* ... and state_version; 0: there is no row
  action,       \* orchestration.security_actions
  attempts,     \* orchestration.security_action_attempts
  authorization,\* orchestration.security_recovery_authorizations
  worker        \* what each worker process is doing

environment == <<inventory, replacements, trust>>
database    == <<posture, version, action, attempts, authorization>>
vars == <<now, faults, inventory, replacements, trust, posture, version,
          action, attempts, authorization, worker>>

----------------------------------------------------------------------------
(* Types *)

Statuses == {"pending", "executing", "succeeded", "failed"}
SuppressionCodes == {"RECOVERY_STATE_CHANGED", "ACTION_ALREADY_SATISFIED"}
FailureCodes ==
  {"none", "ACTION_LEASE_EXPIRED", "ACTION_EXECUTION_FAILED"}
    \cup SuppressionCodes

(* A row of security_actions; status "none" means that there is no row.    *)
Row ==
  [type     : ActionTypes,
   target   : Targets,
   status   : Statuses,
   attempts : Nat,
   expected : Nat,                   \* expected_state_version
   lease    : Nat,                   \* lease_expires_at while executing
   next     : Nat \cup {Infinity},   \* next_attempt_at
   failure  : FailureCodes]

NoRow == [status |-> "none"]

Authorization ==
  [version : Nat, transition : Nat, at : Nat]

NoAuthorization == [version |-> 0, transition |-> 0, at |-> 0]

(* What a worker does between the claim and its report.                    *)
HoldingPhases == {"claimed", "executed", "failing"}

(* What a worker is doing: nothing, or the statements of a claim,          *)
(* or with a claim it was answered: the action, the token, the posture of  *)
(* the claim row and the confirmation of the executor.  While its claim    *)
(* runs, rows is what it wrote or locked: the rest of the table is NoRow,  *)
(* as it read nothing of it that it keeps.                                 *)
Idle == [phase |-> "idle"]

ClaimPhases == {"expired", "swept", "selected"}

Claiming ==
  [phase : {"expired", "swept"},
   at    : Nat,                           \* p_claimed_at
   rows  : [ActionIds -> Row \cup {NoRow}]]

Selected ==
  [phase  : {"selected"},
   at     : Nat,
   rows   : [ActionIds -> Row \cup {NoRow}],
   action : ActionIds]

Claim ==
  [phase     : HoldingPhases,
   action    : ActionIds,
   attempt   : Nat,
   posture   : Posture,
   reference : Nat]

----------------------------------------------------------------------------
(* Helpers *)

Requested(a)  == action[a].status # "none"
IsRecovery(r) == r.type \in RecoveryTypes
IsSeverity(r) == r.type \in SeverityTypes

(* pending, or failed and to be retried *)
Waiting(r) == r.status \in {"pending", "failed"} /\ r.next # Infinity

Due(r, time) == Waiting(r) /\ r.next <= time

(* what a recovery of the same target has to wait for *)
Live(r) == r.status = "executing" \/ Waiting(r)

Settled(r) == \/ r.status = "succeeded"
              \/ r.status = "failed" /\ r.next = Infinity

(* min(MaxRetryDelay, InitialRetryDelay * 2^(n - 1)) *)
RetryDelay(n) ==
  LET delay == InitialRetryDelay * 2 ^ (n - 1)
  IN  IF delay \in 1..MaxRetryDelay THEN delay ELSE MaxRetryDelay

(* The times a repository call committed now may carry.                    *)
Stamps == {time \in 0..now : now - time <= MaxLag}

Unexpired(a, time) == authorization[a].at + RecoveryValidity >= time

(* Close the open attempt of an action with its outcome.                   *)
CloseAttempt(log, outcome) == [log EXCEPT ![Len(log)] = outcome]

Fault == faults < MaxFaults /\ faults' = faults + 1

(* A running claim has locked a row; no other claim has; and the row as    *)
(* the statements of the claim see it: what others committed, with what    *)
(* the claim itself changed.                                               *)
LockedBy(w, a) ==
  worker[w].phase \in ClaimPhases /\ worker[w].rows[a] # NoRow

Free(a, w) == \A v \in Workers \ {w} : ~LockedBy(v, a)

View(w, a) == IF LockedBy(w, a) THEN worker[w].rows[a] ELSE action[a]

----------------------------------------------------------------------------
Init ==
  /\ now = 0
  /\ faults = 0
  /\ inventory = [t \in Targets |-> "active"]
  /\ replacements = [t \in Targets |-> {}]
  /\ trust = [t \in Targets |-> [id |-> 0, band |-> "none", at |-> 0]]
  /\ posture = [t \in Targets |-> InitialState]
  /\ version = [t \in Targets |-> 0]
  /\ action = [a \in ActionIds |-> NoRow]
  /\ attempts = [a \in ActionIds |-> <<>>]
  /\ authorization = [a \in ActionIds |-> NoAuthorization]
  /\ worker = [w \in Workers |-> Idle]

----------------------------------------------------------------------------
(* Requests *)

(* Faulty variants, named Bug..., are what a plausible mistake would turn  *)
(* the definition after them into; no specification uses them.             *)

(* enqueue_security_action_internal: the first request for a target        *)
(* creates its row from the inventory, which must know the certificate.    *)
TrackTarget(t) ==
  IF version[t] = 0
  THEN /\ version' = [version EXCEPT ![t] = 1]
       /\ posture' = [posture EXCEPT ![t].targetCertificate = inventory[t]]
  ELSE UNCHANGED <<version, posture>>

Enqueue(a, t, type, time) ==
  /\ ~Requested(a)
  /\ TrackTarget(t)
  /\ action' = [action EXCEPT ![a] =
       [type |-> type, target |-> t, status |-> "pending", attempts |-> 0,
        expected |-> version'[t], lease |-> 0, next |-> time,
        failure |-> "none"]]
  /\ UNCHANGED <<now, faults, environment, attempts, worker>>

(* request_quarantine_action and the trigger that mirrors its audit row    *)
(* into the queue.                                                         *)
RequestQuarantine(a, t, type) ==
  /\ type \in QuarantineTypes
  /\ \E time \in Stamps : Enqueue(a, t, type, time)
  /\ UNCHANGED authorization

EnqueueSeverity(a, t, type) ==
  /\ type \in SeverityTypes
  /\ \E time \in Stamps : Enqueue(a, t, type, time)
  /\ UNCHANGED authorization

(* What enqueueSeverityAction answers an exact replay: the database        *)
(* returns the existing action, the repository rejects two of its statuses *)
ReplayAnswer(r) ==
  IF r.status \in {"pending", "failed"} THEN "returned"
                                        ELSE "SECURITY_ACTION_REQUEST_INVALID"

(* The governed recovery service evaluates the posture, then               *)
(* authorize_security_recovery checks it again under the row lock,         *)
(* consumes the step-up proof, enqueues the action and stores the          *)
(* authorization; the trigger of migration 040 rejects a second            *)
(* authorization for the same transition, version and type.                *)
AuthorizeRecovery(a, t, type) ==
  /\ version[t] > 0
  /\ DefinedState(posture[t])
  /\ RecoveryConditionsMet(posture[t], type)
  /\ BandSuffices(posture[t], trust[t].band)
  /\ posture[t].targetCertificate = "revoked" => inventory[t] = "revoked"
  /\ ~\E b \in ActionIds :
        /\ Requested(b)
        /\ IsRecovery(action[b])
        /\ action[b].target = t
        /\ action[b].type = type
        /\ authorization[b].version = version[t]
        /\ authorization[b].transition = trust[t].id
  /\ \E time \in Stamps :
       /\ trust[t].at <= time
       /\ time <= trust[t].at + TransitionWindow
       /\ Enqueue(a, t, type, time)
       /\ authorization' = [authorization EXCEPT ![a] =
            [version |-> version[t], transition |-> trust[t].id, at |-> time]]

----------------------------------------------------------------------------
(* Claims *)

BugExpiredNever(r, time) == FALSE

Expired(r, time) == r.status = "executing" /\ r.lease <= time

FailRow(r, code, next) ==
  [r EXCEPT !.status = "failed", !.lease = 0, !.failure = code, !.next = next]

SuppressRow(r, code) ==
  [r EXCEPT !.status = "failed", !.attempts = @ + 1, !.failure = code,
            !.next = Infinity]

ExpireRow(r, time) ==
  IF Expired(r, time) THEN FailRow(r, "ACTION_LEASE_EXPIRED", time) ELSE r

StaleRecovery(a, r) ==
  /\ Waiting(r)
  /\ IsRecovery(r)
  /\ authorization[a].version # version[r.target]

Redundant(r) ==
  /\ Waiting(r)
  /\ r.attempts = 0
  /\ ~IsRecovery(r)
  /\ AlreadySatisfied(posture[r.target], r.type)

ExpireAttempts(a, time) ==
  IF Expired(action[a], time) THEN CloseAttempt(attempts[a], "failed")
                              ELSE attempts[a]

(* Statements 1 to 3 of claim_security_action: expire the leases, suppress *)
(* the stale recoveries.  An UPDATE waits for the locks of the rows it     *)
(* changes; the claim holds them from then on.                             *)
SweepRow(a, time) ==
  LET r == ExpireRow(action[a], time)
  IN  IF StaleRecovery(a, r) THEN SuppressRow(r, "RECOVERY_STATE_CHANGED")
                             ELSE r

ClaimSweep(w) ==
  /\ worker[w].phase = "idle"
  /\ \E time \in Stamps :
       /\ \A a \in ActionIds : SweepRow(a, time) # action[a] => Free(a, w)
       /\ worker' = [worker EXCEPT ![w] =
            [phase |-> "expired", at |-> time,
             rows |-> [a \in ActionIds |->
               IF SweepRow(a, time) = action[a] THEN NoRow
                                                ELSE SweepRow(a, time)]]]
  /\ UNCHANGED <<now, faults, environment, database>>

(* Statement 4: suppress the controls that are in force by now.            *)
ClaimSuppress(w) ==
  /\ worker[w].phase = "expired"
  /\ \A a \in ActionIds : Redundant(View(w, a)) => Free(a, w)
  /\ worker' = [worker EXCEPT
       ![w].phase = "swept",
       ![w].rows = [a \in ActionIds |->
          IF Redundant(View(w, a))
          THEN SuppressRow(View(w, a), "ACTION_ALREADY_SATISFIED")
          ELSE @[a]]]
  /\ UNCHANGED <<now, faults, environment, database>>

(* Statement 5: the due rows that may be claimed, as far as can be seen.   *)
Claimable(w, a) ==
  /\ Due(View(w, a), worker[w].at)
  /\ IsRecovery(View(w, a)) =>
       /\ Unexpired(a, worker[w].at)
       /\ ~\E b \in ActionIds \ {a} :
             /\ Live(View(w, b))
             /\ IsSeverity(View(w, b))
             /\ View(w, b).target = View(w, a).target
  /\ ~\E b \in ActionIds :
        /\ View(w, b).status = "executing"
        /\ View(w, b).target = View(w, a).target

(* FOR UPDATE SKIP LOCKED LIMIT 1: rows that another claim holds are       *)
(* passed over.                                                            *)
FirstClaimable(w, a) ==
  /\ Claimable(w, a)
  /\ Free(a, w)
  /\ \A b \in ActionIds :
       Claimable(w, b) /\ Free(b, w) => View(w, a).next <= View(w, b).next

(* The claim ends with these rows: what it locked becomes visible, and the *)
(* attempts with it; an expired attempt is closed, a counted one added.    *)
Commit(w, rows) ==
  /\ action' = [a \in ActionIds |-> IF rows[a] = NoRow THEN action[a]
                                                       ELSE rows[a]]
  /\ attempts' = [a \in ActionIds |->
       LET log == IF /\ rows[a] # NoRow
                     /\ action[a].status = "executing"
                  THEN CloseAttempt(attempts[a], "failed")
                  ELSE attempts[a]
       IN  IF rows[a] # NoRow /\ rows[a].attempts > action[a].attempts
           THEN Append(log, rows[a].status)
           ELSE log]
  /\ UNCHANGED <<now, faults, environment, posture, version, authorization>>

ClaimSelect(w) ==
  /\ worker[w].phase = "swept"
  /\ \E a \in ActionIds :
       /\ FirstClaimable(w, a)
       /\ View(w, a).attempts < MaxAttempts
       /\ worker' = [worker EXCEPT ![w] =
            [phase |-> "selected", at |-> worker[w].at, action |-> a,
             rows |-> [worker[w].rows EXCEPT ![a] = View(w, a)]]]
  /\ UNCHANGED <<now, faults, environment, database>>

(* NOT FOUND: the sweeps are committed and nothing is claimed.             *)
ClaimNothing(w) ==
  /\ worker[w].phase = "swept"
  /\ ~\E a \in ActionIds : Claimable(w, a) /\ Free(a, w)
  /\ Commit(w, worker[w].rows)
  /\ worker' = [worker EXCEPT ![w] = Idle]

ClaimedRow(w) ==
  LET r == worker[w].rows[worker[w].action]
  IN  [r EXCEPT !.status = "executing", !.attempts = @ + 1,
                !.expected = version[r.target],
                !.lease = worker[w].at + LeaseTime, !.failure = "none"]

BugSelectedStaleNever(w) == FALSE

(* The recovery was authorized for another version than the one the claim  *)
(* reads under the lock of the state row.                                  *)
SelectedStale(w) ==
  LET a == worker[w].action
      r == worker[w].rows[a]
  IN  IsRecovery(r) /\ authorization[a].version # version[r.target]

BugTargetBusyUnindexed(w) == FALSE

(* security_actions_one_executing_per_target would have a second entry.    *)
TargetBusy(w) ==
  \E b \in ActionIds \ {worker[w].action} :
    /\ View(w, b).status = "executing"
    /\ View(w, b).target = worker[w].rows[worker[w].action].target

(* The rest of the function: with the state row locked, which keeps other  *)
(* claims and successes of the target out, suppress the recovery, or take  *)
(* the row, or fail on the unique index, which rolls back all it did.      *)
ClaimSuppressed(w) ==
  /\ worker[w].phase = "selected"
  /\ SelectedStale(w)
  /\ Commit(w, [worker[w].rows EXCEPT ![worker[w].action] =
                  SuppressRow(@, "RECOVERY_STATE_CHANGED")])
  /\ worker' = [worker EXCEPT ![w] = Idle]

ClaimTake(w) ==
  /\ worker[w].phase = "selected"
  /\ ~SelectedStale(w)
  /\ ~TargetBusy(w)
  /\ Commit(w, [worker[w].rows EXCEPT ![worker[w].action] = ClaimedRow(w)])
  /\ worker' = [worker EXCEPT ![w] =
       [phase |-> "claimed", action |-> worker[w].action,
        attempt |-> ClaimedRow(w).attempts,
        posture |-> posture[ClaimedRow(w).target], reference |-> 0]]

ClaimConflict(w) ==
  /\ worker[w].phase = "selected"
  /\ ~SelectedStale(w)
  /\ TargetBusy(w)
  /\ worker' = [worker EXCEPT ![w] = Idle]
  /\ UNCHANGED <<now, faults, environment, database>>

(* recover_expired_security_action_leases, the startup sweep.              *)
RecoverExpiredLeases ==
  /\ \E time \in Stamps :
       /\ \A a \in ActionIds, w \in Workers :
            Expired(action[a], time) => ~LockedBy(w, a)
       /\ action' = [a \in ActionIds |-> ExpireRow(action[a], time)]
       /\ attempts' = [a \in ActionIds |-> ExpireAttempts(a, time)]
  /\ UNCHANGED <<now, faults, environment, posture, version, authorization,
                 worker>>

----------------------------------------------------------------------------
(* Execution by a worker *)

TypeOf(w)   == action[worker[w].action].type
TargetOf(w) == action[worker[w].action].target

Step(w, phase) == worker' = [worker EXCEPT ![w].phase = phase]

(* The executor's own check of recoveryAuthorizedUntil.                    *)
ExecutorAccepts(w) ==
  TypeOf(w) \in RecoveryTypes => Unexpired(worker[w].action, now)

(* runOnce between the claim and markSucceeded: the transition function,   *)
(* then the executor and, for two types, the certificate authority.        *)
RejectExecution(w) ==
  /\ worker[w].phase = "claimed"
  /\ \/ ~TransitionDefined(worker[w].posture, TypeOf(w))
     \/ ~ExecutorAccepts(w)
  /\ Step(w, "failing")
  /\ UNCHANGED <<now, faults, environment, database>>

ReadyToExecute(w) ==
  /\ worker[w].phase = "claimed"
  /\ TransitionDefined(worker[w].posture, TypeOf(w))
  /\ ExecutorAccepts(w)

ExecuteInternal(w) ==
  /\ ReadyToExecute(w)
  /\ TypeOf(w) \notin {"revoke-certificate", "issue-replacement-certificate"}
  /\ Step(w, "executed")
  /\ UNCHANGED <<now, faults, environment, database>>

(* The authority confirms the revocation.  The inventory shows it, unless  *)
(* recording it there went wrong.                                          *)
ExecuteRevocation(w) ==
  /\ ReadyToExecute(w)
  /\ TypeOf(w) = "revoke-certificate"
  /\ \/ /\ inventory' = [inventory EXCEPT ![TargetOf(w)] = "revoked"]
        /\ UNCHANGED faults
     \/ Fault /\ UNCHANGED inventory
  /\ Step(w, "executed")
  /\ UNCHANGED <<now, replacements, trust, database>>

(* The adapter answers with a certificate it issues now or issued before.  *)
ExecuteReplacement(w) ==
  /\ ReadyToExecute(w)
  /\ TypeOf(w) = "issue-replacement-certificate"
  /\ \E at \in replacements[TargetOf(w)] \cup {now} :
       /\ replacements' = [replacements EXCEPT ![TargetOf(w)] = @ \cup {at}]
       /\ worker' = [worker EXCEPT ![w].phase = "executed",
                                   ![w].reference = at]
  /\ UNCHANGED <<now, faults, inventory, trust, database>>

(* The authority fails or its answer is lost, after its effect or not.     *)
ExecutorFails(w) ==
  /\ ReadyToExecute(w)
  /\ Fault
  /\ \/ TypeOf(w) = "revoke-certificate" /\ UNCHANGED replacements
        /\ inventory' \in {inventory,
                           [inventory EXCEPT ![TargetOf(w)] = "revoked"]}
     \/ TypeOf(w) = "issue-replacement-certificate" /\ UNCHANGED inventory
        /\ replacements' \in {replacements,
             [replacements EXCEPT ![TargetOf(w)] = @ \cup {now}]}
  /\ Step(w, "failing")
  /\ UNCHANGED <<now, trust, database>>

BugHoldsClaimAnyStatus(w, time) ==
  /\ action[worker[w].action].attempts = worker[w].attempt
  /\ action[worker[w].action].lease >= time

(* Status, token and lease check of mark_security_action_*.                *)
HoldsClaim(w, time) ==
  LET r == action[worker[w].action] IN
  /\ r.status = "executing"
  /\ r.attempts = worker[w].attempt
  /\ r.lease >= time

ResultState(w) == TransitionState(worker[w].posture, TypeOf(w))

BugRecordableUnconfirmed(w, time) ==
  LET a == worker[w].action
      t == TargetOf(w)
  IN  /\ HoldsClaim(w, time)
      /\ version[t] = action[a].expected
      /\ ResultState(w) = ExpectedState(posture[t], TypeOf(w))
      /\ TypeOf(w) \in RecoveryTypes => Unexpired(a, time)
      /\ TypeOf(w) = "issue-replacement-certificate" =>
           worker[w].reference >= authorization[a].at

RecordableSuccess(w, time) ==
  LET a == worker[w].action
      t == TargetOf(w)
  IN  /\ HoldsClaim(w, time)
      /\ version[t] = action[a].expected
      /\ ResultState(w) = ExpectedState(posture[t], TypeOf(w))
      /\ TypeOf(w) \in RecoveryTypes => Unexpired(a, time)
      /\ TypeOf(w) = "issue-replacement-certificate" =>
           worker[w].reference >= authorization[a].at
      /\ TypeOf(w) = "revoke-certificate" => inventory[t] = "revoked"
      /\ posture[t].targetCertificate = "revoked" => inventory[t] = "revoked"

(* mark_security_action_succeeded; its answer may be lost.                 *)
MarkSucceeded(w) ==
  /\ worker[w].phase = "executed"
  /\ Free(worker[w].action, w)
  /\ \E time \in Stamps :
       /\ RecordableSuccess(w, time)
       /\ LET a == worker[w].action
              t == TargetOf(w)
          IN  /\ posture' = [posture EXCEPT ![t] = ResultState(w)]
              /\ version' = [version EXCEPT ![t] = @ + 1]
              /\ action' = [action EXCEPT ![a].status = "succeeded",
                                          ![a].lease = 0]
              /\ attempts' = [attempts EXCEPT ![a] =
                                CloseAttempt(@, "succeeded")]
  /\ \/ worker' = [worker EXCEPT ![w] = Idle] /\ UNCHANGED faults
     \/ Step(w, "failing") /\ Fault
  /\ UNCHANGED <<now, environment, authorization>>

MarkSucceededRejected(w) ==
  /\ worker[w].phase = "executed"
  /\ Free(worker[w].action, w)
  /\ \E time \in Stamps : ~RecordableSuccess(w, time)
  /\ Step(w, "failing")
  /\ UNCHANGED <<now, faults, environment, database>>

(* mark_security_action_failed; a claim conflict leaves the row alone.     *)
MarkFailed(w) ==
  /\ worker[w].phase = "failing"
  /\ Free(worker[w].action, w)
  /\ \E time \in Stamps :
       LET a == worker[w].action IN
       IF HoldsClaim(w, time)
       THEN /\ action' = [action EXCEPT ![a] =
                 FailRow(@, "ACTION_EXECUTION_FAILED",
                         time + RetryDelay(worker[w].attempt))]
            /\ attempts' = [attempts EXCEPT ![a] = CloseAttempt(@, "failed")]
       ELSE UNCHANGED <<action, attempts>>
  /\ worker' = [worker EXCEPT ![w] = Idle]
  /\ UNCHANGED <<now, faults, environment, posture, version, authorization>>

----------------------------------------------------------------------------
(* Environment *)

(* A worker process dies.  A claim whose connection dies is rolled back,   *)
(* which is the same as a claim that was never called.                     *)
Crash(w) ==
  /\ worker[w].phase \in HoldingPhases
  /\ Fault
  /\ worker' = [worker EXCEPT ![w] = Idle]
  /\ UNCHANGED <<now, environment, database>>

(* record_certificate_revocation called by the owner or an administrator.  *)
RevokeOutside(t) ==
  /\ OutsideRevocation
  /\ inventory[t] = "active"
  /\ inventory' = [inventory EXCEPT ![t] = "revoked"]
  /\ UNCHANGED <<now, faults, replacements, trust, database, worker>>

(* A new current trust transition of the subject.                          *)
TrustTransition(t, band) ==
  /\ trust[t].id < MaxTransitions
  /\ trust' = [trust EXCEPT ![t] =
                 [id |-> @.id + 1, band |-> band, at |-> now]]
  /\ UNCHANGED <<now, faults, inventory, replacements, database, worker>>

(* Time passes only while something is waiting for it.                     *)
Timer(time) ==
  \/ \E a \in ActionIds :
       \/ action[a].status = "executing" /\ action[a].lease >= time
       \/ Waiting(action[a]) /\ action[a].next > time
       \/ /\ Live(action[a])
          /\ IsRecovery(action[a])
          /\ Unexpired(a, time)
  \/ \E t \in Targets :
       trust[t].band # "none" /\ trust[t].at + TransitionWindow >= time

(* A lease runs out while its worker is at work, be it at the claim that   *)
(* gives the lease: the worker is too slow.                                *)
OutlivesLease(w, time) ==
  \/ /\ worker[w].phase \in ClaimPhases
     /\ worker[w].at + LeaseTime = time
  \/ /\ worker[w].phase \in HoldingPhases
     /\ action[worker[w].action].status = "executing"
     /\ action[worker[w].action].attempts = worker[w].attempt
     /\ action[worker[w].action].lease = time

Tick ==
  /\ now < MaxTime
  /\ Timer(now)
  /\ now' = now + 1
  /\ IF \E w \in Workers : OutlivesLease(w, now') THEN Fault
                                                  ELSE UNCHANGED faults
  /\ UNCHANGED <<environment, database, worker>>

----------------------------------------------------------------------------
(* A worker's own steps, in the order runOnce takes them.                  *)
Work(w) ==
  \/ ClaimSweep(w)
  \/ ClaimSuppress(w)
  \/ ClaimSelect(w)
  \/ ClaimNothing(w)
  \/ ClaimSuppressed(w)
  \/ ClaimTake(w)
  \/ ClaimConflict(w)
  \/ RejectExecution(w)
  \/ ExecuteInternal(w)
  \/ ExecuteRevocation(w)
  \/ ExecuteReplacement(w)
  \/ ExecutorFails(w)
  \/ MarkSucceeded(w)
  \/ MarkSucceededRejected(w)
  \/ MarkFailed(w)

Request(a, t) ==
  \/ \E type \in RequestedTypes \cap QuarantineTypes : RequestQuarantine(a, t, type)
  \/ \E type \in RequestedTypes \cap SeverityTypes : EnqueueSeverity(a, t, type)
  \/ \E type \in RequestedTypes \cap RecoveryTypes : AuthorizeRecovery(a, t, type)

Next ==
  \/ \E a \in ActionIds, t \in Targets : Request(a, t)
  \/ \E w \in Workers : Work(w) \/ Crash(w)
  \/ RecoverExpiredLeases
  \/ \E t \in Targets :
       RevokeOutside(t) \/ \E band \in RecoveredBands : TrustTransition(t, band)
  \/ Tick

Spec == Init /\ [][Next]_vars

(* Workers keep calling runOnce and time passes: the bound on leases that  *)
(* are outlived stops the clock during a claim, and must not do so with    *)
(* claim after claim.                                                      *)
FairSpec ==
  /\ Spec
  /\ \A w \in Workers : WF_vars(Work(w))
  /\ SF_vars(Tick)

----------------------------------------------------------------------------
(* Properties *)

(* The type of each variable.                                              *)
VariablesTyped ==
  /\ now \in Nat
  /\ faults \in Nat
  /\ inventory \in [Targets -> CertificateStates]
  /\ replacements \in [Targets -> SUBSET Nat]
  /\ trust \in [Targets -> [id : Nat, band : RecoveredBands, at : Nat]]
  /\ posture \in [Targets -> Posture]
  /\ version \in [Targets -> Nat]
  /\ action \in [ActionIds -> Row \cup {NoRow}]
  /\ attempts \in [ActionIds -> Seq({"executing", "succeeded", "failed"})]
  /\ authorization \in [ActionIds -> Authorization]
  /\ worker \in [Workers -> {Idle} \cup Claiming \cup Selected \cup Claim]

(* A worker holds only actions that have a row.                            *)
HeldRequested ==
  \A w \in Workers :
    worker[w].phase \in HoldingPhases => Requested(worker[w].action)

(* Every variable has its type, and the columns read through a claim are   *)
(* columns of a row.                                                       *)
TypeOK == VariablesTyped /\ HeldRequested

(* At most one action of a target is executing                             *)
(* (security_actions_one_executing_per_target).                            *)
OneExecutingPerTarget ==
  \A a, b \in ActionIds :
    /\ action[a].status = "executing"
    /\ action[b].status = "executing"
    /\ action[a].target = action[b].target
    => a = b

(* The claim a worker was answered is still the one in the table.          *)
ClaimCurrent(w) ==
  /\ worker[w].phase \in HoldingPhases
  /\ action[worker[w].action].status = "executing"
  /\ action[worker[w].action].attempts = worker[w].attempt

(* Two workers never act on one target under claims that are both current, *)
(* whatever claims ran side by side, whatever leases ran out and whoever   *)
(* reclaimed them: claim_security_action selects before it locks the       *)
(* target, and two of them may have selected actions of the same one.      *)
ClaimsExclusive ==
  \A v, w \in Workers :
    ClaimCurrent(v) /\ ClaimCurrent(w) /\ TargetOf(v) = TargetOf(w) => v = w

(* The attempt history agrees with the action: one attempt per counted     *)
(* claim or suppression, every attempt but the last closed as failed, the  *)
(* last one open exactly while the action executes and succeeded exactly   *)
(* when it succeeded.  Lease expiry, lost answers and late workers never   *)
(* leave an attempt open or close one twice (security_action_attempts).    *)
AttemptLedger ==
  \A a \in ActionIds :
    IF ~Requested(a) THEN attempts[a] = <<>>
    ELSE /\ Len(attempts[a]) = action[a].attempts
         /\ \A i \in 1..Len(attempts[a]) :
              IF i < Len(attempts[a]) THEN attempts[a][i] = "failed"
              ELSE attempts[a][i] = action[a].status
         /\ action[a].status # "pending" => action[a].attempts > 0

(* A recovery executes only while no severity action of its target has     *)
(* been started and left unfinished (security-action-adversarial-          *)
(* verification.md:14).  It does not hold: the claim looks for severity    *)
(* actions when it selects, not when it takes.                             *)
SeverityPrecedence ==
  \A a, b \in ActionIds :
    /\ action[a].status = "executing" /\ IsRecovery(action[a])
    /\ Live(action[b]) /\ IsSeverity(action[b])
    /\ action[a].target = action[b].target
    => action[b].attempts = 0

(* What a worker computed from the posture it was given at claim time is   *)
(* what PostgreSQL derives when the worker reports: as long as the claim   *)
(* is held, an effect confirmed by the executor is never refused with      *)
(* SECURITY_ACTION_STATE_CONFLICT or SECURITY_ACTION_RESULT_INVALID.  The  *)
(* two differ on revoking a certificate that was revoked and recovered     *)
(* from; the redundancy sweep is to keep such an action from executing, and*)
(* does not if it is queued between the sweep and the selection.           *)
ResultAccepted ==
  \A w \in Workers :
    worker[w].phase = "executed" /\ ClaimCurrent(w)
    => /\ version[TargetOf(w)] = action[worker[w].action].expected
       /\ worker[w].posture = posture[TargetOf(w)]
       /\ ResultState(w) = ExpectedState(posture[TargetOf(w)], TypeOf(w))

(* A posture that says "revoked" is backed by the inventory: neither an    *)
(* unconfirmed revocation nor a late worker makes the two disagree.        *)
RevokedInInventory ==
  \A t \in Targets :
    posture[t].targetCertificate = "revoked" => inventory[t] = "revoked"

(* Every posture an action produced is one the JavaScript validator        *)
(* accepts; only a row created for an already revoked certificate is not,  *)
(* and no action is ever applied to such a row.                            *)
PostureDefined ==
  \A t \in Targets :
    \/ DefinedState(posture[t])
    \/ /\ version[t] = 1
       /\ posture[t] = [InitialState EXCEPT !.targetCertificate = "revoked"]

(* A settled action is never executed, failed or suppressed again, in      *)
(* particular not by markFailed after the answer of markSucceeded is lost. *)
SettledIsFinal ==
  [][\A a \in ActionIds :
       Requested(a) /\ Settled(action[a]) => action'[a] = action[a]]_vars

(* A recovery takes effect on exactly the posture version it was           *)
(* authorized for: no other action took effect in between, although the    *)
(* claim, not the authorization, sets the version the result is checked    *)
(* against.                                                                *)
RecoveryOnAuthorizedPosture ==
  [][\A a \in ActionIds :
       /\ Requested(a) /\ IsRecovery(action[a])
       /\ action'[a].status = "succeeded" /\ action[a].status # "succeeded"
       => authorization[a].version = version[action[a].target]]_vars

(* A control is suppressed as ACTION_ALREADY_SATISFIED only if the durable *)
(* state represents it: applying it is defined and changes nothing.        *)
SuppressedControlInForce ==
  [][\A a \in ActionIds :
       /\ Requested(a)
       /\ action'[a].failure = "ACTION_ALREADY_SATISFIED"
       /\ action[a].failure # "ACTION_ALREADY_SATISFIED"
       => LET s == posture[action[a].target]
          IN  /\ TransitionDefined(s, action[a].type)
              /\ TransitionState(s, action[a].type) = s]_vars

(* An exact replay of a severity request returns the existing action.      *)
ExactReplayReturnsAction ==
  \A a \in ActionIds :
    Requested(a) /\ IsSeverity(action[a]) => ReplayAnswer(action[a]) = "returned"

(* Every protective action settles: it takes effect, or is suppressed      *)
(* because its effect is in force, despite crashes, failures and expiries, *)
(* unless its target was revoked outside the queue before it had a posture *)
(* (a row the validator rejects).                                          *)
ProtectionSettles ==
  \A a \in ActionIds, t \in Targets :
    (Requested(a) /\ action[a].target = t /\ ~IsRecovery(action[a])) ~>
      Settled(action[a]) \/ ~DefinedState(posture[t])

(* The queue implements SecurityPosture: a grant is a stored authorization *)
(* of the present state version.                                           *)
GrantedTypes(t) ==
  {action[a].type : a \in {b \in ActionIds :
     /\ Requested(b)
     /\ IsRecovery(action[b])
     /\ action[b].target = t
     /\ authorization[b].version = version[t]}}

Abstract == INSTANCE SecurityPosture WITH
  tracked <- {t \in Targets : version[t] > 0},
  granted <- [t \in Targets |-> GrantedTypes(t)]

ImplementsPosture == Abstract!Spec
=============================================================================
