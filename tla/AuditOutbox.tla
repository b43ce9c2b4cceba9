---------------------------- MODULE AuditOutbox ----------------------------
(***************************************************************************)
(* Anchoring audit events on Fabric: the outbox of migrations 030 and 032, *)
(* the worker of services/audit/src/index.mjs, the gateway of              *)
(* apps/api/src/fabric-audit-gateway.mjs and the chaincode of              *)
(* chaincode/audit/src/audit-contract.ts.                                  *)
(*                                                                         *)
(* Fabric endorses a commitment, orders its transaction and decides later  *)
(* whether it is valid. A worker may die, fail or outlive its claim between*)
(* any two of its calls, and any answer may be lost.                       *)
(*                                                                         *)
(* Simplifications:                                                        *)
(*   - the ledger key is derived from the event, so it is the event;       *)
(*   - a claim token is the number of the claim of its row;                *)
(*   - next_attempt_at and next_confirmation_at are one field: each is     *)
(*     written before the status in which it is read;                      *)
(*   - rows due at the same time are claimed in any order;                 *)
(*   - every worker's clock has a fixed offset to the one of the database. *)
(***************************************************************************)
EXTENDS Integers, Sequences, FiniteSets

CONSTANTS
  Events,            \* audit events of one tenant's channel
  Values,            \* commitments an event may be enqueued with
  NoValue,           \* an unused ledger key
  Workers,           \* running outbox workers
  LeaseTime,         \* 5 min
  InitialRetryDelay, \* 5 s
  MaxRetryDelay,     \* 600 s
  ClockTolerance,    \* 2 s
  MaxOffset,         \* bound: offset of a worker's clock
  MaxTime,           \* bound: last tick
  MaxClaims,         \* bound: claims of one row
  MaxFaults          \* bound: crashes, outages, lost answers, late commits

ASSUME NoValueAssumption == NoValue \notin Values
ASSUME TimesAssumption ==
  /\ LeaseTime \in Nat /\ ClockTolerance \in Nat
  /\ InitialRetryDelay \in Nat \ {0} /\ MaxRetryDelay \in Nat \ {0}
ASSUME BoundsAssumption ==
  /\ MaxOffset \in Nat /\ MaxTime \in Nat /\ MaxClaims \in Nat
  /\ MaxFaults \in Nat

VARIABLES
  now,      \* the database clock
  faults,   \* faults that happened so far
  offset,   \* offset of each worker's clock
  row,      \* audit.fabric_commitment_outbox
  attempts, \* audit.fabric_commitment_attempt
  txs,      \* transactions the orderer accepted; an id is an index
  ledger,   \* the world state: the commitment of each event
  worker    \* what each worker process is doing

vars == <<now, faults, offset, row, attempts, txs, ledger, worker>>

fabric == <<txs, ledger>>

----------------------------------------------------------------------------
(* Types *)

Statuses ==
  {"pending", "submitting", "confirming", "submitted", "committed", "failed"}

Row ==
  [status    : Statuses,
   value     : Values,
   attempts  : Nat,  \* attempt_count
   claims    : Nat,  \* the claim token, while the row is claimed
   claimedAt : Nat,
   due       : Nat,  \* next_attempt_at or next_confirmation_at
   tx        : Nat]  \* transaction_id; 0 is none

NoRow == [status |-> "none"]

Attempt ==
  [event  : Events,
   number : Nat,
   tx     : Nat,
   state  : {"submitted", "committed", "failed"}]

(* The chaincode's answer, and what became of the transaction.             *)
Transaction ==
  [event   : Events,
   value   : Values,
   status  : {"created", "duplicate"},
   outcome : {"ordered", "valid", "invalid"}]

HoldingPhases ==
  {"claimed",    \* about to submit
   "accepted",   \* submitted, about to record the transaction
   "confirming", \* waiting for the commit status or asking for it
   "resolved",   \* knows the commit status
   "failing",    \* about to report a failed submission
   "pending"}    \* about to report that the outcome is unknown

Claim ==
  [phase : HoldingPhases, event : Events, token : Nat, tx : Nat]

(* "idle" starts a round with a confirmation, "next" continues it with a   *)
(* submission.                                                             *)
Idle == [phase |-> "idle"]
Continue == [phase |-> "next"]

----------------------------------------------------------------------------
(* Helpers *)

Clock(w) == now + offset[w]

(* delayFor                                                                *)
RetryDelay(n) ==
  LET delay == InitialRetryDelay * 2 ^ (n - 1)
  IN  IF delay \in 1..MaxRetryDelay THEN delay ELSE MaxRetryDelay

Fault == faults < MaxFaults /\ faults' = faults + 1

Step(w, phase) == worker' = [worker EXCEPT ![w].phase = phase]

Become(w, value) == worker' = [worker EXCEPT ![w] = value]

RowOf(w) == row[worker[w].event]

(* Every report of a worker names the status it expects and its token.     *)
Holds(w, status) ==
  /\ RowOf(w).status = status
  /\ RowOf(w).claims = worker[w].token

(* ... and, while the row is confirming, its transaction.                  *)
HoldsTransaction(w) ==
  Holds(w, "confirming") /\ RowOf(w).tx = worker[w].tx

(* Updates of the attempt of a transaction.                                *)
Resolve(e, tx, state) ==
  {IF a.event = e /\ a.tx = tx THEN [a EXCEPT !.state = state] ELSE a :
     a \in attempts}

----------------------------------------------------------------------------
Init ==
  /\ now = MaxOffset
  /\ faults = 0
  /\ offset \in [Workers -> (-MaxOffset)..MaxOffset]
  /\ row = [e \in Events |-> NoRow]
  /\ attempts = {}
  /\ txs = <<>>
  /\ ledger = [e \in Events |-> NoValue]
  /\ worker = [w \in Workers |-> Idle]

----------------------------------------------------------------------------
(* Enqueueing *)

NewRow(v) ==
  [status |-> "pending", value |-> v, attempts |-> 0, claims |-> 0,
   claimedAt |-> 0, due |-> now, tx |-> 0]

\* An operator named Bug... is what a plausible mistake would turn the definition
\* after it into; no specification uses it.

BugEnqueueReplaces(e, v) ==
  /\ row' = [row EXCEPT ![e] = IF @ = NoRow THEN NewRow(v)
                                            ELSE [@ EXCEPT !.value = v]]
  /\ UNCHANGED <<now, faults, offset, attempts, fabric, worker>>

(* enqueue_fabric_commitment: a second request of the event changes        *)
(* nothing, and is an error when its commitment differs.                   *)
Enqueue(e, v) ==
  /\ row[e] = NoRow
  /\ row' = [row EXCEPT ![e] = NewRow(v)]
  /\ UNCHANGED <<now, faults, offset, attempts, fabric, worker>>

----------------------------------------------------------------------------
(* Claims *)

Stale(r, status, time) ==
  r.status = status /\ r.claimedAt < time - LeaseTime

(* Abandoned claims, recovered by the next claim of the same kind.         *)
RecoverConfirmation(r, time) ==
  IF Stale(r, "confirming", time)
  THEN [r EXCEPT !.status = "submitted", !.claimedAt = 0, !.due = time]
  ELSE r

BugRecoverSubmissionNever(r, time) == r

RecoverSubmission(r, time) ==
  IF Stale(r, "submitting", time)
  THEN [r EXCEPT !.status = "failed", !.claimedAt = 0, !.due = time]
  ELSE r

Due(r, statuses, time) == r.status \in statuses /\ r.due <= time

FirstDue(e, rows, statuses, time) ==
  /\ Due(rows[e], statuses, time)
  /\ \A f \in Events :
       Due(rows[f], statuses, time) => rows[e].due <= rows[f].due

(* claim_fabric_commitment_confirmation                                    *)
ClaimConfirmation(w) ==
  /\ worker[w].phase = "idle"
  /\ offset[w] <= ClockTolerance
  /\ LET time == Clock(w)
         rows == [e \in Events |-> RecoverConfirmation(row[e], time)]
     IN  \/ \E e \in Events :
              /\ FirstDue(e, rows, {"submitted"}, time)
              /\ rows[e].claims < MaxClaims
              /\ row' = [rows EXCEPT ![e] =
                   [rows[e] EXCEPT !.status = "confirming", !.claims = @ + 1,
                                   !.claimedAt = time]]
              /\ Become(w, [phase |-> "confirming", event |-> e,
                            token |-> rows[e].claims + 1, tx |-> rows[e].tx])
         \/ /\ ~\E e \in Events : Due(rows[e], {"submitted"}, time)
            /\ row' = rows
            /\ Become(w, Continue)
  /\ UNCHANGED <<now, faults, offset, attempts, fabric>>

(* What may be submitted (again).                                          *)
Submittable == {"pending", "failed"}

(* claim_fabric_commitment: forgets the outcome of the last attempt.       *)
ClaimSubmission(w) ==
  /\ worker[w].phase = "next"
  /\ LET time == Clock(w)
         rows == [e \in Events |-> RecoverSubmission(row[e], time)]
     IN  \/ \E e \in Events :
              /\ FirstDue(e, rows, Submittable, time)
              /\ rows[e].claims < MaxClaims
              /\ row' = [rows EXCEPT ![e] =
                   [rows[e] EXCEPT !.status = "submitting", !.claims = @ + 1,
                                   !.attempts = @ + 1, !.claimedAt = time,
                                   !.tx = 0]]
              /\ Become(w, [phase |-> "claimed", event |-> e,
                            token |-> rows[e].claims + 1, tx |-> 0])
         \/ /\ ~\E e \in Events : Due(rows[e], Submittable, time)
            /\ row' = rows
            /\ Become(w, Idle)
  /\ UNCHANGED <<now, faults, offset, attempts, fabric>>

----------------------------------------------------------------------------
(* Fabric *)

(* CommitCommitment, evaluated by the endorsing peers.                     *)
Endorse(e, v) ==
  IF ledger[e] = NoValue THEN "created"
  ELSE IF ledger[e] = v THEN "duplicate" ELSE "conflict"

(* The orderer accepts the endorsed transaction.                           *)
Order(e, v) ==
  /\ Endorse(e, v) # "conflict"
  /\ txs' = Append(txs, [event |-> e, value |-> v,
                         status |-> Endorse(e, v), outcome |-> "ordered"])
  /\ UNCHANGED ledger

(* A transaction that read an unused key conflicts with one that used it   *)
(* in the meantime.                                                        *)
Serializable(t) == t.status = "created" => ledger[t.event] = NoValue

(* The peers validate an ordered transaction; other reasons than a read    *)
(* conflict to reject it are faults.                                       *)
Decide(i) ==
  /\ txs[i].outcome = "ordered"
  /\ \/ /\ Serializable(txs[i])
        /\ txs' = [txs EXCEPT ![i].outcome = "valid"]
        /\ ledger' = IF txs[i].status = "created"
                     THEN [ledger EXCEPT ![txs[i].event] = txs[i].value]
                     ELSE ledger
        /\ UNCHANGED faults
     \/ /\ ~Serializable(txs[i])
        /\ txs' = [txs EXCEPT ![i].outcome = "invalid"]
        /\ UNCHANGED <<ledger, faults>>
     \/ /\ Fault
        /\ txs' = [txs EXCEPT ![i].outcome = "invalid"]
        /\ UNCHANGED ledger
  /\ UNCHANGED <<now, offset, row, attempts, worker>>

----------------------------------------------------------------------------
(* Submission *)

(* submitCommitment                                                        *)
Submit(w) ==
  /\ worker[w].phase = "claimed"
  /\ Order(worker[w].event, RowOf(w).value)
  /\ Become(w, [worker[w] EXCEPT !.phase = "accepted", !.tx = Len(txs')])
  /\ UNCHANGED <<now, faults, offset, row, attempts>>

(* It fails before the orderer accepted the transaction, or its answer is  *)
(* lost afterwards; the chaincode may also refuse the commitment.          *)
SubmissionFails(w) ==
  /\ worker[w].phase = "claimed"
  /\ \/ /\ Endorse(worker[w].event, RowOf(w).value) = "conflict"
        /\ UNCHANGED <<fabric, faults>>
     \/ UNCHANGED fabric /\ Fault
     \/ Order(worker[w].event, RowOf(w).value) /\ Fault
  /\ Step(w, "failing")
  /\ UNCHANGED <<now, offset, row, attempts>>

(* record_fabric_commitment_submission; its answer may be lost.            *)
RecordSubmission(w) ==
  /\ worker[w].phase = "accepted"
  /\ Holds(w, "submitting")
  /\ row' = [row EXCEPT ![worker[w].event].status = "confirming",
                        ![worker[w].event].tx = worker[w].tx]
  /\ attempts' = attempts \cup
       {[event |-> worker[w].event, number |-> RowOf(w).attempts,
         tx |-> worker[w].tx, state |-> "submitted"]}
  /\ \/ Step(w, "confirming") /\ UNCHANGED faults
     \/ Step(w, "failing") /\ Fault
  /\ UNCHANGED <<now, offset, fabric>>

(* The database refuses the record or cannot be reached.                   *)
RecordingFails(w) ==
  /\ worker[w].phase = "accepted"
  /\ \/ ~Holds(w, "submitting") /\ UNCHANGED faults
     \/ Fault
  /\ Step(w, "failing")
  /\ UNCHANGED <<now, offset, row, attempts, fabric>>

(* mark_fabric_commitment_failed; a refusal makes runOnce throw.           *)
MarkFailed(w) ==
  /\ worker[w].phase = "failing"
  /\ IF Holds(w, "submitting")
     THEN \/ /\ row' = [row EXCEPT
                  ![worker[w].event].status = "failed",
                  ![worker[w].event].claimedAt = 0,
                  ![worker[w].event].due =
                    Clock(w) + RetryDelay(RowOf(w).attempts)]
             /\ UNCHANGED faults
          \/ UNCHANGED row /\ Fault
     ELSE UNCHANGED <<row, faults>>
  /\ Become(w, Idle)
  /\ UNCHANGED <<now, offset, attempts, fabric>>

----------------------------------------------------------------------------
(* Confirmation *)

Outcome(w) == txs[worker[w].tx].outcome

(* waitForCommit and queryTransactionStatus                                *)
LearnOutcome(w) ==
  /\ worker[w].phase = "confirming"
  /\ Outcome(w) # "ordered"
  /\ Step(w, "resolved")
  /\ UNCHANGED <<now, faults, offset, row, attempts, fabric>>

BugUnknownOutcome(w) == "resolved"

(* Where an unknown outcome leads.                                         *)
UnknownOutcome(w) == "pending"

(* The status does not come in time, or cannot be asked for. Waiting in    *)
(* vain is counted as a fault, which bounds it.                            *)
OutcomeUnknown(w) ==
  /\ worker[w].phase = "confirming"
  /\ Fault
  /\ Step(w, UnknownOutcome(w))
  /\ UNCHANGED <<now, offset, row, attempts, fabric>>

Final(w) == IF Outcome(w) = "valid" THEN "committed" ELSE "failed"

(* mark_fabric_commitment_committed, or ..._commit_failed for any other    *)
(* validation code; the answer may be lost.                                *)
MarkFinal(w) ==
  /\ worker[w].phase = "resolved"
  /\ HoldsTransaction(w)
  /\ LET e == worker[w].event IN
     /\ row' = [row EXCEPT
          ![e].status = Final(w), ![e].claimedAt = 0,
          ![e].due = IF Final(w) = "committed" THEN @
                     ELSE Clock(w) + RetryDelay(RowOf(w).attempts)]
     /\ attempts' = Resolve(e, worker[w].tx, Final(w))
  /\ \/ Become(w, Idle) /\ UNCHANGED faults
     \/ Step(w, "pending") /\ Fault
  /\ UNCHANGED <<now, offset, fabric>>

MarkingFails(w) ==
  /\ worker[w].phase = "resolved"
  /\ \/ ~HoldsTransaction(w) /\ UNCHANGED faults
     \/ Fault
  /\ Step(w, "pending")
  /\ UNCHANGED <<now, offset, row, attempts, fabric>>

(* mark_fabric_commitment_confirmation_pending; a refusal makes runOnce    *)
(* throw.                                                                  *)
MarkPending(w) ==
  /\ worker[w].phase = "pending"
  /\ IF HoldsTransaction(w)
     THEN \/ /\ row' = [row EXCEPT
                  ![worker[w].event].status = "submitted",
                  ![worker[w].event].claimedAt = 0,
                  ![worker[w].event].due =
                    Clock(w) + RetryDelay(RowOf(w).attempts)]
             /\ UNCHANGED faults
          \/ UNCHANGED row /\ Fault
     ELSE UNCHANGED <<row, faults>>
  /\ Become(w, Idle)
  /\ UNCHANGED <<now, offset, attempts, fabric>>

----------------------------------------------------------------------------
(* Environment *)

Crash(w) ==
  /\ worker[w].phase # "idle"
  /\ Fault
  /\ Become(w, Idle)
  /\ UNCHANGED <<now, offset, row, attempts, fabric>>

InFlight(e) == row[e].status \in {"submitting", "confirming"}

(* Time passes only while a claim or a retry waits for it.                 *)
Timer ==
  \E e \in Events :
    \/ InFlight(e) /\ row[e].claimedAt + LeaseTime + MaxOffset >= now
    \/ /\ row[e].status \in Submittable \cup {"submitted"}
       /\ row[e].due + MaxOffset > now

(* A first clock is about to declare a worker at work abandoned.           *)
OutlivesLease(w) ==
  /\ worker[w].phase \in HoldingPhases
  /\ InFlight(worker[w].event)
  /\ RowOf(w).claims = worker[w].token
  /\ \E u \in Workers : RowOf(w).claimedAt + LeaseTime = Clock(u)
  /\ \A u \in Workers : RowOf(w).claimedAt + LeaseTime >= Clock(u)

Tick ==
  /\ now < MaxTime
  /\ Timer
  /\ now' = now + 1
  /\ IF \E w \in Workers : OutlivesLease(w) THEN Fault ELSE UNCHANGED faults
  /\ UNCHANGED <<offset, row, attempts, fabric, worker>>

----------------------------------------------------------------------------
(* A worker's own steps, in the order runOnce takes them.                  *)
Work(w) ==
  \/ ClaimConfirmation(w)
  \/ ClaimSubmission(w)
  \/ Submit(w)
  \/ SubmissionFails(w)
  \/ RecordSubmission(w)
  \/ RecordingFails(w)
  \/ MarkFailed(w)
  \/ LearnOutcome(w)
  \/ OutcomeUnknown(w)
  \/ MarkFinal(w)
  \/ MarkingFails(w)
  \/ MarkPending(w)

Next ==
  \/ \E e \in Events, v \in Values : Enqueue(e, v)
  \/ \E i \in 1..Len(txs) : Decide(i)
  \/ \E w \in Workers : Work(w) \/ Crash(w)
  \/ Tick

Spec == Init /\ [][Next]_vars

(* Workers are polled, time passes, and Fabric decides on what its orderer *)
(* accepted.                                                               *)
FairSpec ==
  /\ Spec
  /\ \A w \in Workers : WF_vars(Work(w))
  /\ WF_vars(\E i \in 1..Len(txs) : Decide(i))
  /\ WF_vars(Tick)

----------------------------------------------------------------------------
(* Properties *)

(* The type of each variable.                                              *)
TypeOK ==
  /\ now \in Nat
  /\ faults \in Nat
  /\ offset \in [Workers -> (-MaxOffset)..MaxOffset]
  /\ row \in [Events -> Row \cup {NoRow}]
  /\ attempts \subseteq Attempt
  /\ txs \in Seq(Transaction)
  /\ ledger \in [Events -> Values \cup {NoValue}]
  /\ worker \in [Workers -> {Idle, Continue} \cup Claim]

(* "An event is committed only after validation code 0 is recorded": the   *)
(* ledger then holds exactly the commitment that was enqueued, through the *)
(* transaction the row names.                                              *)
CommittedIsAnchored ==
  \A e \in Events :
    row[e].status = "committed" =>
      /\ row[e].tx \in 1..Len(txs)
      /\ txs[row[e].tx].event = e
      /\ txs[row[e].tx].outcome = "valid"
      /\ ledger[e] = row[e].value

(* An attempt is recorded as committed or failed only when the peers       *)
(* decided so: no timeout, stale claim or late report invents an outcome.  *)
OutcomeNeverInvented ==
  \A a \in attempts :
    /\ a.tx \in 1..Len(txs)
    /\ a.state = "committed" => txs[a.tx].outcome = "valid"
    /\ a.state = "failed" => txs[a.tx].outcome = "invalid"

(* An event is never submitted again while the outcome of a recorded       *)
(* transaction is unknown: an open attempt is the one its row waits for.   *)
OpenAttemptIsCurrent ==
  \A a \in attempts :
    a.state = "submitted" =>
      /\ row[a.event].status \in {"confirming", "submitted"}
      /\ row[a.event].tx = a.tx
      /\ row[a.event].attempts = a.number

(* However often an event is submitted, and by however many workers at the *)
(* same time, one transaction at most writes its commitment.               *)
AnchoredOnce ==
  \A i, j \in 1..Len(txs) :
    /\ txs[i].outcome = "valid" /\ txs[i].status = "created"
    /\ txs[j].outcome = "valid" /\ txs[j].status = "created"
    /\ txs[i].event = txs[j].event
    => i = j

(* A committed row never changes again, whatever a worker reports late.    *)
CommittedIsFinal ==
  [][\A e \in Events : row[e].status = "committed" => row'[e] = row[e]]_vars

(* What the documentation says of the attempts: every transaction that was *)
(* submitted is retained.                                                  *)
SubmissionsRetained ==
  \A i \in 1..Len(txs) :
    \/ \E a \in attempts : a.tx = i
    \/ \E w \in Workers : worker[w].phase = "accepted" /\ worker[w].tx = i

(* Every enqueued event is eventually committed.                           *)
EventuallyCommitted ==
  \A e \in Events : row[e].status # "none" ~> row[e].status = "committed"
=============================================================================
