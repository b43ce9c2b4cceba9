----------------------- MODULE SecurityActionsProofs -----------------------
(***************************************************************************)
(* Proofs about SecurityActions, for every set of targets, action ids and  *)
(* workers, every lease, validity, window and retry time, and every bound. *)
(***************************************************************************)
EXTENDS SecurityActions, SequenceTheorems, TLAPS

Rows == Row \cup {NoRow}

AttemptStates == {"executing", "succeeded", "failed"}

Logs == Seq(AttemptStates)

----------------------------------------------------------------------------
(* Operators on rows *)

(* A row is told from the absence of one by its status.                    *)
LEMMA RequestedIsRow ==
  ASSUME NEW r \in Rows, r.status # "none"
  PROVE  r \in Row
BY DEF Rows, NoRow

LEMMA StatusIsRequested ==
  ASSUME NEW r \in Rows, Waiting(r) \/ r.status = "executing" \/ Settled(r)
  PROVE  r \in Row
BY DEF Rows, NoRow, Waiting, Settled

(* Failing, suppressing and expiring keep a row a row.                     *)
LEMMA FailRowType ==
  ASSUME NEW r \in Row, NEW code \in FailureCodes,
         NEW next \in Nat \cup {Infinity}
  PROVE  FailRow(r, code, next) \in Row
BY DEF FailRow, Row, Statuses

LEMMA SuppressRowType ==
  ASSUME NEW r \in Row, NEW code \in SuppressionCodes
  PROVE  SuppressRow(r, code) \in Row
<1>1. r.attempts + 1 \in Nat
  BY DEF Row
<1>2. code \in FailureCodes /\ "failed" \in Statuses
  BY DEF FailureCodes, Statuses
<1>. QED
  BY <1>1, <1>2 DEF SuppressRow, Row

LEMMA ExpireRowType ==
  ASSUME NEW r \in Rows, NEW time \in Nat
  PROVE  ExpireRow(r, time) \in Rows
<1>1. CASE Expired(r, time)
  <2>1. r \in Row
    BY <1>1, StatusIsRequested DEF Expired
  <2>2. "ACTION_LEASE_EXPIRED" \in FailureCodes
    BY DEF FailureCodes
  <2>. QED
    BY <1>1, <2>1, <2>2, FailRowType DEF ExpireRow, Rows
<1>2. CASE ~Expired(r, time)
  BY <1>2 DEF ExpireRow
<1>. QED
  BY <1>1, <1>2

(* Closing the open attempt of a history gives a history.                  *)
LEMMA CloseAttemptType ==
  ASSUME NEW log \in Logs, NEW outcome \in AttemptStates
  PROVE  CloseAttempt(log, outcome) \in Logs
<1>. DEFINE closed == CloseAttempt(log, outcome)
<1>1. CASE Len(log) = 0
  <2>1. DOMAIN log = 1..0
    BY <1>1, LenProperties DEF Logs
  <2>2. closed = log
    BY <1>1, <2>1 DEF CloseAttempt, Logs
  <2>. QED
    BY <2>2
<1>2. CASE Len(log) # 0
  BY <1>2, ExceptSeq, LenProperties DEF CloseAttempt, Logs
<1>. QED
  BY <1>1, <1>2

LEMMA RetryDelayType ==
  ASSUME NEW n
  PROVE  RetryDelay(n) \in Nat
BY TimesAssumption DEF RetryDelay

(* Transitions stay in the composite state space.                          *)
LEMMA TransitionType ==
  ASSUME NEW s \in Posture, NEW type \in ActionTypes
  PROVE  TransitionState(s, type) \in Posture
<1>. USE DEF TransitionState, Posture, AccessStates, RenewalStates,
             CertificateStates, ReplacementStates
<1>1. CASE type = "restrict-access"
  BY <1>1
<1>2. CASE type = "suspend-subject"
  BY <1>2
<1>3. CASE type = "block-renewal"
  BY <1>3
<1>4. CASE type = "revoke-certificate"
  BY <1>4
<1>5. CASE type = "issue-replacement-certificate"
  BY <1>5
<1>6. CASE type = "restore-access"
  BY <1>6
<1>. QED
  BY <1>1, <1>2, <1>3, <1>4, <1>5, <1>6
     DEF ActionTypes, ProtectiveTypes, QuarantineTypes, SeverityTypes,
         RecoveryTypes

----------------------------------------------------------------------------
(* What a step may do to a row: nothing, create it, or move an unsettled   *)
(* row on without touching its type and target.                            *)

Progress(r, s) ==
  \/ s = r
  \/ /\ r \in Row /\ s \in Row
     /\ ~Settled(r)
     /\ s.type = r.type /\ s.target = r.target
     /\ s.attempts >= r.attempts

Created(r, s) ==
  /\ r.status = "none"
  /\ s \in Row /\ s.status = "pending" /\ s.attempts = 0

(* What a claim may make of a row it locks before it takes it.             *)
Locked(r, s) ==
  /\ r \in Row /\ s \in Row
  /\ ~Settled(r)
  /\ s.type = r.type /\ s.target = r.target
  /\ s.attempts >= r.attempts
  /\ s.attempts > r.attempts => s.status = "failed"
  /\ s.status # "executing"

Seen(r, s) == s = r \/ Locked(r, s)

LEMMA UnsettledWhenWaiting ==
  ASSUME NEW r \in Rows, Waiting(r) \/ r.status = "executing"
  PROVE  r \in Row /\ ~Settled(r)
BY StatusIsRequested DEF Waiting, Settled

LEMMA LockedProgress ==
  ASSUME NEW r, NEW s, Locked(r, s)
  PROVE  Progress(r, s)
BY DEF Locked, Progress

LEMMA FailLocked ==
  ASSUME NEW r \in Row, r.status = "executing", NEW code \in FailureCodes,
         NEW next \in Nat \cup {Infinity}
  PROVE  /\ Locked(r, FailRow(r, code, next))
         /\ FailRow(r, code, next).status = "failed"
<1>1. FailRow(r, code, next) \in Row
  BY FailRowType
<1>. QED
  BY <1>1 DEF Locked, FailRow, Settled, Row

LEMMA SuppressLocked ==
  ASSUME NEW r, NEW s \in Row, Seen(r, s), Waiting(s),
         NEW code \in SuppressionCodes
  PROVE  /\ Locked(r, SuppressRow(s, code))
         /\ SuppressRow(s, code).status = "failed"
<1>1. SuppressRow(s, code) \in Row
  BY SuppressRowType
<1>2. r \in Row /\ ~Settled(r)
  BY UnsettledWhenWaiting DEF Seen, Locked, Rows
<1>3. s.type = r.type /\ s.target = r.target /\ s.attempts >= r.attempts
  BY <1>2 DEF Seen, Locked, Row
<1>4. /\ SuppressRow(s, code).type = s.type
      /\ SuppressRow(s, code).target = s.target
      /\ SuppressRow(s, code).attempts = s.attempts + 1
      /\ SuppressRow(s, code).status = "failed"
  BY DEF SuppressRow, Row
<1>5. s.attempts \in Nat /\ r.attempts \in Nat
  BY <1>2 DEF Row
<1>. QED
  BY <1>1, <1>2, <1>3, <1>4, <1>5 DEF Locked

(* The rows the sweeps leave are rows, and changed ones are Locked.        *)
LEMMA ExpireSeen ==
  ASSUME VariablesTyped, NEW a \in ActionIds, NEW time \in Nat
  PROVE  /\ ExpireRow(action[a], time) \in Rows
         /\ Seen(action[a], ExpireRow(action[a], time))
<1>1. action[a] \in Rows
  BY DEF VariablesTyped, Rows
<1>2. CASE Expired(action[a], time)
  <2>1. action[a] \in Row /\ action[a].status = "executing"
    BY <1>1, <1>2, StatusIsRequested DEF Expired
  <2>2. "ACTION_LEASE_EXPIRED" \in FailureCodes
    BY DEF FailureCodes
  <2>. QED
    BY <1>1, <1>2, <2>1, <2>2, FailLocked, ExpireRowType DEF ExpireRow, Seen
<1>3. CASE ~Expired(action[a], time)
  BY <1>1, <1>3 DEF ExpireRow, Seen
<1>. QED
  BY <1>2, <1>3

LEMMA SweepSeen ==
  ASSUME VariablesTyped, NEW a \in ActionIds, NEW time \in Nat
  PROVE  /\ SweepRow(a, time) \in Rows
         /\ Seen(action[a], SweepRow(a, time))
<1>. DEFINE r == ExpireRow(action[a], time)
<1>1. r \in Rows /\ Seen(action[a], r)
  BY ExpireSeen
<1>2. SweepRow(a, time) = IF StaleRecovery(a, r)
                          THEN SuppressRow(r, "RECOVERY_STATE_CHANGED") ELSE r
  BY DEF SweepRow
<1>. HIDE DEF r
<1>3. CASE StaleRecovery(a, r)
  <2>1. r \in Row /\ Waiting(r)
    BY <1>1, <1>3, StatusIsRequested DEF StaleRecovery
  <2>2. Locked(action[a], SuppressRow(r, "RECOVERY_STATE_CHANGED"))
    BY <1>1, <2>1, SuppressLocked DEF SuppressionCodes
  <2>. QED
    BY <1>2, <1>3, <2>2 DEF Seen, Locked, Rows
<1>4. CASE ~StaleRecovery(a, r)
  BY <1>1, <1>2, <1>4
<1>. QED
  BY <1>3, <1>4

LEMMA ExpireType ==
  ASSUME VariablesTyped, NEW time \in Nat
  PROVE  /\ [a \in ActionIds |-> ExpireRow(action[a], time)]
              \in [ActionIds -> Rows]
         /\ [a \in ActionIds |-> ExpireAttempts(a, time)]
              \in [ActionIds -> Logs]
<1>. SUFFICES ASSUME NEW a \in ActionIds
              PROVE  /\ ExpireRow(action[a], time) \in Rows
                     /\ ExpireAttempts(a, time) \in Logs
  OBVIOUS
<1>1. attempts[a] \in Logs /\ "failed" \in AttemptStates
  BY DEF VariablesTyped, Logs, AttemptStates
<1>. QED
  BY <1>1, ExpireSeen, CloseAttemptType DEF ExpireAttempts

----------------------------------------------------------------------------
(* Row locks *)

WorkerStates == {Idle} \cup Claiming \cup Selected \cup Claim

(* Whoever holds the lock of a row holds it alone; the row is unsettled,   *)
(* and what the claim wrote to it is a step on, but never an execution;    *)
(* and a claim has locked the row it selected, which waits.                *)
LocksInv ==
  /\ \A w \in Workers, a \in ActionIds : LockedBy(w, a) =>
       /\ Free(a, w)
       /\ Locked(action[a], worker[w].rows[a])
  /\ \A w \in Workers : worker[w].phase = "selected" =>
       /\ LockedBy(w, worker[w].action)
       /\ Waiting(worker[w].rows[worker[w].action])

LEMMA ClaimingType ==
  ASSUME VariablesTyped, NEW w \in Workers, worker[w].phase \in ClaimPhases
  PROVE  /\ worker[w] \in Claiming \cup Selected
         /\ worker[w].at \in Nat
         /\ worker[w].rows \in [ActionIds -> Rows]
         /\ worker[w].phase = "selected" => worker[w].action \in ActionIds
         /\ worker[w].phase # "selected" => worker[w] \in Claiming
<1>1. worker[w] \in WorkerStates
  BY DEF VariablesTyped, WorkerStates
<1>2. worker[w] \in Claiming \cup Selected
  BY <1>1 DEF WorkerStates, Idle, Claim, HoldingPhases, ClaimPhases
<1>. QED
  BY <1>2 DEF Claiming, Selected, Rows

LEMMA ViewSeen ==
  ASSUME VariablesTyped, LocksInv, NEW w \in Workers, NEW a \in ActionIds
  PROVE  View(w, a) \in Rows /\ Seen(action[a], View(w, a))
<1>1. action[a] \in Rows
  BY DEF VariablesTyped, Rows
<1>2. CASE LockedBy(w, a)
  BY <1>2 DEF LocksInv, View, Seen, Locked, Rows
<1>3. CASE ~LockedBy(w, a)
  BY <1>1, <1>3 DEF View, Seen
<1>. QED
  BY <1>2, <1>3

(* A step of a claim that changes no more than what the claim has locked.  *)
Locking(w, claim) ==
  /\ UNCHANGED <<now, faults, environment, database>>
  /\ worker' = [worker EXCEPT ![w] = claim]
  /\ claim \in Claiming \cup Selected
  /\ \A a \in ActionIds : claim.rows[a] # NoRow =>
       /\ Free(a, w)
       /\ Locked(action[a], claim.rows[a])
  /\ claim.phase = "selected" =>
       /\ claim.rows[claim.action] # NoRow
       /\ Waiting(claim.rows[claim.action])

LEMMA SweepLocks ==
  ASSUME TypeOK, LocksInv, NEW w \in Workers, ClaimSweep(w)
  PROVE  \E claim : Locking(w, claim)
<1>1. PICK time \in Stamps :
        /\ \A a \in ActionIds : SweepRow(a, time) # action[a] => Free(a, w)
        /\ worker' = [worker EXCEPT ![w] =
             [phase |-> "expired", at |-> time,
              rows |-> [a \in ActionIds |->
                IF SweepRow(a, time) = action[a] THEN NoRow
                                                 ELSE SweepRow(a, time)]]]
  BY DEF ClaimSweep
<1>. DEFINE rows == [a \in ActionIds |->
                       IF SweepRow(a, time) = action[a] THEN NoRow
                                                        ELSE SweepRow(a, time)]
            claim == [phase |-> "expired", at |-> time, rows |-> rows]
<1>2. time \in Nat /\ VariablesTyped
  BY DEF Stamps, TypeOK
<1>3. \A a \in ActionIds : SweepRow(a, time) \in Rows
                             /\ Seen(action[a], SweepRow(a, time))
  BY <1>2, SweepSeen
<1>4. rows \in [ActionIds -> Rows]
  BY <1>3 DEF Rows
<1>5. \A a \in ActionIds : rows[a] # NoRow => /\ Free(a, w)
                                              /\ Locked(action[a], rows[a])
  BY <1>1, <1>3 DEF Seen
<1>6. worker' = [worker EXCEPT ![w] = claim]
  BY <1>1
<1>. HIDE DEF rows
<1>7. claim \in Claiming /\ claim.rows = rows /\ claim.phase = "expired"
  BY <1>2, <1>4 DEF Claiming, Rows
<1>8. UNCHANGED <<now, faults, environment, database>>
  BY DEF ClaimSweep
<1>. HIDE DEF claim
<1>. QED
  BY <1>5, <1>6, <1>7, <1>8 DEF Locking

LEMMA SuppressLocks ==
  ASSUME TypeOK, LocksInv, NEW w \in Workers, ClaimSuppress(w)
  PROVE  \E claim : Locking(w, claim)
<1>. DEFINE rows == [a \in ActionIds |->
              IF Redundant(View(w, a))
              THEN SuppressRow(View(w, a), "ACTION_ALREADY_SATISFIED")
              ELSE worker[w].rows[a]]
            claim == [worker[w] EXCEPT !.phase = "swept", !.rows = rows]
<1>1. /\ worker[w].phase = "expired" /\ worker[w].phase \in ClaimPhases
      /\ VariablesTyped
  BY DEF ClaimSuppress, ClaimPhases, TypeOK
<1>2. worker[w] \in Claiming /\ worker[w].rows \in [ActionIds -> Rows]
  BY <1>1, ClaimingType
<1>3. ASSUME NEW a \in ActionIds, Redundant(View(w, a))
      PROVE  Locked(action[a],
                    SuppressRow(View(w, a), "ACTION_ALREADY_SATISFIED"))
  <2>1. View(w, a) \in Rows /\ Seen(action[a], View(w, a))
    BY <1>1, ViewSeen
  <2>2. Waiting(View(w, a)) /\ View(w, a) \in Row
    BY <1>3, <2>1, StatusIsRequested DEF Redundant
  <2>. QED
    BY <2>1, <2>2, SuppressLocked DEF SuppressionCodes
<1>4. rows \in [ActionIds -> Rows]
  BY <1>2, <1>3 DEF Locked, Rows
<1>5. \A a \in ActionIds : rows[a] # NoRow => /\ Free(a, w)
                                              /\ Locked(action[a], rows[a])
  BY <1>1, <1>3 DEF ClaimSuppress, LocksInv, LockedBy
<1>6. worker' = [worker EXCEPT ![w] = claim]
  BY <1>1, <1>2 DEF ClaimSuppress, VariablesTyped, Claiming
<1>. HIDE DEF rows
<1>7. claim \in Claiming /\ claim.rows = rows /\ claim.phase = "swept"
  BY <1>2, <1>4 DEF Claiming, Rows
<1>8. UNCHANGED <<now, faults, environment, database>>
  BY DEF ClaimSuppress
<1>. HIDE DEF claim
<1>. QED
  BY <1>5, <1>6, <1>7, <1>8 DEF Locking

LEMMA SelectLocks ==
  ASSUME TypeOK, LocksInv, NEW w \in Workers, ClaimSelect(w)
  PROVE  \E claim : Locking(w, claim)
<1>1. PICK a \in ActionIds :
        /\ FirstClaimable(w, a)
        /\ worker' = [worker EXCEPT ![w] =
             [phase |-> "selected", at |-> worker[w].at, action |-> a,
              rows |-> [worker[w].rows EXCEPT ![a] = View(w, a)]]]
  BY DEF ClaimSelect
<1>. DEFINE rows == [worker[w].rows EXCEPT ![a] = View(w, a)]
            claim == [phase |-> "selected", at |-> worker[w].at, action |-> a,
                      rows |-> rows]
<1>2. worker[w].phase \in ClaimPhases /\ VariablesTyped
  BY DEF ClaimSelect, ClaimPhases, TypeOK
<1>3. worker[w].rows \in [ActionIds -> Rows] /\ worker[w].at \in Nat
  BY <1>2, ClaimingType
<1>4. View(w, a) \in Rows /\ Seen(action[a], View(w, a))
  BY <1>2, ViewSeen
<1>5. Waiting(View(w, a)) /\ Free(a, w)
  BY <1>1 DEF FirstClaimable, Claimable, Due
<1>6. View(w, a) \in Row /\ ~Settled(View(w, a))
  BY <1>4, <1>5, UnsettledWhenWaiting
<1>7. Locked(action[a], View(w, a))
  BY <1>4, <1>5, <1>6 DEF Seen, Locked, Waiting, Row
<1>8. /\ rows \in [ActionIds -> Rows] /\ rows[a] = View(w, a)
      /\ \A b \in ActionIds \ {a} : rows[b] = worker[w].rows[b]
  BY <1>3, <1>4
<1>. HIDE DEF rows
<1>9. \A b \in ActionIds : rows[b] # NoRow => /\ Free(b, w)
                                              /\ Locked(action[b], rows[b])
  BY <1>2, <1>5, <1>7, <1>8 DEF LocksInv, LockedBy
<1>10. rows[a] # NoRow /\ Waiting(rows[a])
  BY <1>5, <1>6, <1>8 DEF NoRow, Row, Statuses
<1>11. claim \in Selected /\ claim.rows = rows /\ claim.action = a
  BY <1>3, <1>8 DEF Selected, Rows
<1>12. worker' = [worker EXCEPT ![w] = claim]
  BY <1>1 DEF rows
<1>13. UNCHANGED <<now, faults, environment, database>>
  BY DEF ClaimSelect
<1>. HIDE DEF claim
<1>. QED
  BY <1>9, <1>10, <1>11, <1>12, <1>13 DEF Locking

LEMMA LockingType ==
  ASSUME VariablesTyped, NEW w \in Workers, NEW claim, Locking(w, claim)
  PROVE  VariablesTyped'
<1>1. worker' \in [Workers -> {Idle} \cup Claiming \cup Selected \cup Claim]
  BY DEF Locking, VariablesTyped
<1>2. UNCHANGED <<now, faults, environment, database>>
  BY DEF Locking
<1>. QED
  BY <1>1, <1>2 DEF VariablesTyped, environment, database

LEMMA LockingKeepsLocks ==
  ASSUME VariablesTyped, LocksInv, NEW w \in Workers, NEW claim,
         Locking(w, claim)
  PROVE  LocksInv'
<1>1. \A v \in Workers : worker'[v] = IF v = w THEN claim ELSE worker[v]
  BY DEF Locking, VariablesTyped
<1>2. /\ UNCHANGED action
      /\ claim.phase \in ClaimPhases
      /\ \A a \in ActionIds : claim.rows[a] # NoRow =>
           Free(a, w) /\ Locked(action[a], claim.rows[a])
      /\ claim.phase = "selected" => /\ claim.action \in ActionIds
                                     /\ claim.rows[claim.action] # NoRow
                                     /\ Waiting(claim.rows[claim.action])
  BY DEF Locking, database, Claiming, Selected, ClaimPhases
<1>3. \A v \in Workers \ {w}, a \in ActionIds :
        LockedBy(v, a)' <=> LockedBy(v, a)
  BY <1>1 DEF LockedBy
<1>4. \A a \in ActionIds : LockedBy(w, a)' <=> claim.rows[a] # NoRow
  BY <1>1, <1>2 DEF LockedBy
<1>5. ASSUME NEW v \in Workers, NEW a \in ActionIds, LockedBy(v, a)'
      PROVE  Free(a, v)' /\ Locked(action'[a], worker'[v].rows[a])
  <2>1. CASE v = w
    <3>1. Free(a, w) /\ Locked(action[a], claim.rows[a])
      BY <1>2, <1>4, <1>5, <2>1
    <3>. QED
      BY <1>1, <1>2, <1>3, <2>1, <3>1 DEF Free
  <2>2. CASE v # w
    <3>1. /\ LockedBy(v, a) /\ Free(a, v)
          /\ Locked(action[a], worker[v].rows[a])
      BY <1>3, <1>5, <2>2 DEF LocksInv
    <3>2. ~LockedBy(w, a)'
      BY <1>2, <1>4, <2>2, <3>1 DEF Free
    <3>3. \A u \in Workers \ {v} : ~LockedBy(u, a)'
      BY <1>3, <3>1, <3>2 DEF Free
    <3>. QED
      BY <1>1, <1>2, <2>2, <3>1, <3>3 DEF Free
  <2>. QED
    BY <2>1, <2>2
<1>6. ASSUME NEW v \in Workers, worker'[v].phase = "selected"
      PROVE  /\ LockedBy(v, worker[v].action)'
             /\ Waiting(worker'[v].rows[worker'[v].action])
  <2>1. CASE v = w
    BY <1>1, <1>2, <1>6, <2>1 DEF LockedBy
  <2>2. CASE v # w
    BY <1>1, <1>6, <2>2 DEF LocksInv, LockedBy
  <2>. QED
    BY <2>1, <2>2
<1>. QED
  BY <1>5, <1>6 DEF LocksInv

(* Where no claim begins or goes on, the locks stay what they are as long  *)
(* as the locked rows do.                                                  *)
LEMMA LocksKept ==
  ASSUME LocksInv,
         \A v \in Workers : worker'[v].phase \in ClaimPhases =>
           /\ worker'[v] = worker[v]
           /\ \A a \in ActionIds : LockedBy(v, a) => action'[a] = action[a]
  PROVE  LocksInv'
<1>1. \A v \in Workers, a \in ActionIds : LockedBy(v, a)' =>
        /\ LockedBy(v, a) /\ worker'[v] = worker[v] /\ action'[a] = action[a]
  BY DEF LockedBy
<1>2. ASSUME NEW v \in Workers, NEW a \in ActionIds, LockedBy(v, a)'
      PROVE  Free(a, v)' /\ Locked(action'[a], worker'[v].rows[a])
  BY <1>1, <1>2 DEF LocksInv, Free
<1>3. ASSUME NEW v \in Workers, worker'[v].phase = "selected"
      PROVE  /\ LockedBy(v, worker[v].action)'
             /\ Waiting(worker'[v].rows[worker'[v].action])
  <2>1. worker'[v] = worker[v]
    BY <1>3 DEF ClaimPhases
  <2>. QED
    BY <1>3, <2>1 DEF LocksInv, LockedBy
<1>. QED
  BY <1>2, <1>3 DEF LocksInv

----------------------------------------------------------------------------
(* What a claim commits *)

(* Rows a claim may commit.                                                *)
Committable(rows) ==
  /\ rows \in [ActionIds -> Rows]
  /\ \A a \in ActionIds : rows[a] # NoRow =>
       /\ Progress(action[a], rows[a])
       /\ rows[a].attempts > action[a].attempts =>
            rows[a].status \in AttemptStates

LEMMA ClaimRowsCommittable ==
  ASSUME VariablesTyped, LocksInv, NEW w \in Workers,
         worker[w].phase \in ClaimPhases
  PROVE  /\ Committable(worker[w].rows)
         /\ \A a \in ActionIds : worker[w].rows[a] # NoRow =>
              worker[w].rows[a].status # "executing"
<1>1. worker[w].rows \in [ActionIds -> Rows]
  BY ClaimingType
<1>2. \A a \in ActionIds : worker[w].rows[a] # NoRow =>
        Locked(action[a], worker[w].rows[a])
  BY DEF LocksInv, LockedBy
<1>. QED
  BY <1>1, <1>2, LockedProgress DEF Committable, Locked, AttemptStates

LEMMA CommitType ==
  ASSUME VariablesTyped, NEW w, NEW rows, Committable(rows), Commit(w, rows),
         worker' \in [Workers -> WorkerStates]
  PROVE  VariablesTyped'
<1>1. action' \in [ActionIds -> Rows]
  BY DEF VariablesTyped, Commit, Committable, Rows
<1>2. attempts' \in [ActionIds -> Logs]
  <2>. SUFFICES ASSUME NEW a \in ActionIds
                PROVE  attempts'[a] \in Logs
    BY DEF Commit
  <2>. DEFINE log == IF /\ rows[a] # NoRow
                        /\ action[a].status = "executing"
                     THEN CloseAttempt(attempts[a], "failed")
                     ELSE attempts[a]
  <2>1. log \in Logs
    BY CloseAttemptType DEF VariablesTyped, Logs, AttemptStates
  <2>2. attempts'[a] =
          IF rows[a] # NoRow /\ rows[a].attempts > action[a].attempts
          THEN Append(log, rows[a].status) ELSE log
    BY DEF Commit
  <2>. HIDE DEF log
  <2>. QED
    BY <2>1, <2>2, AppendProperties DEF Committable, Logs
<1>3. UNCHANGED <<now, faults, environment, posture, version, authorization>>
  BY DEF Commit
<1>. QED
  BY <1>1, <1>2, <1>3
     DEF VariablesTyped, environment, Rows, Logs, AttemptStates, WorkerStates

LEMMA CommitProgress ==
  ASSUME VariablesTyped, NEW w, NEW rows, Committable(rows), Commit(w, rows),
         NEW b \in ActionIds
  PROVE  /\ Progress(action[b], action'[b])
         /\ action'[b] = IF rows[b] = NoRow THEN action[b] ELSE rows[b]
BY DEF Commit, Committable, Progress

(* What ClaimSuppressed and ClaimTake make of the row that was selected.   *)
LEMMA SelectedRow ==
  ASSUME VariablesTyped, LocksInv, NEW w \in Workers,
         worker[w].phase = "selected",
         NEW a, a = worker[w].action, NEW r, r = worker[w].rows[a]
  PROVE  /\ a \in ActionIds
         /\ r \in Row /\ Waiting(r) /\ ~Settled(r)
         /\ Locked(action[a], r)
         /\ LockedBy(w, a)
<1>1. a \in ActionIds
  BY ClaimingType DEF ClaimPhases
<1>2. LockedBy(w, a) /\ Waiting(r) /\ Locked(action[a], r)
  BY <1>1 DEF LocksInv
<1>. QED
  BY <1>1, <1>2, UnsettledWhenWaiting DEF Locked, Rows

LEMMA SuppressedCommittable ==
  ASSUME VariablesTyped, LocksInv, NEW w \in Workers,
         worker[w].phase = "selected",
         NEW a, a = worker[w].action, NEW s,
         s = SuppressRow(worker[w].rows[a], "RECOVERY_STATE_CHANGED")
  PROVE  /\ Committable([worker[w].rows EXCEPT ![a] = s])
         /\ s.status = "failed"
<1>1. /\ a \in ActionIds /\ worker[w].rows[a] \in Row
      /\ Waiting(worker[w].rows[a])
      /\ Locked(action[a], worker[w].rows[a])
  BY SelectedRow
<1>2. Locked(action[a], s) /\ s.status = "failed"
  BY <1>1, SuppressLocked DEF Seen, SuppressionCodes
<1>3. Committable(worker[w].rows)
  BY ClaimRowsCommittable DEF ClaimPhases
<1>4. Progress(action[a], s) /\ s \in Rows /\ s.status \in AttemptStates
  BY <1>2, LockedProgress DEF Locked, Rows, AttemptStates
<1>. QED
  BY <1>1, <1>2, <1>3, <1>4 DEF Committable

LEMMA TakenCommittable ==
  ASSUME VariablesTyped, LocksInv, NEW w \in Workers,
         worker[w].phase = "selected",
         NEW a, a = worker[w].action, NEW s, s = ClaimedRow(w)
  PROVE  /\ Committable([worker[w].rows EXCEPT ![a] = s])
         /\ s \in Row
         /\ s.status = "executing"
         /\ s.type = worker[w].rows[a].type
         /\ s.target = worker[w].rows[a].target
         /\ s.expected = version[s.target]
         /\ s.attempts > action[a].attempts
<1>. DEFINE r == worker[w].rows[a]
<1>1. /\ a \in ActionIds /\ r \in Row /\ Locked(action[a], r)
  BY SelectedRow
<1>2. /\ r.attempts + 1 \in Nat /\ r.attempts + 1 > r.attempts
      /\ version[r.target] \in Nat
      /\ worker[w].at + LeaseTime \in Nat
      /\ "executing" \in Statuses
      /\ "none" \in FailureCodes
  <2>1. worker[w].at \in Nat
    BY ClaimingType DEF ClaimPhases
  <2>2. r.attempts \in Nat /\ r.target \in Targets
    BY <1>1 DEF Row
  <2>3. version[r.target] \in Nat
    BY <2>2 DEF VariablesTyped
  <2>. QED
    BY <2>1, <2>2, <2>3, TimesAssumption DEF Statuses, FailureCodes
<1>3. s = [r EXCEPT !.status = "executing", !.attempts = r.attempts + 1,
                    !.expected = version[r.target],
                    !.lease = worker[w].at + LeaseTime, !.failure = "none"]
  BY DEF ClaimedRow
<1>. HIDE DEF r
<1>4. /\ s \in Row
      /\ s.status = "executing"
      /\ s.type = r.type /\ s.target = r.target
      /\ s.expected = version[s.target]
      /\ s.attempts = r.attempts + 1
  BY <1>1, <1>2, <1>3 DEF Row
<1>5. s.attempts > action[a].attempts /\ s.attempts >= action[a].attempts
  BY <1>1, <1>4 DEF Locked, Row
<1>6. Progress(action[a], s)
  BY <1>1, <1>4, <1>5 DEF Progress, Locked
<1>7. Committable(worker[w].rows)
  BY ClaimRowsCommittable DEF ClaimPhases
<1>8. Committable([worker[w].rows EXCEPT ![a] = s])
  BY <1>1, <1>4, <1>6, <1>7 DEF Committable, Rows, AttemptStates
<1>. QED
  BY <1>4, <1>5, <1>8 DEF r

(* The rows a claim that ends has not locked are not its to change.        *)
LEMMA CommitKeepsLocks ==
  ASSUME VariablesTyped, LocksInv, NEW w \in Workers,
         worker[w].phase \in ClaimPhases, NEW rows, Commit(w, rows),
         \A a \in ActionIds : rows[a] # NoRow => LockedBy(w, a),
         NEW held, held.phase \notin ClaimPhases,
         worker' = [worker EXCEPT ![w] = held]
  PROVE  LocksInv'
<1>1. \A v \in Workers : worker'[v] = IF v = w THEN held ELSE worker[v]
  BY DEF VariablesTyped
<1>2. \A a \in ActionIds : rows[a] = NoRow => action'[a] = action[a]
  BY DEF Commit
<1>3. \A v \in Workers \ {w}, a \in ActionIds :
        LockedBy(v, a) => ~LockedBy(w, a)
  BY DEF LocksInv, Free
<1>. QED
  BY <1>1, <1>2, <1>3, LocksKept

----------------------------------------------------------------------------
(* Type correctness of the steps *)

(* A worker past its claim knows which action and attempt it holds.        *)
LEMMA HoldingType ==
  ASSUME VariablesTyped, NEW w \in Workers,
         worker[w].phase \in HoldingPhases
  PROVE  /\ worker[w] \in Claim
         /\ worker[w].action \in ActionIds
         /\ action[worker[w].action] \in Rows
<1>1. worker[w] \in WorkerStates
  BY DEF VariablesTyped, WorkerStates
<1>2. worker[w] \in Claim
  BY <1>1 DEF WorkerStates, Idle, HoldingPhases, Claiming, Selected
<1>. QED
  BY <1>2 DEF VariablesTyped, Claim, Rows

LEMMA HeldRowType ==
  ASSUME TypeOK, NEW w \in Workers, worker[w].phase \in HoldingPhases
  PROVE  /\ worker[w] \in Claim
         /\ worker[w].action \in ActionIds
         /\ action[worker[w].action] \in Row
         /\ TypeOf(w) \in ActionTypes
         /\ TargetOf(w) \in Targets
<1>1. /\ worker[w] \in Claim
      /\ worker[w].action \in ActionIds
      /\ action[worker[w].action] \in Rows
  BY HoldingType DEF TypeOK
<1>2. action[worker[w].action] \in Row
  BY <1>1, RequestedIsRow DEF TypeOK, HeldRequested, Requested
<1>. QED
  BY <1>1, <1>2 DEF TypeOf, TargetOf, Row

LEMMA StepType ==
  ASSUME VariablesTyped, NEW w \in Workers,
         NEW phase \in HoldingPhases,
         worker[w].phase \in HoldingPhases,
         Step(w, phase)
  PROVE  worker' \in [Workers -> WorkerStates]
<1>1. worker[w] \in Claim
  BY HoldingType
<1>2. [worker[w] EXCEPT !.phase = phase] \in Claim
  BY <1>1 DEF Claim
<1>. QED
  BY <1>2 DEF VariablesTyped, Step, WorkerStates

LEMMA IdleType ==
  ASSUME VariablesTyped, NEW w \in Workers, worker' = [worker EXCEPT ![w] = Idle]
  PROVE  worker' \in [Workers -> WorkerStates]
BY DEF VariablesTyped, WorkerStates

LEMMA FaultType ==
  ASSUME VariablesTyped, Fault \/ UNCHANGED faults
  PROVE  faults' \in Nat
BY DEF VariablesTyped, Fault

(* The state row of a target stays typed when it is first tracked.         *)
LEMMA EnqueueType ==
  ASSUME VariablesTyped, NEW a \in ActionIds, NEW t \in Targets,
         NEW type \in ActionTypes, NEW time \in Nat,
         Enqueue(a, t, type, time),
         authorization' \in [ActionIds -> Authorization]
  PROVE  VariablesTyped'
<1>1. /\ posture' \in [Targets -> Posture]
      /\ version' \in [Targets -> Nat]
  <2>1. [posture[t] EXCEPT !.targetCertificate = inventory[t]] \in Posture
    BY DEF VariablesTyped, Posture
  <2>2. CASE version[t] = 0
    <3>1. /\ version' = [version EXCEPT ![t] = 1]
          /\ posture' = [posture EXCEPT ![t] =
                           [posture[t] EXCEPT !.targetCertificate = inventory[t]]]
      BY <2>2 DEF Enqueue, TrackTarget
    <3>. QED
      BY <2>1, <3>1 DEF VariablesTyped
  <2>3. CASE version[t] # 0
    BY <2>3 DEF VariablesTyped, Enqueue, TrackTarget
  <2>. QED
    BY <2>2, <2>3
<1>2. action' \in [ActionIds -> Rows]
  <2>. DEFINE row == [type |-> type, target |-> t, status |-> "pending",
                      attempts |-> 0, expected |-> version'[t], lease |-> 0,
                      next |-> time, failure |-> "none"]
  <2>1. row \in Row
    BY <1>1 DEF Row, Statuses, FailureCodes
  <2>2. action' = [action EXCEPT ![a] = row]
    BY DEF Enqueue
  <2>. QED
    BY <2>1, <2>2 DEF VariablesTyped, Rows
<1>. QED
  BY <1>1, <1>2 DEF VariablesTyped, Enqueue, environment, Rows

LEMMA RequestType ==
  ASSUME VariablesTyped, NEW a \in ActionIds, NEW t \in Targets, Request(a, t)
  PROVE  VariablesTyped'
<1>1. Stamps \subseteq Nat
  BY DEF Stamps
<1>2. /\ QuarantineTypes \subseteq ActionTypes
      /\ SeverityTypes \subseteq ActionTypes
      /\ RecoveryTypes \subseteq ActionTypes
  BY DEF ActionTypes, ProtectiveTypes
<1>3. ASSUME NEW type \in QuarantineTypes, RequestQuarantine(a, t, type)
      PROVE  VariablesTyped'
  BY <1>1, <1>2, <1>3, EnqueueType DEF RequestQuarantine, VariablesTyped
<1>4. ASSUME NEW type \in SeverityTypes, EnqueueSeverity(a, t, type)
      PROVE  VariablesTyped'
  BY <1>1, <1>2, <1>4, EnqueueType DEF EnqueueSeverity, VariablesTyped
<1>5. ASSUME NEW type \in RecoveryTypes, AuthorizeRecovery(a, t, type)
      PROVE  VariablesTyped'
  <2>1. PICK time \in Stamps :
          /\ Enqueue(a, t, type, time)
          /\ authorization' = [authorization EXCEPT ![a] =
               [version |-> version[t], transition |-> trust[t].id,
                at |-> time]]
    BY <1>5 DEF AuthorizeRecovery
  <2>2. [version |-> version[t], transition |-> trust[t].id, at |-> time]
           \in Authorization
    BY <1>1 DEF VariablesTyped, Authorization
  <2>3. authorization' \in [ActionIds -> Authorization]
    BY <2>1, <2>2 DEF VariablesTyped
  <2>. QED
    BY <1>1, <1>2, <2>1, <2>3, EnqueueType
<1>. QED
  BY <1>3, <1>4, <1>5 DEF Request

(* What each action of a claim does, and that it keeps types and locks.    *)
LEMMA ClaimEffect ==
  ASSUME TypeOK, LocksInv, NEW w \in Workers,
         \/ ClaimSweep(w) \/ ClaimSuppress(w) \/ ClaimSelect(w)
         \/ ClaimNothing(w) \/ ClaimSuppressed(w) \/ ClaimTake(w)
         \/ ClaimConflict(w)
  PROVE  VariablesTyped' /\ LocksInv'
<1>0. VariablesTyped
  BY DEF TypeOK
<1>1. CASE ClaimSweep(w) \/ ClaimSuppress(w) \/ ClaimSelect(w)
  <2>1. PICK claim : Locking(w, claim)
    BY <1>1, SweepLocks, SuppressLocks, SelectLocks
  <2>. QED
    BY <1>0, <2>1, LockingType, LockingKeepsLocks
<1>2. Idle.phase \notin ClaimPhases
  BY DEF Idle, ClaimPhases
<1>3. CASE ClaimConflict(w)
  <2>1. /\ UNCHANGED <<now, faults, environment, database>>
        /\ worker' = [worker EXCEPT ![w] = Idle]
    BY <1>3 DEF ClaimConflict
  <2>2. worker' \in [Workers -> WorkerStates]
    BY <1>0, <2>1, IdleType
  <2>3. VariablesTyped'
    BY <1>0, <2>1, <2>2
       DEF VariablesTyped, environment, database, WorkerStates
  <2>4. \A v \in Workers : worker'[v] = IF v = w THEN Idle ELSE worker[v]
    BY <1>0, <2>1 DEF VariablesTyped
  <2>5. UNCHANGED action
    BY <2>1 DEF database
  <2>. QED
    BY <1>2, <2>3, <2>4, <2>5, LocksKept
<1>4. CASE ClaimNothing(w)
  <2>1. /\ worker[w].phase \in ClaimPhases
        /\ Commit(w, worker[w].rows)
        /\ worker' = [worker EXCEPT ![w] = Idle]
    BY <1>4 DEF ClaimNothing, ClaimPhases
  <2>2. worker' \in [Workers -> WorkerStates]
    BY <1>0, <2>1, IdleType
  <2>3. VariablesTyped'
    BY <1>0, <2>1, <2>2, ClaimRowsCommittable, CommitType
  <2>4. \A a \in ActionIds : worker[w].rows[a] # NoRow => LockedBy(w, a)
    BY <2>1 DEF LockedBy
  <2>. QED
    BY <1>0, <1>2, <2>1, <2>3, <2>4, CommitKeepsLocks
<1>5. CASE ClaimSuppressed(w)
  <2>. DEFINE a == worker[w].action
              s == SuppressRow(worker[w].rows[a], "RECOVERY_STATE_CHANGED")
              rows == [worker[w].rows EXCEPT ![a] = s]
  <2>1. /\ worker[w].phase = "selected" /\ worker[w].phase \in ClaimPhases
        /\ Commit(w, rows)
        /\ worker' = [worker EXCEPT ![w] = Idle]
    BY <1>5 DEF ClaimSuppressed, ClaimPhases
  <2>2. worker' \in [Workers -> WorkerStates]
    BY <1>0, <2>1, IdleType
  <2>3. Committable(rows)
    BY <1>0, <2>1, SuppressedCommittable
  <2>4. LockedBy(w, a)
    BY <1>0, <2>1, SelectedRow
  <2>5. worker[w].rows \in [ActionIds -> Rows]
    BY <1>0, <2>1, ClaimingType
  <2>6. \A b \in ActionIds : rows[b] # NoRow => LockedBy(w, b)
    BY <2>1, <2>4, <2>5 DEF LockedBy
  <2>. HIDE DEF rows
  <2>7. VariablesTyped'
    BY <1>0, <2>1, <2>2, <2>3, CommitType
  <2>. QED
    BY <1>0, <1>2, <2>1, <2>6, <2>7, CommitKeepsLocks
<1>6. CASE ClaimTake(w)
  <2>. DEFINE a == worker[w].action
              s == ClaimedRow(w)
              rows == [worker[w].rows EXCEPT ![a] = s]
              held == [phase |-> "claimed", action |-> a,
                       attempt |-> s.attempts, posture |-> posture[s.target],
                       reference |-> 0]
  <2>1. /\ worker[w].phase = "selected" /\ worker[w].phase \in ClaimPhases
        /\ Commit(w, rows)
        /\ worker' = [worker EXCEPT ![w] = held]
    BY <1>6 DEF ClaimTake, ClaimPhases
  <2>2. Committable(rows) /\ s \in Row
    BY <1>0, <2>1, TakenCommittable
  <2>3. LockedBy(w, a) /\ a \in ActionIds
    BY <1>0, <2>1, SelectedRow
  <2>4. worker[w].rows \in [ActionIds -> Rows]
    BY <1>0, <2>1, ClaimingType
  <2>5. \A b \in ActionIds : rows[b] # NoRow => LockedBy(w, b)
    BY <2>1, <2>3, <2>4 DEF LockedBy
  <2>. HIDE DEF rows, s
  <2>6. s.attempts \in Nat /\ posture[s.target] \in Posture
    BY <1>0, <2>2 DEF VariablesTyped, Row
  <2>7. held \in Claim /\ held.phase \notin ClaimPhases
    BY <2>3, <2>6 DEF Claim, HoldingPhases, ClaimPhases
  <2>. HIDE DEF held
  <2>8. worker' \in [Workers -> WorkerStates]
    BY <1>0, <2>1, <2>7 DEF VariablesTyped, WorkerStates
  <2>9. VariablesTyped'
    BY <1>0, <2>1, <2>2, <2>8, CommitType
  <2>. QED
    BY <1>0, <2>1, <2>5, <2>7, <2>9, CommitKeepsLocks
<1>. QED
  BY <1>1, <1>3, <1>4, <1>5, <1>6

LEMMA ExecuteType ==
  ASSUME TypeOK, NEW w \in Workers,
         \/ RejectExecution(w) \/ ExecuteInternal(w) \/ ExecuteRevocation(w)
         \/ ExecuteReplacement(w) \/ ExecutorFails(w)
         \/ MarkSucceededRejected(w)
  PROVE  VariablesTyped'
<1>. USE DEF TypeOK, HoldingPhases
<1>1. CASE RejectExecution(w) \/ ExecuteInternal(w) \/ MarkSucceededRejected(w)
  <2>1. worker' \in [Workers -> WorkerStates]
    BY <1>1, StepType
       DEF RejectExecution, ExecuteInternal, ReadyToExecute,
           MarkSucceededRejected
  <2>. QED
    BY <1>1, <2>1
       DEF VariablesTyped, RejectExecution, ExecuteInternal, MarkSucceededRejected,
           environment, database, WorkerStates
<1>2. CASE ExecuteRevocation(w)
  <2>1. worker' \in [Workers -> WorkerStates]
    BY <1>2, StepType DEF ExecuteRevocation, ReadyToExecute
  <2>2. faults' \in Nat
    BY <1>2, FaultType DEF ExecuteRevocation
  <2>3. inventory' \in [Targets -> CertificateStates]
    BY <1>2 DEF VariablesTyped, ExecuteRevocation, CertificateStates
  <2>. QED
    BY <1>2, <2>1, <2>2, <2>3
       DEF VariablesTyped, ExecuteRevocation, database, WorkerStates
<1>3. CASE ExecuteReplacement(w)
  <2>1. worker[w] \in Claim /\ TargetOf(w) \in Targets
    BY <1>3, HeldRowType DEF ExecuteReplacement, ReadyToExecute
  <2>2. PICK at \in replacements[TargetOf(w)] \cup {now} :
          /\ replacements' =
               [replacements EXCEPT ![TargetOf(w)] = @ \cup {at}]
          /\ worker' = [worker EXCEPT ![w].phase = "executed",
                                      ![w].reference = at]
    BY <1>3 DEF ExecuteReplacement
  <2>3. at \in Nat
    BY <2>1, <2>2 DEF VariablesTyped
  <2>4. replacements' \in [Targets -> SUBSET Nat]
    BY <2>1, <2>2, <2>3 DEF VariablesTyped
  <2>5. [worker[w] EXCEPT !.phase = "executed", !.reference = at] \in Claim
    BY <2>1, <2>3 DEF Claim
  <2>6. worker' \in [Workers -> WorkerStates]
    BY <2>2, <2>5 DEF VariablesTyped, WorkerStates
  <2>. QED
    BY <1>3, <2>4, <2>6 DEF VariablesTyped, ExecuteReplacement, database, WorkerStates
<1>4. CASE ExecutorFails(w)
  <2>1. worker' \in [Workers -> WorkerStates]
    BY <1>4, StepType DEF ExecutorFails, ReadyToExecute
  <2>2. faults' \in Nat
    BY <1>4, FaultType DEF ExecutorFails
  <2>3. inventory' \in [Targets -> CertificateStates]
    BY <1>4 DEF VariablesTyped, ExecutorFails, CertificateStates
  <2>4. replacements' \in [Targets -> SUBSET Nat]
    <3>1. TargetOf(w) \in Targets
      BY <1>4, HeldRowType DEF ExecutorFails, ReadyToExecute
    <3>2. replacements[TargetOf(w)] \cup {now} \in SUBSET Nat
      BY <3>1 DEF VariablesTyped
    <3>. QED
      BY <1>4, <3>1, <3>2 DEF VariablesTyped, ExecutorFails
  <2>. QED
    BY <1>4, <2>1, <2>2, <2>3, <2>4
       DEF VariablesTyped, ExecutorFails, database, WorkerStates
<1>. QED
  BY <1>1, <1>2, <1>3, <1>4

LEMMA MarkSucceededType ==
  ASSUME TypeOK, NEW w \in Workers, MarkSucceeded(w)
  PROVE  VariablesTyped'
<1>. DEFINE a == worker[w].action
            t == TargetOf(w)
            row == [action[a] EXCEPT !.status = "succeeded", !.lease = 0]
<1>1. /\ worker[w] \in Claim /\ a \in ActionIds /\ action[a] \in Row
      /\ TypeOf(w) \in ActionTypes /\ t \in Targets
  BY HeldRowType DEF MarkSucceeded, HoldingPhases
<1>2. /\ posture' = [posture EXCEPT ![t] = ResultState(w)]
      /\ version' = [version EXCEPT ![t] = @ + 1]
      /\ action' = [action EXCEPT ![a].status = "succeeded", ![a].lease = 0]
      /\ attempts' = [attempts EXCEPT ![a] = CloseAttempt(@, "succeeded")]
      /\ UNCHANGED <<now, environment, authorization>>
  BY DEF MarkSucceeded
<1>3. posture' \in [Targets -> Posture]
  <2>1. ResultState(w) \in Posture
    BY <1>1, TransitionType DEF ResultState, Claim
  <2>. QED
    BY <1>2, <2>1 DEF TypeOK, VariablesTyped
<1>4. version' \in [Targets -> Nat]
  BY <1>1, <1>2 DEF TypeOK, VariablesTyped
<1>5. action' \in [ActionIds -> Rows]
  <2>1. row \in Row
    BY <1>1 DEF Row, Statuses
  <2>2. action' = [action EXCEPT ![a] = row]
    BY <1>1, <1>2 DEF TypeOK, VariablesTyped
  <2>. QED
    BY <2>1, <2>2 DEF TypeOK, VariablesTyped, Rows
<1>6. attempts' \in [ActionIds -> Logs]
  <2>1. CloseAttempt(attempts[a], "succeeded") \in Logs
    BY <1>1, CloseAttemptType DEF TypeOK, VariablesTyped, Logs, AttemptStates
  <2>. QED
    BY <1>2, <2>1 DEF TypeOK, VariablesTyped, Logs, AttemptStates
<1>7. worker' \in [Workers -> WorkerStates]
  BY IdleType, StepType DEF MarkSucceeded, TypeOK, HoldingPhases
<1>8. faults' \in Nat
  BY FaultType DEF MarkSucceeded, TypeOK
<1>. QED
  BY <1>2, <1>3, <1>4, <1>5, <1>6, <1>7, <1>8
     DEF TypeOK, VariablesTyped, environment, Rows, Logs, AttemptStates,
         WorkerStates

LEMMA MarkFailedType ==
  ASSUME TypeOK, NEW w \in Workers, MarkFailed(w)
  PROVE  VariablesTyped'
<1>. DEFINE a == worker[w].action
<1>1. /\ worker[w] \in Claim /\ a \in ActionIds /\ action[a] \in Row
  BY HeldRowType DEF MarkFailed, HoldingPhases
<1>2. worker' \in [Workers -> WorkerStates]
  BY IdleType DEF MarkFailed, TypeOK
<1>3. PICK time \in Stamps :
        IF HoldsClaim(w, time)
        THEN /\ action' = [action EXCEPT ![a] =
                  FailRow(@, "ACTION_EXECUTION_FAILED",
                          time + RetryDelay(worker[w].attempt))]
             /\ attempts' = [attempts EXCEPT ![a] = CloseAttempt(@, "failed")]
        ELSE UNCHANGED <<action, attempts>>
  BY DEF MarkFailed
<1>. DEFINE next == time + RetryDelay(worker[w].attempt)
<1>4. FailRow(action[a], "ACTION_EXECUTION_FAILED", next) \in Row
  <2>1. next \in Nat
    BY RetryDelayType DEF Stamps
  <2>2. "ACTION_EXECUTION_FAILED" \in FailureCodes
    BY DEF FailureCodes
  <2>. HIDE DEF next
  <2>. QED
    BY <1>1, <2>1, <2>2, FailRowType
<1>5. CloseAttempt(attempts[a], "failed") \in Logs
  BY <1>1, CloseAttemptType DEF TypeOK, VariablesTyped, Logs, AttemptStates
<1>6. /\ action' \in [ActionIds -> Rows]
      /\ attempts' \in [ActionIds -> Logs]
  BY <1>3, <1>4, <1>5
     DEF TypeOK, VariablesTyped, Rows, Logs, AttemptStates
<1>. QED
  BY <1>2, <1>6
     DEF MarkFailed, TypeOK, VariablesTyped, environment, Rows, Logs,
         AttemptStates, WorkerStates

LEMMA EnvironmentType ==
  ASSUME VariablesTyped,
         \/ \E w \in Workers : Crash(w)
         \/ RecoverExpiredLeases
         \/ \E t \in Targets :
              \/ RevokeOutside(t)
              \/ \E band \in RecoveredBands : TrustTransition(t, band)
         \/ Tick
  PROVE  VariablesTyped'
<1>1. ASSUME NEW w \in Workers, Crash(w)
      PROVE  VariablesTyped'
  <2>1. worker' \in [Workers -> WorkerStates]
    BY <1>1, IdleType DEF Crash
  <2>. QED
    BY <1>1, <2>1, FaultType
       DEF Crash, VariablesTyped, environment, database, WorkerStates
<1>2. CASE RecoverExpiredLeases
  <2>1. PICK time \in Stamps :
          /\ action' = [a \in ActionIds |-> ExpireRow(action[a], time)]
          /\ attempts' = [a \in ActionIds |-> ExpireAttempts(a, time)]
    BY <1>2 DEF RecoverExpiredLeases
  <2>2. /\ action' \in [ActionIds -> Rows]
        /\ attempts' \in [ActionIds -> Logs]
    BY <2>1, ExpireType DEF Stamps
  <2>. QED
    BY <1>2, <2>2
       DEF RecoverExpiredLeases, VariablesTyped, environment, Rows, Logs,
           AttemptStates
<1>3. ASSUME NEW t \in Targets, RevokeOutside(t)
      PROVE  VariablesTyped'
  BY <1>3
     DEF RevokeOutside, VariablesTyped, CertificateStates, database
<1>4. ASSUME NEW t \in Targets, NEW band \in RecoveredBands,
             TrustTransition(t, band)
      PROVE  VariablesTyped'
  <2>1. [id |-> trust[t].id + 1, band |-> band, at |-> now]
           \in [id : Nat, band : RecoveredBands, at : Nat]
    BY DEF VariablesTyped
  <2>2. trust' = [trust EXCEPT ![t] =
                    [id |-> trust[t].id + 1, band |-> band, at |-> now]]
    BY <1>4 DEF TrustTransition
  <2>. QED
    BY <1>4, <2>1, <2>2 DEF TrustTransition, VariablesTyped, database
<1>5. CASE Tick
  BY <1>5, FaultType DEF Tick, VariablesTyped, environment, database
<1>. QED
  BY <1>1, <1>2, <1>3, <1>4, <1>5

----------------------------------------------------------------------------
(* The kinds of steps *)

LEMMA MarkProgress ==
  ASSUME TypeOK, NEW w \in Workers, MarkSucceeded(w) \/ MarkFailed(w),
         NEW b \in ActionIds
  PROVE  Progress(action[b], action'[b])
<1>. DEFINE a == worker[w].action
<1>1. a \in ActionIds /\ action[a] \in Row /\ action \in [ActionIds -> Rows]
  BY HeldRowType
     DEF MarkSucceeded, MarkFailed, HoldingPhases, TypeOK, VariablesTyped, Rows
<1>2. CASE MarkSucceeded(w)
  <2>1. action[a].status = "executing"
    BY <1>2 DEF MarkSucceeded, RecordableSuccess, HoldsClaim
  <2>2. action' = [action EXCEPT ![a].status = "succeeded", ![a].lease = 0]
    BY <1>2 DEF MarkSucceeded
  <2>. DEFINE row == [action[a] EXCEPT !.status = "succeeded", !.lease = 0]
  <2>3. /\ row \in Row
        /\ row.type = action[a].type /\ row.target = action[a].target
        /\ row.attempts = action[a].attempts
    BY <1>1 DEF Row, Statuses
  <2>4. /\ action'[b] = IF b = a THEN row ELSE action[b]
    BY <1>1, <2>2
  <2>5. ~Settled(action[a]) /\ action[a].attempts \in Nat
    BY <1>1, <2>1 DEF Settled, Row
  <2>. QED
    BY <1>1, <2>3, <2>4, <2>5 DEF Progress
<1>3. CASE MarkFailed(w)
  <2>1. PICK time \in Stamps :
          IF HoldsClaim(w, time)
          THEN action' = [action EXCEPT ![a] =
                    FailRow(@, "ACTION_EXECUTION_FAILED",
                            time + RetryDelay(worker[w].attempt))]
          ELSE UNCHANGED action
    BY <1>3 DEF MarkFailed
  <2>2. CASE HoldsClaim(w, time)
    <3>1. action[a].status = "executing"
      BY <2>2 DEF HoldsClaim
    <3>2. time + RetryDelay(worker[w].attempt) \in Nat
      BY RetryDelayType DEF Stamps
    <3>3. "ACTION_EXECUTION_FAILED" \in FailureCodes
      BY DEF FailureCodes
    <3>4. Progress(action[a], FailRow(action[a], "ACTION_EXECUTION_FAILED",
                               time + RetryDelay(worker[w].attempt)))
      BY <1>1, <3>1, <3>2, <3>3, FailLocked, LockedProgress
    <3>5. action' = [action EXCEPT ![a] =
             FailRow(action[a], "ACTION_EXECUTION_FAILED",
                     time + RetryDelay(worker[w].attempt))]
      BY <2>1, <2>2
    <3>6. CASE b = a
      BY <1>1, <3>4, <3>5, <3>6
    <3>7. CASE b # a
      BY <1>1, <3>5, <3>7 DEF Progress
    <3>. QED
      BY <3>6, <3>7
  <2>3. CASE ~HoldsClaim(w, time)
    BY <2>1, <2>3 DEF Progress
  <2>. QED
    BY <2>2, <2>3
<1>. QED
  BY <1>2, <1>3

LEMMA RequestEnqueues ==
  ASSUME NEW a \in ActionIds, NEW t \in Targets, Request(a, t)
  PROVE  \E type \in ActionTypes, time \in Stamps : Enqueue(a, t, type, time)
<1>1. CASE \E type \in QuarantineTypes : RequestQuarantine(a, t, type)
  BY <1>1 DEF RequestQuarantine, ActionTypes, ProtectiveTypes
<1>2. CASE \E type \in SeverityTypes : EnqueueSeverity(a, t, type)
  BY <1>2 DEF EnqueueSeverity, ActionTypes, ProtectiveTypes
<1>3. CASE \E type \in RecoveryTypes : AuthorizeRecovery(a, t, type)
  BY <1>3 DEF AuthorizeRecovery, ActionTypes
<1>. QED
  BY <1>1, <1>2, <1>3 DEF Request

(* A table whose executing rows were the same rows before.                 *)
FewerExecuting(rows, old) ==
  \A a \in ActionIds : rows[a].status = "executing" => rows[a] = old[a]

LEMMA MarkFewer ==
  ASSUME TypeOK, NEW w \in Workers, MarkSucceeded(w) \/ MarkFailed(w)
  PROVE  FewerExecuting(action', action)
<1>. SUFFICES ASSUME NEW b \in ActionIds, action'[b].status = "executing"
              PROVE  action'[b] = action[b]
  BY DEF FewerExecuting
<1>. DEFINE a == worker[w].action
<1>1. a \in ActionIds /\ action[a] \in Row /\ action \in [ActionIds -> Rows]
  BY HeldRowType
     DEF MarkSucceeded, MarkFailed, HoldingPhases, TypeOK, VariablesTyped, Rows
<1>2. CASE MarkSucceeded(w)
  <2>1. action' = [action EXCEPT ![a] =
           [action[a] EXCEPT !.status = "succeeded", !.lease = 0]]
    BY <1>1, <1>2 DEF MarkSucceeded
  <2>2. [action[a] EXCEPT !.status = "succeeded", !.lease = 0].status
          = "succeeded"
    BY <1>1 DEF Row
  <2>. QED
    BY <1>1, <2>1, <2>2
<1>3. CASE MarkFailed(w)
  <2>1. \A code, next : FailRow(action[a], code, next).status = "failed"
    BY <1>1 DEF FailRow, Row
  <2>2. action' = action \/
          \E code, next :
            action' = [action EXCEPT ![a] = FailRow(action[a], code, next)]
    BY <1>1, <1>3 DEF MarkFailed
  <2>. QED
    BY <1>1, <2>1, <2>2
<1>. QED
  BY <1>2, <1>3

(* Every step is of one of four kinds.  The first: a request.              *)
Asked(a, t, type) ==
  /\ ~Requested(a)
  /\ TrackTarget(t)
  /\ \A b \in ActionIds \ {a} : /\ action'[b] = action[b]
                                /\ authorization'[b] = authorization[b]
  /\ action'[a] \in Row
  /\ action'[a].type = type
  /\ action'[a].target = t
  /\ action'[a].status = "pending"
  /\ type \in RecoveryTypes => /\ version[t] > 0
                               /\ RecoveryConditionsMet(posture[t], type)
                               /\ authorization'[a].version = version[t]
  /\ UNCHANGED worker

(* The second: a claim is taken, of a target that nothing executes on.     *)
Taken(w, a) ==
  /\ UNCHANGED <<posture, version, authorization>>
  /\ \A b \in ActionIds : Progress(action[b], action'[b])
  /\ \A b \in ActionIds \ {a} : action'[b].status = "executing" =>
       /\ action'[b] = action[b]
       /\ action'[b].target # action'[a].target
  /\ action'[a] \in Row
  /\ action'[a].status = "executing"
  /\ action'[a].attempts > action[a].attempts
  /\ action'[a].expected = version[action'[a].target]
  /\ IsRecovery(action'[a]) =>
       authorization[a].version = version[action'[a].target]
  /\ worker' = [worker EXCEPT ![w] =
       [phase |-> "claimed", action |-> a, attempt |-> action'[a].attempts,
        posture |-> posture[action'[a].target], reference |-> 0]]

(* The third is MarkSucceeded.  The fourth: nothing takes effect, nothing  *)
(* begins to execute, and a worker goes on with the claim it has.          *)
GoesOn(w) ==
  worker'[w].phase \in HoldingPhases =>
    /\ worker[w].phase \in HoldingPhases
    /\ worker'[w].action = worker[w].action
    /\ worker'[w].attempt = worker[w].attempt
    /\ worker'[w].posture = worker[w].posture
    /\ worker'[w].phase = "executed" =>
         \/ worker[w].phase = "executed"
         \/ TransitionDefined(worker[w].posture, TypeOf(w))

Quiet ==
  /\ UNCHANGED <<posture, version, authorization>>
  /\ \A b \in ActionIds : Progress(action[b], action'[b])
  /\ FewerExecuting(action', action)
  /\ \A w \in Workers : GoesOn(w)

LEMMA RequestAsks ==
  ASSUME TypeOK, NEW a \in ActionIds, NEW t \in Targets, Request(a, t)
  PROVE  \E type \in ActionTypes : Asked(a, t, type)
<1>0. VariablesTyped /\ VariablesTyped'
  BY RequestType DEF TypeOK
<1>1. ASSUME NEW type \in ActionTypes, NEW time, Enqueue(a, t, type, time)
      PROVE  /\ ~Requested(a)
             /\ TrackTarget(t)
             /\ \A b \in ActionIds \ {a} : action'[b] = action[b]
             /\ action'[a] \in Row
             /\ action'[a].type = type
             /\ action'[a].target = t
             /\ action'[a].status = "pending"
             /\ UNCHANGED worker
  <2>1. /\ action'[a].status = "pending"
        /\ action'[a].type = type
        /\ action'[a].target = t
        /\ \A b \in ActionIds \ {a} : action'[b] = action[b]
    BY <1>0, <1>1 DEF Enqueue, VariablesTyped
  <2>2. action'[a] \in Row
    BY <1>0, <2>1 DEF VariablesTyped, NoRow
  <2>. QED
    BY <1>1, <2>1, <2>2 DEF Enqueue
<1>2. ASSUME NEW type \in QuarantineTypes, RequestQuarantine(a, t, type)
      PROVE  Asked(a, t, type) /\ type \in ActionTypes
  <2>1. type \in ActionTypes /\ type \notin RecoveryTypes
    BY DEF ActionTypes, ProtectiveTypes, QuarantineTypes, RecoveryTypes
  <2>2. PICK time \in Stamps : Enqueue(a, t, type, time)
    BY <1>2 DEF RequestQuarantine
  <2>3. UNCHANGED authorization
    BY <1>2 DEF RequestQuarantine
  <2>. QED
    BY <1>1, <2>1, <2>2, <2>3 DEF Asked
<1>3. ASSUME NEW type \in SeverityTypes, EnqueueSeverity(a, t, type)
      PROVE  Asked(a, t, type) /\ type \in ActionTypes
  <2>1. type \in ActionTypes /\ type \notin RecoveryTypes
    BY DEF ActionTypes, ProtectiveTypes, SeverityTypes, RecoveryTypes
  <2>2. PICK time \in Stamps : Enqueue(a, t, type, time)
    BY <1>3 DEF EnqueueSeverity
  <2>3. UNCHANGED authorization
    BY <1>3 DEF EnqueueSeverity
  <2>. QED
    BY <1>1, <2>1, <2>2, <2>3 DEF Asked
<1>4. ASSUME NEW type \in RecoveryTypes, AuthorizeRecovery(a, t, type)
      PROVE  Asked(a, t, type) /\ type \in ActionTypes
  <2>1. type \in ActionTypes
    BY DEF ActionTypes
  <2>2. PICK time \in Stamps :
          /\ Enqueue(a, t, type, time)
          /\ authorization' = [authorization EXCEPT ![a] =
               [version |-> version[t], transition |-> trust[t].id,
                at |-> time]]
    BY <1>4 DEF AuthorizeRecovery
  <2>3. /\ authorization'[a].version = version[t]
        /\ \A b \in ActionIds \ {a} : authorization'[b] = authorization[b]
    BY <1>0, <2>2 DEF VariablesTyped
  <2>4. version[t] > 0 /\ RecoveryConditionsMet(posture[t], type)
    BY <1>4 DEF AuthorizeRecovery
  <2>. QED
    BY <1>1, <2>1, <2>2, <2>3, <2>4 DEF Asked
<1>. QED
  BY <1>2, <1>3, <1>4 DEF Request

(* A worker that becomes idle, and all the others, go on.                  *)
LEMMA IdleGoesOn ==
  ASSUME TypeOK, NEW w \in Workers,
         \/ UNCHANGED worker
         \/ worker' = [worker EXCEPT ![w] = Idle]
         \/ \E claim : /\ worker' = [worker EXCEPT ![w] = claim]
                       /\ claim.phase \notin HoldingPhases
  PROVE  \A v \in Workers : GoesOn(v)
<1>1. Idle.phase \notin HoldingPhases
  BY DEF Idle, HoldingPhases
<1>. SUFFICES ASSUME NEW v \in Workers, worker'[v].phase \in HoldingPhases
              PROVE  worker'[v] = worker[v]
  BY DEF GoesOn
<1>. QED
  BY <1>1 DEF TypeOK, VariablesTyped

(* A claim that commits without taking the row, and one that does.         *)
LEMMA QuietCommit ==
  ASSUME TypeOK, LocksInv, NEW w \in Workers, NEW rows, Committable(rows),
         Commit(w, rows), worker' = [worker EXCEPT ![w] = Idle],
         \A a \in ActionIds : rows[a] # NoRow => rows[a].status # "executing"
  PROVE  Quiet
<1>1. \A b \in ActionIds :
        /\ Progress(action[b], action'[b])
        /\ action'[b] = IF rows[b] = NoRow THEN action[b] ELSE rows[b]
  BY CommitProgress DEF TypeOK
<1>2. FewerExecuting(action', action)
  BY <1>1 DEF FewerExecuting
<1>3. \A v \in Workers : GoesOn(v)
  BY IdleGoesOn
<1>4. UNCHANGED <<posture, version, authorization>>
  BY DEF Commit
<1>. QED
  BY <1>1, <1>2, <1>3, <1>4 DEF Quiet

LEMMA TakeTakes ==
  ASSUME TypeOK, LocksInv, NEW w \in Workers, ClaimTake(w)
  PROVE  Taken(w, worker[w].action)
<1>. DEFINE a == worker[w].action
            s == ClaimedRow(w)
            rows == [worker[w].rows EXCEPT ![a] = s]
<1>0. VariablesTyped
  BY DEF TypeOK
<1>1. /\ worker[w].phase = "selected" /\ worker[w].phase \in ClaimPhases
      /\ ~SelectedStale(w) /\ ~TargetBusy(w)
      /\ Commit(w, rows)
      /\ worker' = [worker EXCEPT ![w] =
           [phase |-> "claimed", action |-> a, attempt |-> s.attempts,
            posture |-> posture[s.target], reference |-> 0]]
  BY DEF ClaimTake, ClaimPhases
<1>2. /\ Committable(rows)
      /\ s \in Row /\ s.status = "executing"
      /\ s.type = worker[w].rows[a].type
      /\ s.target = worker[w].rows[a].target
      /\ s.expected = version[s.target]
      /\ s.attempts > action[a].attempts
  BY <1>0, <1>1, TakenCommittable
<1>3. /\ a \in ActionIds /\ worker[w].rows \in [ActionIds -> Rows]
  BY <1>0, <1>1, ClaimingType
<1>4. /\ rows[a] = s
      /\ \A b \in ActionIds \ {a} : rows[b] = worker[w].rows[b]
  BY <1>3
<1>5. \A b \in ActionIds : worker[w].rows[b] # NoRow =>
        worker[w].rows[b].status # "executing"
  BY <1>0, <1>1, ClaimRowsCommittable
<1>6. IsRecovery(s) => authorization[a].version = version[s.target]
  BY <1>1, <1>2 DEF SelectedStale, IsRecovery
<1>. HIDE DEF rows, s
<1>7. \A b \in ActionIds :
        /\ Progress(action[b], action'[b])
        /\ action'[b] = IF rows[b] = NoRow THEN action[b] ELSE rows[b]
  BY <1>0, <1>1, <1>2, CommitProgress
<1>8. s # NoRow
  BY <1>2 DEF Row, NoRow, Statuses
<1>9. action'[a] = s
  BY <1>3, <1>4, <1>7, <1>8
<1>10. ASSUME NEW b \in ActionIds \ {a}, action'[b].status = "executing"
       PROVE  /\ action'[b] = action[b]
              /\ action'[b].target # action'[a].target
  <2>1. worker[w].rows[b] = NoRow /\ action'[b] = action[b]
    BY <1>4, <1>5, <1>7, <1>10
  <2>2. View(w, b) = action[b]
    BY <2>1 DEF View, LockedBy
  <2>. QED
    BY <1>1, <1>2, <1>9, <1>10, <2>1, <2>2 DEF TargetBusy
<1>11. UNCHANGED <<posture, version, authorization>>
  BY <1>1 DEF Commit
<1>. QED
  BY <1>1, <1>2, <1>6, <1>7, <1>9, <1>10, <1>11 DEF Taken

LEMMA ClaimKind ==
  ASSUME TypeOK, LocksInv, NEW w \in Workers,
         \/ ClaimSweep(w) \/ ClaimSuppress(w) \/ ClaimSelect(w)
         \/ ClaimNothing(w) \/ ClaimSuppressed(w) \/ ClaimTake(w)
         \/ ClaimConflict(w)
  PROVE  \/ Quiet
         \/ \E a \in ActionIds : Taken(w, a)
<1>0. VariablesTyped
  BY DEF TypeOK
<1>1. ASSUME UNCHANGED database, NEW held, held.phase \notin HoldingPhases,
             worker' = [worker EXCEPT ![w] = held]
      PROVE  Quiet
  <2>1. \A v \in Workers : GoesOn(v)
    BY <1>1, IdleGoesOn
  <2>. QED
    BY <1>1, <2>1 DEF Quiet, database, Progress, FewerExecuting
<1>2. CASE ClaimSweep(w) \/ ClaimSuppress(w) \/ ClaimSelect(w)
  <2>1. PICK claim : Locking(w, claim)
    BY <1>2, SweepLocks, SuppressLocks, SelectLocks
  <2>2. claim.phase \notin HoldingPhases
    BY <2>1 DEF Locking, Claiming, Selected, HoldingPhases
  <2>. QED
    BY <1>1, <2>1, <2>2 DEF Locking
<1>3. CASE ClaimConflict(w)
  BY <1>1, <1>3 DEF ClaimConflict, Idle, HoldingPhases
<1>4. CASE ClaimNothing(w)
  <2>1. /\ worker[w].phase \in ClaimPhases
        /\ Commit(w, worker[w].rows)
        /\ worker' = [worker EXCEPT ![w] = Idle]
    BY <1>4 DEF ClaimNothing, ClaimPhases
  <2>2. /\ Committable(worker[w].rows)
        /\ \A a \in ActionIds : worker[w].rows[a] # NoRow =>
             worker[w].rows[a].status # "executing"
    BY <1>0, <2>1, ClaimRowsCommittable
  <2>. QED
    BY <2>1, <2>2, QuietCommit
<1>5. CASE ClaimSuppressed(w)
  <2>. DEFINE a == worker[w].action
              s == SuppressRow(worker[w].rows[a], "RECOVERY_STATE_CHANGED")
              rows == [worker[w].rows EXCEPT ![a] = s]
  <2>1. /\ worker[w].phase = "selected" /\ worker[w].phase \in ClaimPhases
        /\ Commit(w, rows)
        /\ worker' = [worker EXCEPT ![w] = Idle]
    BY <1>5 DEF ClaimSuppressed, ClaimPhases
  <2>2. Committable(rows) /\ s.status = "failed"
    BY <1>0, <2>1, SuppressedCommittable
  <2>3. worker[w].rows \in [ActionIds -> Rows]
    BY <1>0, <2>1, ClaimingType
  <2>4. \A b \in ActionIds : rows[b] # NoRow => rows[b].status # "executing"
    BY <1>0, <2>1, <2>2, <2>3, ClaimRowsCommittable
  <2>. HIDE DEF rows
  <2>. QED
    BY <2>1, <2>2, <2>4, QuietCommit
<1>6. CASE ClaimTake(w)
  <2>1. worker[w].action \in ActionIds
    BY <1>0, <1>6, ClaimingType DEF ClaimTake, ClaimPhases
  <2>. QED
    BY <1>6, <2>1, TakeTakes
<1>. QED
  BY <1>2, <1>3, <1>4, <1>5, <1>6

(* A worker that steps from one phase to another goes on with its claim.   *)
Steps(w, worked) ==
  /\ worker[w].phase \in HoldingPhases
  /\ worker' = [worker EXCEPT ![w] = worked]
  /\ worked.action = worker[w].action
  /\ worked.attempt = worker[w].attempt
  /\ worked.posture = worker[w].posture
  /\ worked.phase = "executed" =>
       TransitionDefined(worker[w].posture, TypeOf(w))

LEMMA StepGoesOn ==
  ASSUME TypeOK, NEW w \in Workers, NEW worked, Steps(w, worked)
  PROVE  \A v \in Workers : GoesOn(v)
<1>. SUFFICES ASSUME NEW v \in Workers
              PROVE  GoesOn(v)
  OBVIOUS
<1>1. worker'[v] = IF v = w THEN worked ELSE worker[v]
  BY DEF Steps, TypeOK, VariablesTyped
<1>. QED
  BY <1>1 DEF GoesOn, Steps

LEMMA ExecuteQuiet ==
  ASSUME TypeOK, NEW w \in Workers,
         \/ RejectExecution(w) \/ ExecuteInternal(w) \/ ExecuteRevocation(w)
         \/ ExecuteReplacement(w) \/ ExecutorFails(w)
         \/ MarkSucceededRejected(w)
  PROVE  Quiet
<1>1. UNCHANGED <<posture, version, authorization, action>>
  BY DEF RejectExecution, ExecuteInternal, ExecuteRevocation,
         ExecuteReplacement, ExecutorFails, MarkSucceededRejected, database
<1>2. worker[w].phase \in HoldingPhases
  BY DEF RejectExecution, ExecuteInternal, ExecuteRevocation,
         ExecuteReplacement, ExecutorFails, MarkSucceededRejected,
         ReadyToExecute, HoldingPhases
<1>3. worker[w] \in Claim
  BY <1>2, HeldRowType
<1>4. ASSUME Step(w, "failing")
      PROVE  \A v \in Workers : GoesOn(v)
  <2>. DEFINE worked == [worker[w] EXCEPT !.phase = "failing"]
  <2>1. /\ worked \in Claim /\ worked.phase = "failing"
        /\ worked.action = worker[w].action
        /\ worked.attempt = worker[w].attempt
        /\ worked.posture = worker[w].posture
    BY <1>3 DEF Claim, HoldingPhases
  <2>2. worker' = [worker EXCEPT ![w] = worked]
    BY <1>4 DEF Step, TypeOK, VariablesTyped
  <2>. HIDE DEF worked
  <2>. QED
    BY <1>2, <2>1, <2>2, StepGoesOn DEF Steps
<1>5. ASSUME ReadyToExecute(w), Step(w, "executed")
      PROVE  \A v \in Workers : GoesOn(v)
  <2>. DEFINE worked == [worker[w] EXCEPT !.phase = "executed"]
  <2>1. /\ worked \in Claim
        /\ worked.action = worker[w].action
        /\ worked.attempt = worker[w].attempt
        /\ worked.posture = worker[w].posture
    BY <1>3 DEF Claim, HoldingPhases
  <2>2. worker' = [worker EXCEPT ![w] = worked]
    BY <1>5 DEF Step, TypeOK, VariablesTyped
  <2>3. TransitionDefined(worker[w].posture, TypeOf(w))
    BY <1>5 DEF ReadyToExecute
  <2>. HIDE DEF worked
  <2>. QED
    BY <1>2, <2>1, <2>2, <2>3, StepGoesOn DEF Steps
<1>6. ASSUME ExecuteReplacement(w)
      PROVE  \A v \in Workers : GoesOn(v)
  <2>1. TransitionDefined(worker[w].posture, TypeOf(w))
    BY <1>6 DEF ExecuteReplacement, ReadyToExecute
  <2>2. TargetOf(w) \in Targets
    BY <1>2, HeldRowType
  <2>3. PICK at \in replacements[TargetOf(w)] \cup {now} :
          worker' = [worker EXCEPT ![w].phase = "executed",
                                   ![w].reference = at]
    BY <1>6 DEF ExecuteReplacement
  <2>4. at \in Nat
    BY <2>2, <2>3 DEF TypeOK, VariablesTyped
  <2>. DEFINE worked == [worker[w] EXCEPT !.phase = "executed",
                                          !.reference = at]
  <2>5. /\ worked \in Claim
        /\ worked.action = worker[w].action
        /\ worked.attempt = worker[w].attempt
        /\ worked.posture = worker[w].posture
    BY <1>3, <2>4 DEF Claim, HoldingPhases
  <2>6. worker' = [worker EXCEPT ![w] = worked]
    BY <2>3 DEF TypeOK, VariablesTyped
  <2>. HIDE DEF worked
  <2>. QED
    BY <1>2, <2>1, <2>5, <2>6, StepGoesOn DEF Steps
<1>7. \A v \in Workers : GoesOn(v)
  BY <1>4, <1>5, <1>6
     DEF RejectExecution, ExecuteInternal, ExecuteRevocation, ExecutorFails,
         MarkSucceededRejected
<1>. QED
  BY <1>1, <1>7 DEF Quiet, Progress, FewerExecuting

(* The answer of a success is received or lost.                            *)
LEMMA SucceededGoesOn ==
  ASSUME TypeOK, NEW w \in Workers, MarkSucceeded(w)
  PROVE  \A v \in Workers : GoesOn(v)
<1>1. CASE worker' = [worker EXCEPT ![w] = Idle]
  BY <1>1, IdleGoesOn
<1>2. CASE Step(w, "failing")
  <2>1. worker[w].phase \in HoldingPhases
    BY DEF MarkSucceeded, HoldingPhases
  <2>2. worker[w] \in Claim
    BY <2>1, HeldRowType
  <2>. DEFINE worked == [worker[w] EXCEPT !.phase = "failing"]
  <2>3. /\ worked.phase = "failing"
        /\ worked.action = worker[w].action
        /\ worked.attempt = worker[w].attempt
        /\ worked.posture = worker[w].posture
    BY <2>2 DEF Claim
  <2>4. worker' = [worker EXCEPT ![w] = worked]
    BY <1>2 DEF Step, TypeOK, VariablesTyped
  <2>. HIDE DEF worked
  <2>5. Steps(w, worked)
    BY <2>1, <2>3, <2>4 DEF Steps
  <2>. QED
    BY <2>5, StepGoesOn
<1>. QED
  BY <1>1, <1>2 DEF MarkSucceeded

LEMMA FailedQuiet ==
  ASSUME TypeOK, NEW w \in Workers, MarkFailed(w)
  PROVE  Quiet
<1>1. \A v \in Workers : GoesOn(v)
  BY IdleGoesOn DEF MarkFailed
<1>2. \A b \in ActionIds : Progress(action[b], action'[b])
  BY MarkProgress
<1>3. FewerExecuting(action', action)
  BY MarkFewer
<1>. QED
  BY <1>1, <1>2, <1>3 DEF Quiet, MarkFailed

LEMMA RecoveryQuiet ==
  ASSUME TypeOK, RecoverExpiredLeases
  PROVE  Quiet
<1>1. PICK time \in Nat :
        action' = [a \in ActionIds |-> ExpireRow(action[a], time)]
  BY DEF RecoverExpiredLeases, Stamps
<1>2. \A a \in ActionIds : Seen(action[a], action'[a])
  BY <1>1, ExpireSeen DEF TypeOK
<1>3. \A a \in ActionIds : Progress(action[a], action'[a])
  BY <1>2, LockedProgress DEF Seen, Progress
<1>4. FewerExecuting(action', action)
  BY <1>2 DEF Seen, Locked, FewerExecuting
<1>5. UNCHANGED <<posture, version, authorization, worker>>
  BY DEF RecoverExpiredLeases
<1>. QED
  BY <1>3, <1>4, <1>5 DEF Quiet, GoesOn

(* A step is a request, a claim, a success, or quiet.                      *)
LEMMA StepKinds ==
  ASSUME TypeOK, LocksInv, [Next]_vars
  PROVE  \/ \E a \in ActionIds, t \in Targets, type \in ActionTypes :
              Asked(a, t, type)
         \/ \E w \in Workers, a \in ActionIds : Taken(w, a)
         \/ \E w \in Workers : MarkSucceeded(w)
         \/ Quiet
<1>1. ASSUME NEW a \in ActionIds, NEW t \in Targets, Request(a, t)
      PROVE  \E type \in ActionTypes : Asked(a, t, type)
  BY <1>1, RequestAsks
<1>2. ASSUME NEW w \in Workers, Work(w)
      PROVE  \/ \E a \in ActionIds : Taken(w, a)
             \/ MarkSucceeded(w)
             \/ Quiet
  BY <1>2, ClaimKind, ExecuteQuiet, FailedQuiet DEF Work
<1>3. CASE \/ \E w \in Workers : Crash(w)
           \/ \E t \in Targets :
                \/ RevokeOutside(t)
                \/ \E band \in RecoveredBands : TrustTransition(t, band)
           \/ Tick
           \/ UNCHANGED vars
  <2>1. /\ UNCHANGED <<posture, version, authorization, action>>
        /\ \/ UNCHANGED worker
           \/ \E w \in Workers : worker' = [worker EXCEPT ![w] = Idle]
    BY <1>3
       DEF Crash, RevokeOutside, TrustTransition, Tick, vars, database
  <2>2. \A v \in Workers : GoesOn(v)
    BY <2>1, IdleGoesOn DEF GoesOn
  <2>. QED
    BY <2>1, <2>2 DEF Quiet, Progress, FewerExecuting
<1>. QED
  BY <1>1, <1>2, <1>3, RecoveryQuiet DEF Next

(* Every step of the queue moves every row on, or creates it.              *)
LEMMA StepProgress ==
  ASSUME TypeOK, LocksInv, [Next]_vars, NEW b \in ActionIds
  PROVE  Progress(action[b], action'[b]) \/ Created(action[b], action'[b])
<1>1. ASSUME NEW a \in ActionIds, NEW t \in Targets, Request(a, t)
      PROVE  Progress(action[b], action'[b]) \/ Created(action[b], action'[b])
  <2>1. PICK type \in ActionTypes, time \in Stamps : Enqueue(a, t, type, time)
    BY <1>1, RequestEnqueues
  <2>2. VariablesTyped'
    BY <1>1, RequestType DEF TypeOK
  <2>3. CASE b = a
    <3>1. /\ action[b].status = "none"
          /\ action'[b].status = "pending"
          /\ action'[b].attempts = 0
      BY <2>1, <2>3 DEF Enqueue, Requested, TypeOK, VariablesTyped
    <3>2. action'[b] \in Row
      BY <2>2, <3>1 DEF VariablesTyped, NoRow
    <3>. QED
      BY <3>1, <3>2 DEF Created
  <2>4. CASE b # a
    BY <2>1, <2>4 DEF Enqueue, Progress, TypeOK, VariablesTyped
  <2>. QED
    BY <2>3, <2>4
<1>2. ASSUME NEW w \in Workers, Work(w)
      PROVE  Progress(action[b], action'[b])
  BY <1>2, ClaimKind, ExecuteQuiet, MarkProgress DEF Work, Quiet, Taken
<1>3. ASSUME UNCHANGED action
      PROVE  Progress(action[b], action'[b])
  BY <1>3 DEF Progress
<1>. QED
  BY <1>1, <1>2, <1>3, RecoveryQuiet
     DEF Next, Quiet, Crash, RevokeOutside, TrustTransition, Tick, vars,
         database

LEMMA RequestedStable ==
  ASSUME TypeOK, LocksInv, [Next]_vars, NEW b \in ActionIds, Requested(b)
  PROVE  /\ Requested(b)'
         /\ action'[b] \in Row
         /\ action'[b].type = action[b].type
         /\ action'[b].target = action[b].target
<1>1. action[b] \in Row
  BY RequestedIsRow DEF Requested, TypeOK, VariablesTyped, Rows
<1>2. Progress(action[b], action'[b])
  BY StepProgress DEF Created, Requested
<1>3. \A r \in Row : r.status # "none"
  BY DEF Row, Statuses
<1>. QED
  BY <1>1, <1>2, <1>3 DEF Progress, Requested

(* A worker gets hold of an action only by taking its row.                 *)
LEMMA HeldRequestedStep ==
  ASSUME TypeOK, LocksInv, [Next]_vars
  PROVE  HeldRequested'
<1>. SUFFICES ASSUME NEW v \in Workers, worker'[v].phase \in HoldingPhases
              PROVE  action'[worker'[v].action] \in Row
  BY DEF HeldRequested, Requested, HoldingPhases, Row, Statuses
<1>1. ASSUME GoesOn(v)
      PROVE  action'[worker'[v].action] \in Row
  <2>1. /\ worker[v].phase \in HoldingPhases
        /\ worker'[v].action = worker[v].action
    BY <1>1 DEF GoesOn
  <2>2. worker[v].action \in ActionIds /\ Requested(worker[v].action)
    BY <2>1, HeldRowType DEF TypeOK, HeldRequested
  <2>. QED
    BY <2>1, <2>2, RequestedStable
<1>2. ASSUME worker'[v] = worker[v]
      PROVE  action'[worker'[v].action] \in Row
  BY <1>1, <1>2 DEF GoesOn
<1>3. ASSUME NEW w \in Workers, NEW a \in ActionIds, Taken(w, a)
      PROVE  action'[worker'[v].action] \in Row
  <2>1. CASE v = w
    BY <1>3, <2>1 DEF Taken, TypeOK, VariablesTyped
  <2>2. CASE v # w
    BY <1>2, <1>3, <2>2 DEF Taken, TypeOK, VariablesTyped
  <2>. QED
    BY <2>1, <2>2
<1>. QED
  BY <1>1, <1>2, <1>3, StepKinds, SucceededGoesOn DEF Asked, Quiet

(* What else happens leaves the locked rows alone: a report and the        *)
(* startup sweep wait for the lock, and a request makes a new row.         *)
LEMMA OtherLocks ==
  ASSUME TypeOK, LocksInv,
         \/ \E a \in ActionIds, t \in Targets : Request(a, t)
         \/ \E w \in Workers :
              \/ RejectExecution(w) \/ ExecuteInternal(w)
              \/ ExecuteRevocation(w) \/ ExecuteReplacement(w)
              \/ ExecutorFails(w) \/ MarkSucceededRejected(w)
              \/ MarkSucceeded(w) \/ MarkFailed(w) \/ Crash(w)
         \/ RecoverExpiredLeases
         \/ UNCHANGED <<action, worker>>
  PROVE  LocksInv'
<1>1. ASSUME NEW a \in ActionIds, NEW t \in Targets, Request(a, t)
      PROVE  LocksInv'
  <2>1. PICK type \in ActionTypes, time \in Stamps : Enqueue(a, t, type, time)
    BY <1>1, RequestEnqueues
  <2>2. /\ ~Requested(a) /\ UNCHANGED worker
        /\ \A b \in ActionIds \ {a} : action'[b] = action[b]
    BY <2>1 DEF Enqueue, TypeOK, VariablesTyped
  <2>3. \A v \in Workers, b \in ActionIds : LockedBy(v, b) => Requested(b)
    BY DEF LocksInv, Locked, Requested, Row, Statuses
  <2>. QED
    BY <2>2, <2>3, LocksKept
<1>2. ASSUME NEW w \in Workers,
             worker[w].phase \notin ClaimPhases,
             worker'[w].phase \notin ClaimPhases,
             \A v \in Workers \ {w} : worker'[v] = worker[v],
             \A v \in Workers \ {w}, a \in ActionIds :
               LockedBy(v, a) => action'[a] = action[a]
      PROVE  LocksInv'
  BY <1>2, LocksKept
<1>3. ASSUME NEW w \in Workers,
             \/ RejectExecution(w) \/ ExecuteInternal(w)
             \/ ExecuteRevocation(w) \/ ExecuteReplacement(w)
             \/ ExecutorFails(w) \/ MarkSucceededRejected(w)
             \/ MarkSucceeded(w) \/ MarkFailed(w) \/ Crash(w)
      PROVE  LocksInv'
  <2>1. worker[w].phase \in HoldingPhases
    BY <1>3
       DEF RejectExecution, ExecuteInternal, ExecuteRevocation,
           ExecuteReplacement, ExecutorFails, MarkSucceededRejected,
           MarkSucceeded, MarkFailed, Crash, ReadyToExecute, HoldingPhases
  <2>2. worker[w] \in Claim
    BY <2>1, HeldRowType
  <2>3. /\ \A v \in Workers \ {w} : worker'[v] = worker[v]
        /\ worker'[w].phase \in {"idle", "executed", "failing"}
    BY <1>3, <2>2
       DEF RejectExecution, ExecuteInternal, ExecuteRevocation,
           ExecuteReplacement, ExecutorFails, MarkSucceededRejected,
           MarkSucceeded, MarkFailed, Crash, Step, TypeOK, VariablesTyped,
           Claim, Idle
  <2>4. ASSUME NEW v \in Workers \ {w}, NEW a \in ActionIds, LockedBy(v, a)
        PROVE  action'[a] = action[a]
    <3>1. CASE MarkSucceeded(w) \/ MarkFailed(w)
      <4>1. a # worker[w].action
        BY <2>4, <3>1 DEF MarkSucceeded, MarkFailed, Free
      <4>. QED
        BY <3>1, <4>1 DEF MarkSucceeded, MarkFailed, TypeOK, VariablesTyped
    <3>2. CASE ~MarkSucceeded(w) /\ ~MarkFailed(w)
      BY <1>3, <3>2
         DEF RejectExecution, ExecuteInternal, ExecuteRevocation,
             ExecuteReplacement, ExecutorFails, MarkSucceededRejected, Crash,
             database
    <3>. QED
      BY <3>1, <3>2
  <2>. QED
    BY <1>2, <2>1, <2>3, <2>4 DEF HoldingPhases, ClaimPhases
<1>4. CASE RecoverExpiredLeases
  <2>1. PICK time \in Stamps :
          /\ \A a \in ActionIds, w \in Workers :
               Expired(action[a], time) => ~LockedBy(w, a)
          /\ action' = [a \in ActionIds |-> ExpireRow(action[a], time)]
    BY <1>4 DEF RecoverExpiredLeases
  <2>2. \A v \in Workers, a \in ActionIds :
          LockedBy(v, a) => action'[a] = action[a]
    BY <2>1 DEF ExpireRow
  <2>3. UNCHANGED worker
    BY <1>4 DEF RecoverExpiredLeases
  <2>. QED
    BY <2>2, <2>3, LocksKept
<1>5. CASE UNCHANGED <<action, worker>>
  BY <1>5, LocksKept
<1>. QED
  BY <1>1, <1>3, <1>4, <1>5

LEMMA InitType == Init => TypeOK /\ LocksInv
<1>. SUFFICES ASSUME Init
              PROVE  TypeOK /\ LocksInv
  OBVIOUS
<1>1. InitialState \in Posture
  BY DEF InitialState, Posture, AccessStates, RenewalStates,
         CertificateStates, ReplacementStates
<1>2. NoAuthorization \in Authorization
  BY DEF NoAuthorization, Authorization
<1>3. VariablesTyped
  BY <1>1, <1>2
     DEF Init, VariablesTyped, CertificateStates, RecoveredBands, Rows
<1>4. HeldRequested
  BY DEF Init, HeldRequested, Idle, HoldingPhases
<1>5. LocksInv
  BY DEF Init, LocksInv, LockedBy, Idle, ClaimPhases
<1>. QED
  BY <1>3, <1>4, <1>5 DEF TypeOK

LEMMA TypeStep ==
  TypeOK /\ LocksInv /\ [Next]_vars => TypeOK' /\ LocksInv'
<1>. SUFFICES ASSUME TypeOK, LocksInv, [Next]_vars
              PROVE  TypeOK' /\ LocksInv'
  OBVIOUS
<1>0. VariablesTyped
  BY DEF TypeOK
<1>1. ASSUME NEW a \in ActionIds, NEW t \in Targets, Request(a, t)
      PROVE  VariablesTyped' /\ LocksInv'
  BY <1>0, <1>1, RequestType, OtherLocks
<1>2. ASSUME NEW w \in Workers, Work(w)
      PROVE  VariablesTyped' /\ LocksInv'
  BY <1>0, <1>2, ClaimEffect, ExecuteType, MarkSucceededType, MarkFailedType,
     OtherLocks
     DEF Work
<1>3. ASSUME \/ \E w \in Workers : Crash(w)
             \/ RecoverExpiredLeases
             \/ \E t \in Targets :
                  \/ RevokeOutside(t)
                  \/ \E band \in RecoveredBands : TrustTransition(t, band)
             \/ Tick
      PROVE  VariablesTyped' /\ LocksInv'
  BY <1>0, <1>3, EnvironmentType, OtherLocks
     DEF RevokeOutside, TrustTransition, Tick, database
<1>4. ASSUME UNCHANGED vars
      PROVE  VariablesTyped' /\ LocksInv'
  <2>1. VariablesTyped'
    BY <1>0, <1>4 DEF vars, VariablesTyped
  <2>. QED
    BY <1>4, <2>1, OtherLocks DEF vars
<1>5. VariablesTyped' /\ LocksInv'
  BY <1>1, <1>2, <1>3, <1>4 DEF Next
<1>. QED
  BY <1>5, HeldRequestedStep DEF TypeOK

(* The locks of the claims that run side by side never overlap, and hold   *)
(* the rows they are on (the row locks of claim_security_action).          *)
LEMMA LocksCorrect == Spec => [](TypeOK /\ LocksInv)
<1>1. Init => TypeOK /\ LocksInv
  BY InitType
<1>2. (TypeOK /\ LocksInv) /\ [Next]_vars => (TypeOK /\ LocksInv)'
  BY TypeStep
<1>. QED
  BY <1>1, <1>2, PTL DEF Spec

(* Every reachable state is well-typed, and a worker holds only actions    *)
(* that have a row, whatever requests, claims, lost answers, crashes and   *)
(* clock lags came before (claim_security_action and mark_security_action  *)
(* _succeeded/_failed never leave a row half-written).                     *)
THEOREM TypeCorrect == Spec => []TypeOK
BY LocksCorrect, PTL

----------------------------------------------------------------------------
(* Settled actions *)

(* A settled action never changes again: neither a sweep of a claim that   *)
(* commits after the report, nor a late or repeated report touches it (the *)
(* row locks, the status, token and lease checks of the mark functions and *)
(* the status conditions of the sweeps).                                   *)
THEOREM SettledForever == Spec => SettledIsFinal
<1>1. ASSUME TypeOK, LocksInv, [Next]_vars
      PROVE  \A a \in ActionIds :
               Requested(a) /\ Settled(action[a]) => action'[a] = action[a]
  BY <1>1, StepProgress DEF Progress, Created, Requested
<1>. QED
  BY <1>1, LocksCorrect, PTL DEF Spec, SettledIsFinal

----------------------------------------------------------------------------
(* What a claim is worth when it is reported                               *)

(* The target of a requested action has a state row, and a recovery was    *)
(* authorized for a version that row has had.                              *)
RequestedInv ==
  \A a \in ActionIds : Requested(a) =>
    /\ version[action[a].target] > 0
    /\ IsRecovery(action[a]) =>
         authorization[a].version \in 1..version[action[a].target]

(* An action executes on a version its target has had; a recovery on the   *)
(* one it was authorized for.                                              *)
ExecutingInv ==
  \A a \in ActionIds : action[a].status = "executing" =>
    /\ action[a].expected <= version[action[a].target]
    /\ IsRecovery(action[a]) => authorization[a].version = action[a].expected

(* The claim of a worker is the last one of its action, and no action took *)
(* effect on the target since.                                             *)
HoldsCurrent(w) ==
  /\ action[worker[w].action].status = "executing"
  /\ action[worker[w].action].attempts = worker[w].attempt
  /\ action[worker[w].action].expected = version[TargetOf(w)]

(* Then the worker computes from the posture the target has.               *)
WorkersInv ==
  \A w \in Workers : worker[w].phase \in HoldingPhases =>
    /\ worker[w].attempt <= action[worker[w].action].attempts
    /\ worker[w].phase = "executed" =>
         TransitionDefined(worker[w].posture, TypeOf(w))
    /\ HoldsCurrent(w) => worker[w].posture = posture[TargetOf(w)]

(* One action per target, and one worker per token.                        *)
HoldersInv ==
  /\ OneExecutingPerTarget
  /\ \A v, w \in Workers :
       /\ worker[v].phase \in HoldingPhases
       /\ worker[w].phase \in HoldingPhases
       /\ worker[v].action = worker[w].action
       /\ worker[v].attempt = worker[w].attempt
       => v = w

ClaimInv ==
  /\ TypeOK /\ LocksInv
  /\ RequestedInv /\ ExecutingInv /\ WorkersInv /\ HoldersInv

(* What a success means, given the invariant: the claim is the last one,   *)
(* the worker computed from the posture the target has, and a recovery     *)
(* has the posture version it was authorized for.                          *)
LEMMA Succeeding ==
  ASSUME ClaimInv, NEW w \in Workers, MarkSucceeded(w)
  PROVE  /\ worker[w].action \in ActionIds
         /\ action[worker[w].action] \in Row
         /\ action[worker[w].action].status = "executing"
         /\ TargetOf(w) \in Targets
         /\ TypeOf(w) \in ActionTypes
         /\ version[TargetOf(w)] \in Nat \ {0}
         /\ TypeOf(w) \in RecoveryTypes =>
              authorization[worker[w].action].version = version[TargetOf(w)]
         /\ TransitionDefined(posture[TargetOf(w)], TypeOf(w))
         /\ posture' = [posture EXCEPT ![TargetOf(w)] =
                          TransitionState(posture[TargetOf(w)], TypeOf(w))]
         /\ version' = [version EXCEPT ![TargetOf(w)] =
                          version[TargetOf(w)] + 1]
<1>. DEFINE a == worker[w].action
            t == TargetOf(w)
<1>1. worker[w].phase = "executed" /\ "executed" \in HoldingPhases
  BY DEF MarkSucceeded, HoldingPhases
<1>2. /\ a \in ActionIds /\ action[a] \in Row
      /\ TypeOf(w) \in ActionTypes /\ t \in Targets
  BY <1>1, HeldRowType DEF ClaimInv
<1>3. PICK time \in Stamps : RecordableSuccess(w, time)
  BY DEF MarkSucceeded
<1>4. /\ action[a].status = "executing"
      /\ action[a].attempts = worker[w].attempt
      /\ action[a].expected = version[t]
  BY <1>3 DEF RecordableSuccess, HoldsClaim
<1>5. HoldsCurrent(w)
  BY <1>4 DEF HoldsCurrent
<1>6. /\ worker[w].posture = posture[t]
      /\ TransitionDefined(worker[w].posture, TypeOf(w))
  BY <1>1, <1>5 DEF ClaimInv, WorkersInv
<1>7. Requested(a) /\ version[t] \in Nat
  BY <1>2, <1>4 DEF Requested, ClaimInv, TypeOK, VariablesTyped
<1>8. version[t] > 0
  BY <1>2, <1>7 DEF ClaimInv, RequestedInv, TargetOf
<1>9. TypeOf(w) \in RecoveryTypes => authorization[a].version = version[t]
  BY <1>2, <1>4 DEF ClaimInv, ExecutingInv, IsRecovery, TypeOf
<1>10. /\ posture' = [posture EXCEPT ![t] = ResultState(w)]
       /\ version' = [version EXCEPT ![t] = version[t] + 1]
  BY DEF MarkSucceeded
<1>11. ResultState(w) = TransitionState(posture[t], TypeOf(w))
  BY <1>6 DEF ResultState
<1>. QED
  BY <1>2, <1>4, <1>6, <1>7, <1>8, <1>9, <1>10, <1>11

----------------------------------------------------------------------------
(* ClaimInv is inductive *)

VersionsGrow == \A t \in Targets : version'[t] >= version[t]

LEMMA TrackGrows ==
  ASSUME TypeOK, NEW t \in Targets, TrackTarget(t)
  PROVE  /\ VersionsGrow
         /\ version'[t] > 0
         /\ \A u \in Targets : version[u] > 0 => /\ version'[u] = version[u]
                                                 /\ posture'[u] = posture[u]
<1>1. CASE version[t] = 0
  BY <1>1 DEF TrackTarget, TypeOK, VariablesTyped, VersionsGrow
<1>2. CASE version[t] # 0
  BY <1>2 DEF TrackTarget, TypeOK, VariablesTyped, VersionsGrow
<1>. QED
  BY <1>1, <1>2

LEMMA KindsGrow ==
  ASSUME ClaimInv
  PROVE  /\ \A w \in Workers, a \in ActionIds : Taken(w, a) => VersionsGrow
         /\ \A w \in Workers : MarkSucceeded(w) => VersionsGrow
         /\ Quiet => VersionsGrow
<1>1. \A t \in Targets : version[t] \in Nat
  BY DEF ClaimInv, TypeOK, VariablesTyped
<1>2. ASSUME UNCHANGED version
      PROVE  VersionsGrow
  BY <1>1, <1>2 DEF VersionsGrow
<1>3. ASSUME NEW w \in Workers, MarkSucceeded(w)
      PROVE  VersionsGrow
  <2>1. version' = [version EXCEPT ![TargetOf(w)] = version[TargetOf(w)] + 1]
    BY <1>3, Succeeding
  <2>. QED
    BY <1>1, <2>1 DEF ClaimInv, TypeOK, VariablesTyped, VersionsGrow
<1>. QED
  BY <1>2, <1>3 DEF Taken, Quiet

(* A requested row stays justified while versions grow.                    *)
LEMMA RequestedKept ==
  ASSUME ClaimInv, TypeOK', VersionsGrow, NEW b \in ActionIds,
         Progress(action[b], action'[b]), Requested(b)',
         authorization'[b] = authorization[b]
  PROVE  /\ version'[action'[b].target] > 0
         /\ IsRecovery(action'[b]) =>
              authorization'[b].version \in 1..version'[action'[b].target]
<1>1. action[b] \in Rows
  BY DEF ClaimInv, TypeOK, VariablesTyped, Rows
<1>2. /\ Requested(b)
      /\ action'[b].type = action[b].type
      /\ action'[b].target = action[b].target
  BY DEF Progress, Requested, Row, Statuses
<1>3. action[b] \in Row
  BY <1>1, <1>2, RequestedIsRow DEF Requested
<1>. DEFINE t == action[b].target
<1>4. t \in Targets
  BY <1>3 DEF Row
<1>5. version[t] \in Nat /\ version'[t] \in Nat /\ version'[t] >= version[t]
  BY <1>4 DEF ClaimInv, TypeOK, VariablesTyped, VersionsGrow
<1>6. /\ version[t] > 0
      /\ IsRecovery(action[b]) => authorization[b].version \in 1..version[t]
  BY <1>2 DEF ClaimInv, RequestedInv
<1>. QED
  BY <1>2, <1>5, <1>6 DEF IsRecovery

LEMMA RequestedStep ==
  ASSUME ClaimInv, [Next]_vars, TypeOK'
  PROVE  RequestedInv'
<1>. SUFFICES ASSUME NEW b \in ActionIds, Requested(b)'
              PROVE  /\ version'[action'[b].target] > 0
                     /\ IsRecovery(action'[b]) =>
                          authorization'[b].version
                            \in 1..version'[action'[b].target]
  BY DEF RequestedInv
<1>1. ASSUME NEW a \in ActionIds, NEW t \in Targets, NEW type \in ActionTypes,
             Asked(a, t, type)
      PROVE  /\ version'[action'[b].target] > 0
             /\ IsRecovery(action'[b]) =>
                  authorization'[b].version \in 1..version'[action'[b].target]
  <2>1. VersionsGrow /\ version'[t] > 0
    BY <1>1, TrackGrows DEF Asked, ClaimInv
  <2>2. CASE b = a
    <3>1. action'[b].target = t /\ action'[b].type = type
      BY <1>1, <2>2 DEF Asked
    <3>2. version[t] \in Nat /\ version'[t] \in Nat
      BY DEF ClaimInv, TypeOK, VariablesTyped
    <3>3. version'[t] >= version[t]
      BY <2>1 DEF VersionsGrow
    <3>4. type \in RecoveryTypes => /\ version[t] > 0
                                    /\ authorization'[b].version = version[t]
      BY <1>1, <2>2 DEF Asked
    <3>. QED
      BY <2>1, <3>1, <3>2, <3>3, <3>4 DEF IsRecovery
  <2>3. CASE b # a
    <3>1. action'[b] = action[b] /\ authorization'[b] = authorization[b]
      BY <1>1, <2>3 DEF Asked
    <3>2. Progress(action[b], action'[b])
      BY <3>1 DEF Progress
    <3>. QED
      BY <2>1, <3>1, <3>2, RequestedKept
  <2>. QED
    BY <2>2, <2>3
<1>2. ASSUME Quiet \/ \E w \in Workers : \/ MarkSucceeded(w)
                                         \/ \E a \in ActionIds : Taken(w, a)
      PROVE  /\ version'[action'[b].target] > 0
             /\ IsRecovery(action'[b]) =>
                  authorization'[b].version \in 1..version'[action'[b].target]
  <2>1. VersionsGrow
    BY <1>2, KindsGrow
  <2>2. Progress(action[b], action'[b])
    BY <1>2, MarkProgress DEF Quiet, Taken, ClaimInv
  <2>3. UNCHANGED authorization
    BY <1>2 DEF Quiet, Taken, MarkSucceeded
  <2>. QED
    BY <2>1, <2>2, <2>3, RequestedKept
<1>. QED
  BY <1>1, <1>2, StepKinds DEF ClaimInv

LEMMA ExecutingStep ==
  ASSUME ClaimInv, [Next]_vars, TypeOK'
  PROVE  ExecutingInv'
<1>. SUFFICES ASSUME NEW b \in ActionIds, action'[b].status = "executing"
              PROVE  /\ action'[b].expected <= version'[action'[b].target]
                     /\ IsRecovery(action'[b]) =>
                          authorization'[b].version = action'[b].expected
  BY DEF ExecutingInv
<1>0. action'[b] \in Row
  BY StatusIsRequested DEF TypeOK, VariablesTyped, Rows, NoRow
<1>1. ASSUME action'[b] = action[b], authorization'[b] = authorization[b],
             VersionsGrow
      PROVE  /\ action'[b].expected <= version'[action'[b].target]
             /\ IsRecovery(action'[b]) =>
                  authorization'[b].version = action'[b].expected
  <2>. DEFINE t == action[b].target
  <2>1. t \in Targets /\ action[b].expected \in Nat
    BY <1>0, <1>1 DEF Row
  <2>2. version[t] \in Nat /\ version'[t] \in Nat /\ version'[t] >= version[t]
    BY <1>1, <2>1 DEF ClaimInv, TypeOK, VariablesTyped, VersionsGrow
  <2>3. /\ action[b].expected <= version[t]
        /\ IsRecovery(action[b]) =>
             authorization[b].version = action[b].expected
    BY <1>1 DEF ClaimInv, ExecutingInv
  <2>. QED
    BY <1>1, <2>1, <2>2, <2>3
<1>2. ASSUME NEW a \in ActionIds, NEW t \in Targets, NEW type \in ActionTypes,
             Asked(a, t, type)
      PROVE  /\ action'[b].expected <= version'[action'[b].target]
             /\ IsRecovery(action'[b]) =>
                  authorization'[b].version = action'[b].expected
  <2>1. b # a
    BY <1>2 DEF Asked
  <2>2. action'[b] = action[b] /\ authorization'[b] = authorization[b]
    BY <1>2, <2>1 DEF Asked
  <2>3. VersionsGrow
    BY <1>2, TrackGrows DEF Asked, ClaimInv
  <2>. QED
    BY <1>1, <2>2, <2>3
<1>3. ASSUME NEW w \in Workers, NEW a \in ActionIds, Taken(w, a)
      PROVE  /\ action'[b].expected <= version'[action'[b].target]
             /\ IsRecovery(action'[b]) =>
                  authorization'[b].version = action'[b].expected
  <2>1. VersionsGrow /\ UNCHANGED <<version, authorization>>
    BY <1>3, KindsGrow DEF Taken
  <2>2. CASE b = a
    <3>1. /\ action'[b].expected = version[action'[b].target]
          /\ IsRecovery(action'[b]) =>
               authorization[b].version = version[action'[b].target]
      BY <1>3, <2>2 DEF Taken
    <3>2. action'[b].expected \in Nat
      BY <1>0 DEF Row
    <3>. QED
      BY <2>1, <3>1, <3>2
  <2>3. CASE b # a
    <3>1. action'[b] = action[b]
      BY <1>3, <2>3 DEF Taken
    <3>. QED
      BY <1>1, <2>1, <3>1
  <2>. QED
    BY <2>2, <2>3
<1>4. ASSUME Quiet \/ \E w \in Workers : MarkSucceeded(w)
      PROVE  /\ action'[b].expected <= version'[action'[b].target]
             /\ IsRecovery(action'[b]) =>
                  authorization'[b].version = action'[b].expected
  <2>1. VersionsGrow
    BY <1>4, KindsGrow
  <2>2. action'[b] = action[b]
    BY <1>4, MarkFewer DEF Quiet, FewerExecuting, ClaimInv
  <2>3. UNCHANGED authorization
    BY <1>4 DEF Quiet, MarkSucceeded
  <2>. QED
    BY <1>1, <2>1, <2>2, <2>3
<1>. QED
  BY <1>2, <1>3, <1>4, StepKinds DEF ClaimInv

(* What WorkersInv says of one worker.                                     *)
ClaimKept(v) ==
  /\ worker[v].attempt <= action[worker[v].action].attempts
  /\ worker[v].phase = "executed" =>
       TransitionDefined(worker[v].posture, TypeOf(v))
  /\ HoldsCurrent(v) => worker[v].posture = posture[TargetOf(v)]

(* A claim stays what it is while its row is executed, and the row's       *)
(* target untouched, or the claim is not the current one any more.         *)
LEMMA WorkerKept ==
  ASSUME ClaimInv, TypeOK', NEW v \in Workers, GoesOn(v),
         worker'[v].phase \in HoldingPhases,
         NEW x, x = worker[v].action,
         Progress(action[x], action'[x]),
         HoldsCurrent(v)' =>
           /\ action'[x] = action[x]
           /\ version'[action[x].target] = version[action[x].target]
           /\ posture'[action[x].target] = posture[action[x].target]
  PROVE  ClaimKept(v)'
<1>1. /\ worker[v].phase \in HoldingPhases
      /\ worker'[v].action = x
      /\ worker'[v].attempt = worker[v].attempt
      /\ worker'[v].posture = worker[v].posture
      /\ worker'[v].phase = "executed" =>
           \/ worker[v].phase = "executed"
           \/ TransitionDefined(worker[v].posture, TypeOf(v))
  BY DEF GoesOn
<1>2. /\ x \in ActionIds /\ action[x] \in Row /\ worker[v] \in Claim
  BY <1>1, HeldRowType DEF ClaimInv
<1>3. ClaimKept(v)
  BY <1>1 DEF ClaimInv, WorkersInv, ClaimKept
<1>4. /\ action'[x] \in Row /\ action'[x].type = action[x].type
      /\ action'[x].attempts >= action[x].attempts
  BY <1>2 DEF Progress, Row
<1>5. worker'[v].attempt <= action'[x].attempts
  <2>1. /\ worker[v].attempt \in Nat /\ action[x].attempts \in Nat
        /\ action'[x].attempts \in Nat
    BY <1>2, <1>4 DEF Claim, Row
  <2>. QED
    BY <1>1, <1>3, <1>4, <2>1 DEF ClaimKept
<1>6. worker'[v].phase = "executed" =>
        TransitionDefined(worker'[v].posture, TypeOf(v)')
  <2>1. TypeOf(v)' = TypeOf(v)
    BY <1>1, <1>4 DEF TypeOf
  <2>. QED
    BY <1>1, <1>3, <2>1 DEF ClaimKept
<1>7. ASSUME HoldsCurrent(v)'
      PROVE  worker'[v].posture = posture'[TargetOf(v)']
  <2>1. /\ action'[x] = action[x]
        /\ version'[action[x].target] = version[action[x].target]
        /\ posture'[action[x].target] = posture[action[x].target]
    BY <1>7
  <2>2. HoldsCurrent(v)
    BY <1>1, <1>7, <2>1 DEF HoldsCurrent, TargetOf
  <2>3. worker[v].posture = posture[TargetOf(v)]
    BY <1>3, <2>2 DEF ClaimKept
  <2>4. TargetOf(v)' = TargetOf(v)
    BY <1>1, <2>1 DEF TargetOf
  <2>5. TargetOf(v) = action[x].target
    BY DEF TargetOf
  <2>. QED
    BY <1>1, <2>1, <2>3, <2>4, <2>5
<1>. QED
  BY <1>1, <1>5, <1>6, <1>7 DEF ClaimKept

LEMMA WorkersStep ==
  ASSUME ClaimInv, [Next]_vars, TypeOK'
  PROVE  WorkersInv'
<1>. SUFFICES ASSUME NEW v \in Workers, worker'[v].phase \in HoldingPhases
              PROVE  ClaimKept(v)'
  BY DEF WorkersInv, ClaimKept
<1>. DEFINE x == worker[v].action
<1>0. \A u \in Workers : worker'[u] = worker[u] => GoesOn(u)
  BY DEF GoesOn
<1>1. ASSUME NEW a \in ActionIds, NEW t \in Targets, NEW type \in ActionTypes,
             Asked(a, t, type)
      PROVE  ClaimKept(v)'
  <2>1. worker'[v] = worker[v] /\ GoesOn(v)
    BY <1>0, <1>1 DEF Asked
  <2>2. x \in ActionIds /\ action[x] \in Row /\ Requested(x)
    BY <2>1, HeldRowType DEF ClaimInv, TypeOK, HeldRequested
  <2>3. x # a
    BY <1>1, <2>2 DEF Asked
  <2>4. action'[x] = action[x]
    BY <1>1, <2>2, <2>3 DEF Asked
  <2>5. action[x].target \in Targets /\ version[action[x].target] > 0
    BY <2>2 DEF ClaimInv, RequestedInv, Row
  <2>6. /\ version'[action[x].target] = version[action[x].target]
        /\ posture'[action[x].target] = posture[action[x].target]
    BY <1>1, <2>5, TrackGrows DEF Asked, ClaimInv
  <2>7. Progress(action[x], action'[x])
    BY <2>4 DEF Progress
  <2>. QED
    BY <2>1, <2>4, <2>6, <2>7, WorkerKept
<1>2. ASSUME NEW w \in Workers, NEW a \in ActionIds, Taken(w, a)
      PROVE  ClaimKept(v)'
  <2>. DEFINE held == [phase |-> "claimed", action |-> a,
                       attempt |-> action'[a].attempts,
                       posture |-> posture[action'[a].target],
                       reference |-> 0]
  <2>1. worker'[v] = IF v = w THEN held ELSE worker[v]
    BY <1>2 DEF Taken, ClaimInv, TypeOK, VariablesTyped
  <2>2. CASE v = w
    <3>1. /\ worker'[v].action = a /\ worker'[v].phase = "claimed"
          /\ worker'[v].attempt = action'[a].attempts
          /\ worker'[v].posture = posture[action'[a].target]
      BY <2>1, <2>2
    <3>2. UNCHANGED posture /\ action'[a].attempts \in Nat
      BY <1>2 DEF Taken, Row
    <3>. QED
      BY <3>1, <3>2 DEF ClaimKept, TargetOf
  <2>3. CASE v # w
    <3>1. worker'[v] = worker[v] /\ GoesOn(v)
      BY <1>0, <2>1, <2>3
    <3>2. /\ x \in ActionIds /\ action[x] \in Row /\ worker[v] \in Claim
      BY <3>1, HeldRowType DEF ClaimInv
    <3>3. Progress(action[x], action'[x]) /\ UNCHANGED <<version, posture>>
      BY <1>2, <3>2 DEF Taken
    <3>4. HoldsCurrent(v)' => action'[x] = action[x]
      <4>1. CASE x = a
        <5>1. worker[v].attempt <= action[x].attempts
          BY <3>1 DEF ClaimInv, WorkersInv
        <5>2. action'[x].attempts > action[x].attempts
          BY <1>2, <4>1 DEF Taken
        <5>3. /\ worker[v].attempt \in Nat /\ action[x].attempts \in Nat
              /\ action'[x].attempts \in Nat
          BY <1>2, <3>2, <4>1 DEF Claim, Row, Taken
        <5>4. action'[x].attempts # worker'[v].attempt
          BY <3>1, <5>1, <5>2, <5>3
        <5>. QED
          BY <3>1, <5>4 DEF HoldsCurrent
      <4>2. CASE x # a
        BY <1>2, <3>1, <3>2, <4>2 DEF Taken, HoldsCurrent
      <4>. QED
        BY <4>1, <4>2
    <3>. QED
      BY <3>1, <3>3, <3>4, WorkerKept
  <2>. QED
    BY <2>2, <2>3
<1>3. ASSUME NEW w \in Workers, MarkSucceeded(w)
      PROVE  ClaimKept(v)'
  <2>. DEFINE t == TargetOf(w)
  <2>1. /\ t \in Targets /\ version[t] \in Nat
        /\ posture' = [posture EXCEPT ![t] =
                         TransitionState(posture[t], TypeOf(w))]
        /\ version' = [version EXCEPT ![t] = version[t] + 1]
    BY <1>3, Succeeding
  <2>2. GoesOn(v)
    BY <1>3, SucceededGoesOn DEF ClaimInv
  <2>3. x \in ActionIds /\ action[x] \in Row
    BY <2>2, HeldRowType DEF GoesOn, ClaimInv
  <2>4. Progress(action[x], action'[x])
    BY <1>3, <2>3, MarkProgress DEF ClaimInv
  <2>5. ASSUME HoldsCurrent(v)'
        PROVE  /\ action'[x] = action[x]
               /\ version'[action[x].target] = version[action[x].target]
               /\ posture'[action[x].target] = posture[action[x].target]
    <3>1. worker'[v].action = x
      BY <2>2 DEF GoesOn
    <3>2. action'[x].status = "executing"
      BY <2>5, <3>1 DEF HoldsCurrent
    <3>3. action'[x] = action[x]
      BY <1>3, <2>3, <3>2, MarkFewer DEF FewerExecuting, ClaimInv
    <3>4. action[x].expected <= version[action[x].target]
      BY <2>3, <3>2, <3>3 DEF ClaimInv, ExecutingInv
    <3>5. version'[action[x].target] = action[x].expected
      BY <2>5, <3>1, <3>3 DEF HoldsCurrent, TargetOf
    <3>6. action[x].expected \in Nat /\ action[x].target \in Targets
      BY <2>3 DEF Row
    <3>7. action[x].target # t
      BY <2>1, <3>4, <3>5, <3>6 DEF ClaimInv, TypeOK, VariablesTyped
    <3>. QED
      BY <2>1, <3>3, <3>6, <3>7 DEF ClaimInv, TypeOK, VariablesTyped
  <2>. QED
    BY <2>2, <2>4, <2>5, WorkerKept
<1>4. CASE Quiet
  <2>1. GoesOn(v) /\ UNCHANGED <<version, posture>>
    BY <1>4 DEF Quiet
  <2>2. x \in ActionIds
    BY <2>1, HeldRowType DEF GoesOn, ClaimInv
  <2>3. Progress(action[x], action'[x])
    BY <1>4, <2>2 DEF Quiet
  <2>4. HoldsCurrent(v)' => action'[x] = action[x]
    BY <1>4, <2>1, <2>2 DEF Quiet, FewerExecuting, HoldsCurrent, GoesOn
  <2>. QED
    BY <2>1, <2>3, <2>4, WorkerKept
<1>. QED
  BY <1>1, <1>2, <1>3, <1>4, StepKinds DEF ClaimInv

LEMMA OneExecutingStep ==
  ASSUME ClaimInv, [Next]_vars
  PROVE  OneExecutingPerTarget'
<1>. SUFFICES ASSUME NEW b \in ActionIds, NEW c \in ActionIds,
                     action'[b].status = "executing",
                     action'[c].status = "executing",
                     action'[b].target = action'[c].target
              PROVE  b = c
  BY DEF OneExecutingPerTarget
<1>1. ASSUME FewerExecuting(action', action)
      PROVE  b = c
  BY <1>1 DEF FewerExecuting, ClaimInv, HoldersInv, OneExecutingPerTarget
<1>2. ASSUME NEW a \in ActionIds, NEW t \in Targets, NEW type \in ActionTypes,
             Asked(a, t, type)
      PROVE  FewerExecuting(action', action)
  BY <1>2 DEF Asked, FewerExecuting
<1>3. ASSUME NEW w \in Workers, NEW a \in ActionIds, Taken(w, a)
      PROVE  b = c
  BY <1>3 DEF Taken, ClaimInv, HoldersInv, OneExecutingPerTarget
<1>. QED
  BY <1>1, <1>2, <1>3, StepKinds, MarkFewer DEF Quiet, ClaimInv

LEMMA HoldersStep ==
  ASSUME ClaimInv, [Next]_vars
  PROVE  HoldersInv'
<1>. SUFFICES ASSUME NEW u \in Workers, NEW v \in Workers,
                     worker'[u].phase \in HoldingPhases,
                     worker'[v].phase \in HoldingPhases,
                     worker'[u].action = worker'[v].action,
                     worker'[u].attempt = worker'[v].attempt
              PROVE  u = v
  BY OneExecutingStep DEF HoldersInv
<1>1. ASSUME GoesOn(u), GoesOn(v)
      PROVE  u = v
  BY <1>1 DEF GoesOn, ClaimInv, HoldersInv
<1>2. ASSUME UNCHANGED worker
      PROVE  u = v
  BY <1>2 DEF ClaimInv, HoldersInv
<1>3. ASSUME NEW w \in Workers, NEW a \in ActionIds, Taken(w, a)
      PROVE  u = v
  <2>. DEFINE held == [phase |-> "claimed", action |-> a,
                       attempt |-> action'[a].attempts,
                       posture |-> posture[action'[a].target],
                       reference |-> 0]
  <2>1. \A x \in Workers : worker'[x] = IF x = w THEN held ELSE worker[x]
    BY <1>3 DEF Taken, ClaimInv, TypeOK, VariablesTyped
  <2>2. ASSUME NEW x \in Workers, x # w, worker'[x].phase \in HoldingPhases,
               worker'[x].action = a
        PROVE  worker'[x].attempt # action'[a].attempts
    <3>1. worker'[x] = worker[x]
      BY <2>1, <2>2
    <3>2. worker[x].attempt <= action[a].attempts
      BY <2>2, <3>1 DEF ClaimInv, WorkersInv
    <3>3. worker[x] \in Claim /\ action[a] \in Row
      BY <2>2, <3>1, HeldRowType DEF ClaimInv
    <3>4. action'[a].attempts > action[a].attempts /\ action'[a] \in Row
      BY <1>3 DEF Taken
    <3>. QED
      BY <3>1, <3>2, <3>3, <3>4 DEF Claim, Row
  <2>3. worker'[w].action = a /\ worker'[w].attempt = action'[a].attempts
    BY <2>1
  <2>4. CASE u = w \/ v = w
    BY <2>2, <2>3, <2>4
  <2>5. CASE u # w /\ v # w
    <3>1. worker'[u] = worker[u] /\ worker'[v] = worker[v]
      BY <2>1, <2>5
    <3>. QED
      BY <3>1 DEF ClaimInv, HoldersInv
  <2>. QED
    BY <2>4, <2>5
<1>. QED
  BY <1>1, <1>2, <1>3, StepKinds, SucceededGoesOn
     DEF Asked, Quiet, ClaimInv

(* In every reachable state a claim that is still current was computed     *)
(* from the posture its target has (expected_state_version and the token   *)
(* of mark_security_action_succeeded).                                     *)
LEMMA ClaimsCurrent == Spec => []ClaimInv
<1>1. Init => ClaimInv
  <2>. SUFFICES ASSUME Init
                PROVE  ClaimInv
    OBVIOUS
  <2>1. TypeOK /\ LocksInv
    BY InitType
  <2>2. \A a \in ActionIds : action[a].status = "none"
    BY DEF Init, NoRow
  <2>3. \A w \in Workers : worker[w].phase \notin HoldingPhases
    BY DEF Init, Idle, HoldingPhases
  <2>. QED
    BY <2>1, <2>2, <2>3
       DEF ClaimInv, RequestedInv, ExecutingInv, WorkersInv, HoldersInv,
           OneExecutingPerTarget, Requested
<1>2. ClaimInv /\ [Next]_vars => ClaimInv'
  <2>. SUFFICES ASSUME ClaimInv, [Next]_vars
                PROVE  ClaimInv'
    OBVIOUS
  <2>1. TypeOK' /\ LocksInv'
    BY TypeStep DEF ClaimInv
  <2>. QED
    BY <2>1, RequestedStep, ExecutingStep, WorkersStep, HoldersStep
       DEF ClaimInv
<1>. QED
  BY <1>1, <1>2, PTL DEF Spec

(* Two workers never act on one target under claims that are both current, *)
(* although claim_security_action selects an action before it locks the    *)
(* target and takes the action last: the second of two claims that         *)
(* selected actions of one target breaks the unique index                  *)
(* (security_actions_one_executing_per_target) and is rolled back, and a   *)
(* reclaimed action has a new token.                                       *)
THEOREM MutualExclusion == Spec => []ClaimsExclusive
<1>1. ASSUME ClaimInv, NEW v \in Workers, NEW w \in Workers,
             ClaimCurrent(v), ClaimCurrent(w), TargetOf(v) = TargetOf(w)
      PROVE  v = w
  <2>1. worker[v].action \in ActionIds /\ worker[w].action \in ActionIds
    BY <1>1, HeldRowType DEF ClaimInv, ClaimCurrent
  <2>2. worker[v].action = worker[w].action
    BY <1>1, <2>1
       DEF ClaimInv, HoldersInv, OneExecutingPerTarget, ClaimCurrent, TargetOf
  <2>3. worker[v].attempt = worker[w].attempt
    BY <1>1, <2>2 DEF ClaimCurrent
  <2>. QED
    BY <1>1, <2>2, <2>3 DEF ClaimInv, HoldersInv, ClaimCurrent
<1>2. ClaimInv => ClaimsExclusive
  BY <1>1 DEF ClaimsExclusive
<1>. QED
  BY <1>2, ClaimsCurrent, PTL

----------------------------------------------------------------------------
(* Posture and inventory *)

LEMMA InventoryGrows ==
  ASSUME TypeOK, [Next]_vars, NEW t \in Targets, inventory[t] = "revoked"
  PROVE  inventory'[t] = "revoked"
<1>1. CASE UNCHANGED inventory
  BY <1>1
<1>2. ASSUME NEW u, inventory' = [inventory EXCEPT ![u] = "revoked"]
      PROVE  inventory'[t] = "revoked"
  BY <1>2 DEF TypeOK, VariablesTyped
<1>3. ASSUME NEW a \in ActionIds, NEW u \in Targets, Request(a, u)
      PROVE  UNCHANGED inventory
  BY <1>3, RequestEnqueues DEF Enqueue, environment
<1>4. ASSUME NEW w \in Workers, Work(w)
      PROVE  UNCHANGED inventory
               \/ \E u : inventory' = [inventory EXCEPT ![u] = "revoked"]
  <2>1. CASE \/ ClaimSweep(w) \/ ClaimSuppress(w) \/ ClaimSelect(w)
             \/ ClaimNothing(w) \/ ClaimSuppressed(w) \/ ClaimTake(w)
             \/ ClaimConflict(w)
    BY <2>1
       DEF ClaimSweep, ClaimSuppress, ClaimSelect, ClaimNothing,
           ClaimSuppressed, ClaimTake, ClaimConflict, Commit, environment
  <2>2. CASE MarkSucceeded(w) \/ MarkSucceededRejected(w) \/ MarkFailed(w)
    BY <2>2
       DEF MarkSucceeded, MarkSucceededRejected, MarkFailed, environment
  <2>3. CASE RejectExecution(w) \/ ExecuteInternal(w) \/ ExecuteReplacement(w)
    BY <2>3
       DEF RejectExecution, ExecuteInternal, ExecuteReplacement, environment
  <2>4. CASE ExecuteRevocation(w) \/ ExecutorFails(w)
    BY <2>4 DEF ExecuteRevocation, ExecutorFails
  <2>. QED
    BY <1>4, <2>1, <2>2, <2>3, <2>4 DEF Work
<1>5. CASE \/ \E w \in Workers : Crash(w)
           \/ RecoverExpiredLeases
           \/ \E u \in Targets :
                \/ RevokeOutside(u)
                \/ \E band \in RecoveredBands : TrustTransition(u, band)
           \/ Tick
           \/ UNCHANGED vars
  BY <1>1, <1>2, <1>5
     DEF Crash, RecoverExpiredLeases, RevokeOutside, TrustTransition, Tick,
         vars, environment
<1>. QED
  BY <1>1, <1>2, <1>3, <1>4, <1>5 DEF Next

(* What a recorded success may change about the certificate.               *)
LEMMA SuccessConfirmed ==
  ASSUME TypeOK, NEW w \in Workers, MarkSucceeded(w), NEW t \in Targets,
         RevokedInInventory, posture'[t].targetCertificate = "revoked"
  PROVE  inventory[t] = "revoked"
<1>1. TargetOf(w) \in Targets
  BY HeldRowType DEF MarkSucceeded, HoldingPhases
<1>2. PICK time \in Stamps : RecordableSuccess(w, time)
  BY DEF MarkSucceeded
<1>3. /\ ResultState(w) = ExpectedState(posture[TargetOf(w)], TypeOf(w))
      /\ TypeOf(w) = "revoke-certificate" =>
           inventory[TargetOf(w)] = "revoked"
  BY <1>2 DEF RecordableSuccess
<1>4. posture' = [posture EXCEPT ![TargetOf(w)] = ResultState(w)]
  BY DEF MarkSucceeded
<1>5. ResultState(w).targetCertificate =
        IF TypeOf(w) = "revoke-certificate"
        THEN "revoked" ELSE posture[TargetOf(w)].targetCertificate
  BY <1>3 DEF ExpectedState
<1>. QED
  BY <1>1, <1>3, <1>4, <1>5 DEF TypeOK, VariablesTyped, RevokedInInventory

(* A posture that says "revoked" is backed by the inventory, whoever       *)
(* revoked and however a late, failing or crashing worker reports          *)
(* (the certificate checks of mark_security_action_succeeded and the row   *)
(* created from the inventory).                                            *)
THEOREM RevocationConfirmed == Spec => []RevokedInInventory
<1>1. Init => RevokedInInventory
  BY DEF Init, RevokedInInventory, InitialState
<1>2. TypeOK /\ LocksInv /\ RevokedInInventory /\ [Next]_vars
        => RevokedInInventory'
  <2>. SUFFICES ASSUME TypeOK, LocksInv, RevokedInInventory, [Next]_vars,
                       NEW t \in Targets,
                       posture'[t].targetCertificate = "revoked"
                PROVE  inventory'[t] = "revoked"
    BY DEF RevokedInInventory
  <2>1. ASSUME NEW a \in ActionIds, NEW u \in Targets,
               NEW type \in ActionTypes, Asked(a, u, type)
        PROVE  inventory[t] = "revoked"
    <3>1. CASE UNCHANGED posture
      BY <3>1 DEF RevokedInInventory
    <3>2. CASE posture' = [posture EXCEPT ![u].targetCertificate = inventory[u]]
      <4>1. CASE t = u
        <5>1. posture'[t].targetCertificate = inventory[t]
          BY <3>2, <4>1 DEF TypeOK, VariablesTyped, Posture
        <5>. QED
          BY <5>1
      <4>2. CASE t # u
        BY <3>2, <4>2 DEF TypeOK, VariablesTyped, RevokedInInventory
      <4>. QED
        BY <4>1, <4>2
    <3>. QED
      BY <2>1, <3>1, <3>2 DEF Asked, TrackTarget
  <2>2. ASSUME NEW w \in Workers, MarkSucceeded(w)
        PROVE  inventory[t] = "revoked"
    BY <2>2, SuccessConfirmed
  <2>3. ASSUME UNCHANGED posture
        PROVE  inventory[t] = "revoked"
    BY <2>3 DEF RevokedInInventory
  <2>4. inventory[t] = "revoked"
    BY <2>1, <2>2, <2>3, StepKinds DEF Taken, Quiet
  <2>. QED
    BY <2>4, InventoryGrows
<1>. QED
  BY <1>1, <1>2, LocksCorrect, PTL DEF Spec

----------------------------------------------------------------------------
(* The queue implements SecurityPosture *)

(* The state machine of the abstract specification is the same one.        *)
LEMMA SameMachine ==
  /\ Abstract!InitialState = InitialState
  /\ Abstract!CertificateStates = CertificateStates
  /\ Abstract!ProtectiveTypes = ProtectiveTypes
  /\ Abstract!RecoveryTypes = RecoveryTypes
  /\ \A s : Abstract!DefinedState(s) <=> DefinedState(s)
  /\ \A s, type :
       Abstract!RecoveryConditionsMet(s, type) <=> RecoveryConditionsMet(s, type)
<1>1. /\ Abstract!InitialState = InitialState
      /\ Abstract!CertificateStates = CertificateStates
  BY DEF Abstract!InitialState, InitialState, Abstract!CertificateStates,
         CertificateStates
<1>2. /\ Abstract!ProtectiveTypes = ProtectiveTypes
      /\ Abstract!RecoveryTypes = RecoveryTypes
  BY DEF Abstract!ProtectiveTypes, ProtectiveTypes, Abstract!QuarantineTypes,
         QuarantineTypes, Abstract!SeverityTypes, SeverityTypes,
         Abstract!RecoveryTypes, RecoveryTypes
<1>3. \A s : Abstract!DefinedState(s) <=> DefinedState(s)
  BY DEF Abstract!DefinedState, DefinedState
<1>4. \A s, type :
        Abstract!RecoveryConditionsMet(s, type) <=> RecoveryConditionsMet(s, type)
  BY DEF Abstract!RecoveryConditionsMet, RecoveryConditionsMet
<1>. QED
  BY <1>1, <1>2, <1>3, <1>4

LEMMA SameTransition ==
  ASSUME NEW s, NEW type
  PROVE  Abstract!TransitionState(s, type) = TransitionState(s, type)
BY DEF Abstract!TransitionState, TransitionState

(* Action b is a grant for the posture the target t has.                   *)
Grants(t, b) ==
  /\ Requested(b)
  /\ IsRecovery(action[b])
  /\ action[b].target = t
  /\ authorization[b].version = version[t]

LEMMA GrantedByAction ==
  ASSUME NEW t, NEW type
  PROVE  type \in GrantedTypes(t) <=>
           \E b \in ActionIds : Grants(t, b) /\ action[b].type = type
BY DEF GrantedTypes, Grants

LEMMA GrantedByActionNext ==
  ASSUME NEW t, NEW type
  PROVE  type \in GrantedTypes(t)' <=>
           \E b \in ActionIds : Grants(t, b)' /\ action'[b].type = type
BY DEF GrantedTypes, Grants

(* Progress of a row withdraws no grant, and gives none.                   *)
LEMMA GrantsKept ==
  ASSUME NEW t, NEW b \in ActionIds, Progress(action[b], action'[b]),
         authorization'[b] = authorization[b], version'[t] = version[t]
  PROVE  /\ Grants(t, b)' <=> Grants(t, b)
         /\ Grants(t, b) => action'[b].type = action[b].type
BY DEF Progress, Row, Statuses, Grants, Requested, IsRecovery

LEMMA GrantedKept ==
  ASSUME NEW t, version'[t] = version[t], UNCHANGED authorization,
         \A b \in ActionIds : Progress(action[b], action'[b])
  PROVE  GrantedTypes(t)' = GrantedTypes(t)
<1>1. \A b \in ActionIds : /\ Grants(t, b)' <=> Grants(t, b)
                           /\ Grants(t, b) => action'[b].type = action[b].type
  BY GrantsKept
<1>2. \A type : type \in GrantedTypes(t)' <=> type \in GrantedTypes(t)
  BY <1>1, GrantedByAction, GrantedByActionNext
<1>. QED
  BY <1>2 DEF GrantedTypes

(* What changes neither a posture nor a version nor an authorization is a  *)
(* stuttering step of the abstract specification.                          *)
LEMMA QuietStutters ==
  ASSUME UNCHANGED <<posture, version, authorization>>,
         \A b \in ActionIds : Progress(action[b], action'[b])
  PROVE  UNCHANGED Abstract!vars
<1>1. \A t \in Targets : GrantedTypes(t)' = GrantedTypes(t)
  BY GrantedKept
<1>. QED
  BY <1>1 DEF Abstract!vars

(* A success takes effect: it protects, or recovers under a grant.         *)
LEMMA SuccessTakesEffect ==
  ASSUME ClaimInv, NEW w \in Workers, MarkSucceeded(w)
  PROVE  Abstract!Next
<1>. DEFINE a == worker[w].action
            t == TargetOf(w)
            type == TypeOf(w)
<1>1. /\ a \in ActionIds /\ action[a] \in Row
      /\ action[a].status = "executing"
      /\ t \in Targets /\ type \in ActionTypes
      /\ version[t] \in Nat \ {0}
      /\ type \in RecoveryTypes => authorization[a].version = version[t]
      /\ TransitionDefined(posture[t], type)
      /\ posture' = [posture EXCEPT ![t] = TransitionState(posture[t], type)]
      /\ version' = [version EXCEPT ![t] = version[t] + 1]
  BY Succeeding
<1>2. \A b \in ActionIds : Progress(action[b], action'[b])
  BY MarkProgress DEF ClaimInv
<1>3. UNCHANGED authorization
  BY DEF MarkSucceeded
<1>4. /\ version'[t] = version[t] + 1
      /\ \A u \in Targets \ {t} : version'[u] = version[u]
  BY <1>1 DEF ClaimInv, TypeOK, VariablesTyped
<1>5. ASSUME NEW u \in Targets
      PROVE  GrantedTypes(u)' = IF u = t THEN {} ELSE GrantedTypes(u)
  <2>1. CASE u # t
    BY <1>2, <1>3, <1>4, <2>1, GrantedKept
  <2>2. CASE u = t
    <3>1. ASSUME NEW b \in ActionIds, Grants(u, b)'
          PROVE  FALSE
      <4>1. /\ Requested(b) /\ IsRecovery(action[b])
            /\ action[b].target = u
        BY <1>2, <3>1
           DEF Grants, Progress, Row, Statuses, Requested, IsRecovery
      <4>2. authorization[b].version \in 1..version[u]
        BY <4>1 DEF ClaimInv, RequestedInv
      <4>. QED
        BY <1>1, <1>3, <1>4, <2>2, <3>1, <4>2 DEF Grants
    <3>2. \A x : x \notin GrantedTypes(u)'
      BY <3>1, GrantedByActionNext
    <3>. QED
      BY <2>2, <3>2
  <2>. QED
    BY <2>1, <2>2
<1>6. [u \in Targets |-> GrantedTypes(u)]' =
        [[u \in Targets |-> GrantedTypes(u)] EXCEPT ![t] = {}]
  BY <1>1, <1>5
<1>7. {u \in Targets : version[u] > 0}' = {u \in Targets : version[u] > 0}
  BY <1>1, <1>4
<1>8. posture' = [posture EXCEPT ![t] =
                    Abstract!TransitionState(posture[t], type)]
  BY <1>1, SameTransition
<1>9. Abstract!DefinedState(posture[t]) /\ t \in {u \in Targets : version[u] > 0}
  BY <1>1, SameMachine DEF TransitionDefined
<1>10. CASE type \in ProtectiveTypes
  <2>1. Abstract!Protect(t, type)
    BY <1>6, <1>7, <1>8, <1>9 DEF Abstract!Protect
  <2>. QED
    BY <1>1, <1>10, <2>1, SameMachine DEF Abstract!Next
<1>11. CASE type \in RecoveryTypes
  <2>1. type \in GrantedTypes(t)
    <3>1. Grants(t, a)
      BY <1>1, <1>11 DEF Grants, Requested, IsRecovery, TargetOf, TypeOf
    <3>. QED
      BY <1>1, <3>1, GrantedByAction DEF TypeOf
  <2>2. Abstract!Recover(t, type)
    BY <1>1, <1>6, <1>7, <1>8, <1>9, <2>1 DEF Abstract!Recover
  <2>. QED
    BY <1>1, <1>11, <2>2, SameMachine DEF Abstract!Next
<1>. QED
  BY <1>1, <1>10, <1>11 DEF ActionTypes

(* A request for a target without a row tracks it; an authorized recovery  *)
(* is a grant; any other request changes nothing that is promised.         *)
LEMMA RequestTracksOrGrants ==
  ASSUME ClaimInv, NEW a \in ActionIds, NEW t \in Targets,
         NEW type \in ActionTypes, Asked(a, t, type), TypeOK'
  PROVE  Abstract!Next \/ UNCHANGED Abstract!vars
<1>1. ~Requested(a) /\ Requested(a)' /\ version[t] \in Nat
  BY DEF Asked, Requested, ClaimInv, TypeOK, VariablesTyped
<1>2. \A b \in ActionIds \ {a} : /\ action'[b] = action[b]
                                 /\ authorization'[b] = authorization[b]
  BY DEF Asked
<1>3. action'[a].type = type /\ action'[a].target = t
  BY DEF Asked
<1>4. \A u, b : Grants(u, b) => b # a
  BY <1>1 DEF Grants
<1>5. ASSUME NEW u \in Targets, version'[u] = version[u],
             u # t \/ type \notin RecoveryTypes
      PROVE  GrantedTypes(u)' = GrantedTypes(u)
  <2>1. ~Grants(u, a)'
    BY <1>3, <1>5 DEF Grants, IsRecovery
  <2>2. \A b \in ActionIds \ {a} : /\ Grants(u, b)' <=> Grants(u, b)
                                   /\ action'[b].type = action[b].type
    BY <1>2, <1>5 DEF Grants, Requested, IsRecovery
  <2>3. \A x : x \in GrantedTypes(u)' <=> x \in GrantedTypes(u)
    BY <1>4, <2>1, <2>2, GrantedByAction, GrantedByActionNext
  <2>. QED
    BY <2>3 DEF GrantedTypes
<1>6. CASE version[t] = 0
  <2>1. /\ version' = [version EXCEPT ![t] = 1]
        /\ posture' = [posture EXCEPT ![t].targetCertificate = inventory[t]]
        /\ type \notin RecoveryTypes
    BY <1>6 DEF Asked, TrackTarget
  <2>2. /\ version'[t] = 1
        /\ \A u \in Targets \ {t} : version'[u] = version[u]
    BY <2>1 DEF ClaimInv, TypeOK, VariablesTyped
  <2>3. \A x : x \notin GrantedTypes(t)
    <3>1. \A b \in ActionIds : ~Grants(t, b)
      BY <1>6 DEF Grants, ClaimInv, RequestedInv
    <3>. QED
      BY <3>1, GrantedByAction
  <2>4. \A x : x \notin GrantedTypes(t)'
    <3>1. \A b \in ActionIds : ~Grants(t, b)'
      <4>. SUFFICES ASSUME NEW b \in ActionIds, Grants(t, b)'
                    PROVE  FALSE
        OBVIOUS
      <4>1. b # a
        BY <1>3, <2>1 DEF Grants, IsRecovery
      <4>2. Requested(b) /\ action[b].target = t
        BY <1>2, <4>1 DEF Grants, Requested
      <4>. QED
        BY <1>6, <4>2 DEF ClaimInv, RequestedInv
    <3>. QED
      BY <3>1, GrantedByActionNext
  <2>5. \A u \in Targets : GrantedTypes(u)' = GrantedTypes(u)
    <3>1. GrantedTypes(t)' = GrantedTypes(t)
      BY <2>3, <2>4 DEF GrantedTypes
    <3>2. \A u \in Targets \ {t} : GrantedTypes(u)' = GrantedTypes(u)
      BY <1>5, <2>2
    <3>. QED
      BY <3>1, <3>2
  <2>6. {u \in Targets : version[u] > 0}' =
          {u \in Targets : version[u] > 0} \cup {t}
    BY <2>2
  <2>7. inventory[t] \in Abstract!CertificateStates
    BY SameMachine DEF ClaimInv, TypeOK, VariablesTyped
  <2>8. t \notin {u \in Targets : version[u] > 0}
    BY <1>6
  <2>9. Abstract!Track(t)
    BY <2>1, <2>5, <2>6, <2>7, <2>8 DEF Abstract!Track
  <2>. QED
    BY <2>9 DEF Abstract!Next
<1>7. CASE version[t] # 0
  <2>1. UNCHANGED <<version, posture>>
    BY <1>7 DEF Asked, TrackTarget
  <2>2. CASE type \notin RecoveryTypes
    <3>1. \A u \in Targets : GrantedTypes(u)' = GrantedTypes(u)
      BY <1>5, <2>1, <2>2
    <3>. QED
      BY <2>1, <3>1 DEF Abstract!vars
  <2>3. CASE type \in RecoveryTypes
    <3>1. /\ RecoveryConditionsMet(posture[t], type)
          /\ authorization'[a].version = version[t]
      BY <2>3 DEF Asked
    <3>2. GrantedTypes(t)' = GrantedTypes(t) \cup {type}
      <4>1. Grants(t, a)'
        BY <1>1, <1>3, <2>1, <2>3, <3>1 DEF Grants, IsRecovery
      <4>2. \A b \in ActionIds \ {a} : /\ Grants(t, b)' <=> Grants(t, b)
                                       /\ action'[b].type = action[b].type
        BY <1>2, <2>1 DEF Grants, Requested, IsRecovery
      <4>3. \A x : x \in GrantedTypes(t)' <=> x \in GrantedTypes(t) \/ x = type
        BY <1>3, <1>4, <4>1, <4>2, GrantedByAction, GrantedByActionNext
      <4>. QED
        BY <4>3
    <3>3. \A u \in Targets \ {t} : GrantedTypes(u)' = GrantedTypes(u)
      BY <1>5, <2>1
    <3>4. [u \in Targets |-> GrantedTypes(u)]' =
            [[u \in Targets |-> GrantedTypes(u)] EXCEPT ![t] = @ \cup {type}]
      BY <3>2, <3>3
    <3>5. {u \in Targets : version[u] > 0}' = {u \in Targets : version[u] > 0}
      BY <2>1
    <3>6. t \in {u \in Targets : version[u] > 0}
      BY <1>1, <1>7
    <3>7. Abstract!Grant(t, type)
      BY <2>1, <3>1, <3>4, <3>5, <3>6, SameMachine DEF Abstract!Grant
    <3>. QED
      BY <2>3, <3>7, SameMachine DEF Abstract!Next
  <2>. QED
    BY <2>2, <2>3
<1>. QED
  BY <1>6, <1>7

(* Whatever is requested, claimed, lost, reclaimed and reported late, a    *)
(* posture changes only by a transition taken from the posture the target  *)
(* has, and a recovery only under an authorization of exactly that version *)
(* (authorize_security_recovery, claim_security_action and                 *)
(* mark_security_action_succeeded), also when claims interleave.           *)
THEOREM PostureImplemented == Spec => ImplementsPosture
<1>1. Init => Abstract!Init
  <2>. SUFFICES ASSUME Init
                PROVE  Abstract!Init
    OBVIOUS
  <2>1. \A a \in ActionIds : ~Requested(a)
    BY DEF Init, Requested, NoRow
  <2>2. \A t, x : x \notin GrantedTypes(t)
    BY <2>1, GrantedByAction DEF Grants
  <2>3. \A t \in Targets : GrantedTypes(t) = {}
    BY <2>2
  <2>4. {t \in Targets : version[t] > 0} = {}
    BY DEF Init
  <2>. QED
    BY <2>3, <2>4, SameMachine DEF Init, Abstract!Init
<1>2. ClaimInv /\ ClaimInv' /\ [Next]_vars => [Abstract!Next]_(Abstract!vars)
  <2>. SUFFICES ASSUME ClaimInv, TypeOK', [Next]_vars
                PROVE  Abstract!Next \/ UNCHANGED Abstract!vars
    BY DEF ClaimInv
  <2>1. ASSUME NEW a \in ActionIds, NEW t \in Targets,
               NEW type \in ActionTypes, Asked(a, t, type)
        PROVE  Abstract!Next \/ UNCHANGED Abstract!vars
    BY <2>1, RequestTracksOrGrants
  <2>2. ASSUME NEW w \in Workers, MarkSucceeded(w)
        PROVE  Abstract!Next
    BY <2>2, SuccessTakesEffect
  <2>3. CASE Quiet \/ \E w \in Workers, a \in ActionIds : Taken(w, a)
    BY <2>3, QuietStutters DEF Quiet, Taken
  <2>. QED
    BY <2>1, <2>2, <2>3, StepKinds DEF ClaimInv
<1>. QED
  BY <1>1, <1>2, ClaimsCurrent, PTL DEF Spec, ImplementsPosture, Abstract!Spec
=============================================================================
