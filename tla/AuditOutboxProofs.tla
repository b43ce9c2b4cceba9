-------------------------- MODULE AuditOutboxProofs --------------------------
(***************************************************************************)
(* Proofs about AuditOutbox, for every set of events, commitments and      *)
(* workers, every clock offset and every bound; and about ActionAnchoring, *)
(* for every set of actions, types and projectors and every bound.         *)
(***************************************************************************)
EXTENDS AuditOutbox, ActionAnchoring, SequenceTheorems, FiniteSetTheorems, TLAPS

----------------------------------------------------------------------------
(* The inductive invariant *)

(* No clock shows a time before zero.                                      *)
ClocksStarted == now - MaxOffset \in Nat

(* A worker holds only events that were enqueued.                          *)
HeldEnqueued ==
  \A w \in Workers :
    worker[w].phase \in HoldingPhases =>
      worker[w] \in Claim /\ row[worker[w].event] \in Row

TypeInv == TypeOK /\ ClocksStarted /\ HeldEnqueued

(* Transaction i commits what the row of event e asks for.                 *)
Commits(i, e) ==
  /\ i \in 1..Len(txs)
  /\ txs[i].event = e
  /\ txs[i].value = row[e].value

(* A row that waits for an outcome names a transaction of its own.         *)
AwaitedCommits ==
  \A e \in Events :
    row[e].status \in {"submitted", "confirming"} => Commits(row[e].tx, e)

(* So does a worker; one that knows the outcome has not made it up.        *)
HeldCommits ==
  \A w \in Workers :
    /\ worker[w].phase \in {"accepted", "confirming", "resolved"} =>
         Commits(worker[w].tx, worker[w].event)
    /\ worker[w].phase = "resolved" => Outcome(w) # "ordered"

(* The ledger holds what each valid transaction wrote or found there, and  *)
(* what each endorser that answered "duplicate" had found.                 *)
LedgerAgrees ==
  \A i \in 1..Len(txs) :
    txs[i].outcome = "valid" \/ txs[i].status = "duplicate" =>
      ledger[txs[i].event] = txs[i].value

FabricInv == LedgerAgrees /\ AnchoredOnce

RowsInv == AwaitedCommits /\ HeldCommits /\ CommittedIsAnchored

AttemptsInv == OutcomeNeverInvented /\ OpenAttemptIsCurrent

OutboxInv == TypeInv /\ FabricInv /\ RowsInv /\ AttemptsInv

----------------------------------------------------------------------------
(* What a step may do to the rows and to Fabric *)

(* No row disappears, and none changes its commitment.                     *)
RowsKept ==
  /\ row' \in [Events -> Row \cup {NoRow}]
  /\ \A e \in Events :
       row[e] \in Row => row'[e] \in Row /\ row'[e].value = row[e].value

(* Row r becomes s, which awaits or records the same outcome, if any.      *)
SameOutcome(r, s) ==
  /\ s.status \in {"submitted", "confirming"} <=>
       r.status \in {"submitted", "confirming"}
  /\ s.status = "committed" <=> r.status = "committed"
  /\ s.status \in {"submitted", "confirming", "committed"} =>
       s.tx = r.tx /\ s.attempts = r.attempts /\ s.value = r.value

OutcomesKept == \A e \in Events : SameOutcome(row[e], row'[e])

(* Transactions are added and decided; what was decided and what the       *)
(* ledger holds stays.                                                     *)
FabricGrows ==
  /\ Len(txs') \in Nat /\ Len(txs) <= Len(txs')
  /\ \A i \in 1..Len(txs) :
       /\ txs'[i].event = txs[i].event /\ txs'[i].value = txs[i].value
       /\ txs'[i].status = txs[i].status
       /\ txs[i].outcome # "ordered" => txs'[i].outcome = txs[i].outcome
  /\ \A e \in Events : ledger[e] # NoValue => ledger'[e] = ledger[e]

(* What a worker knows of its transaction stands in the next state.        *)
WorkerCommits(c) ==
  c.phase \in {"accepted", "confirming", "resolved"} =>
    /\ c.tx \in 1..Len(txs')
    /\ txs'[c.tx].event = c.event
    /\ txs'[c.tx].value = row'[c.event].value
    /\ c.phase = "resolved" => txs'[c.tx].outcome # "ordered"

----------------------------------------------------------------------------
(* Types *)

LEMMA PhaseOfIdle ==
  /\ Idle.phase \notin HoldingPhases /\ Continue.phase \notin HoldingPhases
  /\ Idle.phase = "idle" /\ Continue.phase = "next"
BY DEF Idle, Continue, HoldingPhases

LEMMA NoRowIsNone ==
  /\ NoRow \notin Row
  /\ NoRow.status = "none"
<1>1. NoRow.status = "none"
  BY DEF NoRow
<1>2. \A r \in Row : r.status # "none"
  BY DEF Row, Statuses
<1>. QED
  BY <1>1, <1>2

(* A row with a status was enqueued.                                       *)
LEMMA RowOfEvent ==
  ASSUME TypeOK, NEW e \in Events
  PROVE  /\ row[e] \in Row \cup {NoRow}
         /\ row[e].status # "none" => row[e] \in Row
BY NoRowIsNone DEF TypeOK

(* A worker that holds an event holds the row of an event.                 *)
LEMMA HeldType ==
  ASSUME TypeInv, NEW w \in Workers, worker[w].phase \in HoldingPhases
  PROVE  /\ worker[w] \in Claim /\ worker[w].event \in Events
         /\ worker[w].token \in Nat /\ worker[w].tx \in Nat
         /\ row[worker[w].event] \in Row /\ RowOf(w) = row[worker[w].event]
         /\ RowOf(w).value \in Values
BY DEF TypeInv, HeldEnqueued, Claim, RowOf, Row

LEMMA ClockType ==
  ASSUME TypeInv, NEW w \in Workers
  PROVE  Clock(w) \in Nat
<1>1. offset[w] \in (-MaxOffset)..MaxOffset /\ MaxOffset \in Nat /\ now \in Nat
  BY BoundsAssumption DEF TypeInv, TypeOK
<1>. QED
  BY <1>1 DEF Clock, TypeInv, ClocksStarted

LEMMA RetryDelayType ==
  ASSUME NEW n
  PROVE  RetryDelay(n) \in Nat
<1>. DEFINE delay == InitialRetryDelay * 2 ^ (n - 1)
<1>1. MaxRetryDelay \in Nat
  BY TimesAssumption
<1>. HIDE DEF delay
<1>2. (IF delay \in 1..MaxRetryDelay THEN delay ELSE MaxRetryDelay) \in Nat
  BY <1>1
<1>. QED
  BY <1>2 DEF RetryDelay, delay

LEMMA FaultType == TypeOK /\ (Fault \/ UNCHANGED faults) => faults' \in Nat
BY DEF TypeOK, Fault

LEMMA TransactionType ==
  ASSUME TypeOK
  PROVE  /\ Len(txs) \in Nat
         /\ \A i \in 1..Len(txs) :
              /\ txs[i] \in Transaction
              /\ txs[i].event \in Events /\ txs[i].value \in Values
              /\ txs[i].status \in {"created", "duplicate"}
              /\ txs[i].outcome \in {"ordered", "valid", "invalid"}
<1>1. \A i \in 1..Len(txs) : txs[i] \in Transaction
  BY DEF TypeOK
<1>. QED
  BY <1>1, LenProperties DEF TypeOK, Transaction

(* One row is written.                                                     *)
LEMMA RowUpdate ==
  ASSUME TypeOK, NEW e \in Events, NEW r \in Row,
         row[e] \in Row => r.value = row[e].value,
         row' = [row EXCEPT ![e] = r]
  PROVE  RowsKept
BY DEF TypeOK, RowsKept

LEMMA RowsUnchanged ==
  ASSUME TypeOK, row' = row
  PROVE  RowsKept /\ OutcomesKept
BY DEF TypeOK, RowsKept, OutcomesKept, SameOutcome

(* One worker moves on, or none.                                           *)
LEMMA WorkerUpdate ==
  ASSUME TypeInv, RowsKept, NEW w \in Workers,
         NEW c \in {Idle, Continue} \cup Claim, Become(w, c),
         c \in Claim => row'[c.event] \in Row
  PROVE  /\ worker' \in [Workers -> {Idle, Continue} \cup Claim]
         /\ HeldEnqueued'
<1>1. worker' \in [Workers -> {Idle, Continue} \cup Claim]
  BY DEF Become, TypeInv, TypeOK
<1>2. ASSUME NEW u \in Workers, worker'[u].phase \in HoldingPhases
      PROVE  worker'[u] \in Claim /\ row'[worker'[u].event] \in Row
  <2>1. CASE u = w
    BY <1>2, <2>1, PhaseOfIdle DEF Become, TypeInv, TypeOK
  <2>2. CASE u # w
    <3>1. worker'[u] = worker[u]
      BY <2>2 DEF Become, TypeInv, TypeOK
    <3>. QED
      BY <1>2, <3>1 DEF RowsKept, TypeInv, HeldEnqueued, Claim
  <2>. QED
    BY <2>1, <2>2
<1>. QED
  BY <1>1, <1>2 DEF HeldEnqueued

LEMMA WorkersUnchanged ==
  ASSUME TypeInv, RowsKept, worker' = worker
  PROVE  /\ worker' \in [Workers -> {Idle, Continue} \cup Claim]
         /\ HeldEnqueued'
BY DEF RowsKept, TypeInv, TypeOK, HeldEnqueued, Claim

(* A worker that holds its event enters another phase of its round.        *)
LEMMA PhaseUpdate ==
  ASSUME TypeInv, RowsKept, NEW w \in Workers, worker[w].phase \in HoldingPhases,
         NEW phase \in HoldingPhases, Step(w, phase)
  PROVE  /\ worker' \in [Workers -> {Idle, Continue} \cup Claim]
         /\ HeldEnqueued'
         /\ \E c \in Claim : /\ Become(w, c) /\ c.phase = phase
                             /\ c.event = worker[w].event /\ c.tx = worker[w].tx
<1>. DEFINE c == [worker[w] EXCEPT !.phase = phase]
<1>1. c \in Claim /\ c.event = worker[w].event /\ c.phase = phase /\ c.tx = worker[w].tx
  BY HeldType DEF Claim
<1>2. Become(w, c)
  BY DEF Step, Become
<1>3. row'[c.event] \in Row
  BY <1>1, HeldType DEF RowsKept
<1>. HIDE DEF c
<1>. QED
  BY <1>1, <1>2, <1>3, WorkerUpdate

(* The rest of the types of a step.                                        *)
LEMMA StepType ==
  ASSUME TypeInv, RowsKept,
         now' = now \/ now' = now + 1, UNCHANGED offset,
         Fault \/ UNCHANGED faults,
         attempts' \subseteq Attempt,
         txs' \in Seq(Transaction), ledger' \in [Events -> Values \cup {NoValue}],
         worker' \in [Workers -> {Idle, Continue} \cup Claim], HeldEnqueued'
  PROVE  TypeInv'
<1>1. now' \in Nat /\ now' - MaxOffset \in Nat
  BY BoundsAssumption DEF TypeInv, TypeOK, ClocksStarted
<1>2. faults' \in Nat
  BY FaultType DEF TypeInv
<1>3. offset' \in [Workers -> (-MaxOffset)..MaxOffset]
  BY DEF TypeInv, TypeOK
<1>. QED
  BY <1>1, <1>2, <1>3 DEF RowsKept, TypeInv, TypeOK, ClocksStarted

LEMMA InitType == Init => TypeInv
<1>. SUFFICES ASSUME Init PROVE TypeInv
  OBVIOUS
<1>1. now \in Nat /\ now - MaxOffset \in Nat
  BY BoundsAssumption DEF Init
<1>2. txs \in Seq(Transaction)
  BY EmptySeq DEF Init
<1>3. HeldEnqueued
  BY PhaseOfIdle DEF Init, HeldEnqueued
<1>. QED
  BY <1>1, <1>2, <1>3 DEF Init, TypeInv, TypeOK, ClocksStarted

----------------------------------------------------------------------------
(* Fabric *)

(* Ordering appends one transaction, on which nothing is decided yet.      *)
LEMMA OrderEffect ==
  ASSUME TypeOK, NEW e \in Events, NEW v \in Values, Order(e, v)
  PROVE  /\ txs' \in Seq(Transaction) /\ ledger' = ledger
         /\ Len(txs') = Len(txs) + 1 /\ FabricGrows
         /\ \A i \in 1..Len(txs) : txs'[i] = txs[i]
         /\ LET t == txs'[Len(txs) + 1]
            IN  /\ t.event = e /\ t.value = v /\ t.outcome = "ordered"
                /\ t.status \in {"created", "duplicate"}
                /\ t.status = "duplicate" => ledger[e] = v
<1>. DEFINE t == [event |-> e, value |-> v,
                  status |-> Endorse(e, v), outcome |-> "ordered"]
<1>1. /\ Endorse(e, v) \in {"created", "duplicate"}
      /\ Endorse(e, v) = "duplicate" => ledger[e] = v
  BY DEF Order, Endorse
<1>2. /\ t \in Transaction /\ t.event = e /\ t.value = v /\ t.outcome = "ordered"
      /\ t.status = Endorse(e, v)
  BY <1>1 DEF Transaction
<1>3. txs \in Seq(Transaction) /\ txs' = Append(txs, t) /\ ledger' = ledger
  BY DEF Order, TypeOK
<1>. HIDE DEF t
<1>4. /\ txs' \in Seq(Transaction)
      /\ Len(txs') = Len(txs) + 1
      /\ txs'[Len(txs) + 1] = t
      /\ \A i \in 1..Len(txs) : txs'[i] = txs[i]
  BY <1>2, <1>3, AppendProperties
<1>5. FabricGrows
  BY <1>3, <1>4, TransactionType DEF FabricGrows
<1>. QED
  BY <1>1, <1>2, <1>3, <1>4, <1>5

(* A decision settles one ordered transaction; a valid one finds the key   *)
(* it writes unused.                                                       *)
LEMMA DecideEffect ==
  ASSUME TypeOK, NEW i \in 1..Len(txs), Decide(i)
  PROVE  \E outcome \in {"valid", "invalid"} :
           /\ txs[i].outcome = "ordered"
           /\ txs' \in Seq(Transaction) /\ Len(txs') = Len(txs)
           /\ \A j \in 1..Len(txs) :
                /\ j # i => txs'[j] = txs[j]
                /\ txs'[j].event = txs[j].event /\ txs'[j].value = txs[j].value
                /\ txs'[j].status = txs[j].status
           /\ txs'[i].outcome = outcome
           /\ outcome = "valid" /\ txs[i].status = "created" =>
                /\ ledger[txs[i].event] = NoValue
                /\ ledger' = [ledger EXCEPT ![txs[i].event] = txs[i].value]
           /\ ~(outcome = "valid" /\ txs[i].status = "created") => ledger' = ledger
<1>1. PICK outcome \in {"valid", "invalid"} :
           /\ txs[i].outcome = "ordered"
           /\ txs' = [txs EXCEPT ![i].outcome = outcome]
           /\ outcome = "valid" /\ txs[i].status = "created" =>
                /\ ledger[txs[i].event] = NoValue
                /\ ledger' = [ledger EXCEPT ![txs[i].event] = txs[i].value]
           /\ ~(outcome = "valid" /\ txs[i].status = "created") => ledger' = ledger
  BY DEF Decide, Serializable
<1>2. txs \in Seq(Transaction) /\ txs[i] \in Transaction
  BY TransactionType DEF TypeOK
<1>. DEFINE t == [txs[i] EXCEPT !.outcome = outcome]
<1>3. /\ t \in Transaction /\ t.event = txs[i].event /\ t.value = txs[i].value
      /\ t.status = txs[i].status /\ t.outcome = outcome
  BY <1>2 DEF Transaction
<1>4. txs' = [txs EXCEPT ![i] = t]
  BY <1>1
<1>. HIDE DEF t
<1>5. /\ txs' \in Seq(Transaction) /\ Len(txs') = Len(txs)
      /\ txs'[i] = t /\ \A j \in 1..Len(txs) : j # i => txs'[j] = txs[j]
  BY <1>2, <1>3, <1>4, ExceptSeq
<1>. QED
  BY <1>1, <1>3, <1>5

LEMMA DecideGrows ==
  ASSUME TypeOK, NEW i \in 1..Len(txs), Decide(i)
  PROVE  /\ FabricGrows /\ txs' \in Seq(Transaction)
         /\ ledger' \in [Events -> Values \cup {NoValue}]
<1>1. txs[i].event \in Events /\ txs[i].value \in Values
  BY TransactionType
<1>. QED
  BY <1>1, DecideEffect, TransactionType DEF FabricGrows, TypeOK

LEMMA DecideFabric ==
  ASSUME TypeOK, FabricInv, NEW i \in 1..Len(txs), Decide(i)
  PROVE  FabricInv'
<1>1. PICK outcome \in {"valid", "invalid"} :
           /\ txs[i].outcome = "ordered"
           /\ txs' \in Seq(Transaction) /\ Len(txs') = Len(txs)
           /\ \A j \in 1..Len(txs) :
                /\ j # i => txs'[j] = txs[j]
                /\ txs'[j].event = txs[j].event /\ txs'[j].value = txs[j].value
                /\ txs'[j].status = txs[j].status
           /\ txs'[i].outcome = outcome
           /\ outcome = "valid" /\ txs[i].status = "created" =>
                /\ ledger[txs[i].event] = NoValue
                /\ ledger' = [ledger EXCEPT ![txs[i].event] = txs[i].value]
           /\ ~(outcome = "valid" /\ txs[i].status = "created") => ledger' = ledger
  BY DecideEffect
<1>2. LedgerAgrees'
  <2>. SUFFICES ASSUME NEW j \in 1..Len(txs),
                       txs'[j].outcome = "valid" \/ txs[j].status = "duplicate"
                PROVE  ledger'[txs[j].event] = txs[j].value
    BY <1>1 DEF LedgerAgrees
  <2>. txs[j].event \in Events /\ txs[j].value \in Values /\ txs[j].status \in {"created", "duplicate"}
    BY TransactionType
  <2>1. CASE txs[j].outcome = "valid" \/ txs[j].status = "duplicate"
    <3>1. ledger[txs[j].event] = txs[j].value
      BY <2>1 DEF FabricInv, LedgerAgrees
    <3>2. ledger[txs[j].event] # NoValue
      BY <3>1, NoValueAssumption
    <3>. QED
      BY <3>1, <3>2, DecideGrows DEF FabricGrows
  <2>2. CASE j = i /\ outcome = "valid" /\ txs[j].status = "created"
    BY <1>1, <2>2 DEF TypeOK
  <2>. QED
    BY <1>1, <2>1, <2>2
<1>3. AnchoredOnce'
  <2>. SUFFICES ASSUME NEW j \in 1..Len(txs), NEW k \in 1..Len(txs), j # k,
                       txs'[j].outcome = "valid", txs[j].status = "created",
                       txs'[k].outcome = "valid", txs[k].status = "created",
                       txs[j].event = txs[k].event
                PROVE  FALSE
    BY <1>1 DEF AnchoredOnce
  <2>1. \A m \in 1..Len(txs) : txs[m].outcome = "valid" => ledger[txs[m].event] # NoValue
    BY TransactionType, NoValueAssumption DEF FabricInv, LedgerAgrees
  <2>2. CASE j = i
    BY <1>1, <2>1, <2>2
  <2>3. CASE k = i
    BY <1>1, <2>1, <2>3
  <2>4. CASE j # i /\ k # i
    BY <1>1, <2>4 DEF FabricInv, AnchoredOnce
  <2>. QED
    BY <2>2, <2>3, <2>4
<1>. QED
  BY <1>2, <1>3 DEF FabricInv

LEMMA OrderFabric ==
  ASSUME TypeOK, FabricInv, NEW e \in Events, NEW v \in Values, Order(e, v)
  PROVE  FabricInv'
<1>. DEFINE n == Len(txs) + 1
<1>1. /\ Len(txs') = n /\ ledger' = ledger
      /\ \A i \in 1..n : i \in 1..Len(txs) \/ i = n
      /\ \A i \in 1..Len(txs) : txs'[i] = txs[i]
      /\ txs'[n].event = e /\ txs'[n].value = v /\ txs'[n].outcome = "ordered"
      /\ txs'[n].status = "duplicate" => ledger[e] = v
  BY OrderEffect, TransactionType
<1>. HIDE DEF n
<1>2. LedgerAgrees'
  BY <1>1 DEF FabricInv, LedgerAgrees
<1>3. AnchoredOnce'
  BY <1>1 DEF FabricInv, AnchoredOnce
<1>. QED
  BY <1>2, <1>3 DEF FabricInv

(* What a step does to Fabric: nothing, an order or a decision.            *)
FabricStep ==
  \/ UNCHANGED fabric
  \/ \E e \in Events, v \in Values : Order(e, v)
  \/ \E i \in 1..Len(txs) : Decide(i)

LEMMA FabricStepEffect ==
  ASSUME TypeOK, FabricInv, FabricStep
  PROVE  /\ FabricGrows /\ FabricInv'
         /\ txs' \in Seq(Transaction) /\ ledger' \in [Events -> Values \cup {NoValue}]
<1>1. CASE UNCHANGED fabric
  BY <1>1, TransactionType
     DEF fabric, FabricGrows, TypeOK, FabricInv, LedgerAgrees, AnchoredOnce
<1>2. CASE \E e \in Events, v \in Values : Order(e, v)
  BY <1>2, OrderEffect, OrderFabric DEF TypeOK
<1>3. CASE \E i \in 1..Len(txs) : Decide(i)
  BY <1>3, DecideGrows, DecideFabric
<1>. QED
  BY <1>1, <1>2, <1>3 DEF FabricStep

----------------------------------------------------------------------------
(* Preservation: what the other actors rely on stands when outcomes are    *)
(* kept and Fabric only grows                                              *)

LEMMA HeldCommitsStep ==
  ASSUME OutboxInv, RowsKept, FabricGrows, NEW w \in Workers,
         NEW c, Become(w, c), WorkerCommits(c)
  PROVE  HeldCommits'
<1>. SUFFICES ASSUME NEW u \in Workers,
                     worker'[u].phase \in {"accepted", "confirming", "resolved"}
              PROVE  /\ worker'[u].tx \in 1..Len(txs')
                     /\ txs'[worker'[u].tx].event = worker'[u].event
                     /\ txs'[worker'[u].tx].value = row'[worker'[u].event].value
                     /\ worker'[u].phase = "resolved" =>
                          txs'[worker'[u].tx].outcome # "ordered"
  BY DEF HeldCommits, Commits, Outcome
<1>1. CASE u = w
  BY <1>1 DEF Become, WorkerCommits, OutboxInv, TypeInv, TypeOK
<1>2. CASE u # w
  <2>1. worker'[u] = worker[u]
    BY <1>2 DEF Become, OutboxInv, TypeInv, TypeOK
  <2>2. worker[u].event \in Events /\ row[worker[u].event] \in Row
    BY <2>1, HeldType DEF HoldingPhases, OutboxInv
  <2>3. /\ worker[u].tx \in 1..Len(txs)
        /\ txs[worker[u].tx].event = worker[u].event
        /\ txs[worker[u].tx].value = row[worker[u].event].value
        /\ worker[u].phase = "resolved" => txs[worker[u].tx].outcome # "ordered"
    BY <2>1 DEF OutboxInv, RowsInv, HeldCommits, Commits, Outcome
  <2>4. worker[u].tx \in 1..Len(txs')
    BY <2>3, TransactionType DEF FabricGrows, OutboxInv, TypeInv
  <2>. QED
    BY <2>1, <2>2, <2>3, <2>4 DEF RowsKept, FabricGrows
<1>. QED
  BY <1>1, <1>2

LEMMA HeldCommitsUnchanged ==
  ASSUME OutboxInv, RowsKept, FabricGrows, NEW w \in Workers, worker' = worker
  PROVE  HeldCommits'
<1>1. Become(w, worker[w])
  BY DEF Become, OutboxInv, TypeInv, TypeOK
<1>2. WorkerCommits(worker[w])
  <2>. SUFFICES ASSUME worker[w].phase \in {"accepted", "confirming", "resolved"}
                PROVE  /\ worker[w].tx \in 1..Len(txs')
                       /\ txs'[worker[w].tx].event = worker[w].event
                       /\ txs'[worker[w].tx].value = row'[worker[w].event].value
                       /\ worker[w].phase = "resolved" =>
                            txs'[worker[w].tx].outcome # "ordered"
    BY DEF WorkerCommits
  <2>1. worker[w].event \in Events /\ row[worker[w].event] \in Row
    BY HeldType DEF HoldingPhases, OutboxInv
  <2>2. /\ worker[w].tx \in 1..Len(txs)
        /\ txs[worker[w].tx].event = worker[w].event
        /\ txs[worker[w].tx].value = row[worker[w].event].value
        /\ worker[w].phase = "resolved" => txs[worker[w].tx].outcome # "ordered"
    BY DEF OutboxInv, RowsInv, HeldCommits, Commits, Outcome
  <2>3. worker[w].tx \in 1..Len(txs')
    BY <2>2, TransactionType DEF FabricGrows, OutboxInv, TypeInv
  <2>. QED
    BY <2>1, <2>2, <2>3 DEF RowsKept, FabricGrows
<1>. QED
  BY <1>1, <1>2, HeldCommitsStep

(* A worker that keeps its transaction may enter any phase but "resolved"; *)
(* that one it enters when the outcome is known.                           *)
LEMMA HeldCommitsPhase ==
  ASSUME OutboxInv, RowsKept, FabricGrows, NEW w \in Workers,
         NEW c \in Claim, Become(w, c),
         c.event = worker[w].event, c.tx = worker[w].tx,
         c.phase \in {"accepted", "confirming", "resolved"} =>
           worker[w].phase \in {"accepted", "confirming", "resolved"},
         c.phase = "resolved" => Outcome(w) # "ordered"
  PROVE  HeldCommits'
<1>1. WorkerCommits(c)
  <2>. SUFFICES ASSUME c.phase \in {"accepted", "confirming", "resolved"}
                PROVE  /\ c.tx \in 1..Len(txs')
                       /\ txs'[c.tx].event = c.event
                       /\ txs'[c.tx].value = row'[c.event].value
                       /\ c.phase = "resolved" => txs'[c.tx].outcome # "ordered"
    BY DEF WorkerCommits
  <2>1. worker[w].event \in Events /\ row[worker[w].event] \in Row
    BY HeldType DEF HoldingPhases, OutboxInv
  <2>2. /\ worker[w].tx \in 1..Len(txs)
        /\ txs[worker[w].tx].event = worker[w].event
        /\ txs[worker[w].tx].value = row[worker[w].event].value
        /\ c.phase = "resolved" => txs[worker[w].tx].outcome # "ordered"
    BY DEF OutboxInv, RowsInv, HeldCommits, Commits, Outcome
  <2>3. worker[w].tx \in 1..Len(txs')
    BY <2>2, TransactionType DEF FabricGrows, OutboxInv, TypeInv
  <2>. QED
    BY <2>1, <2>2, <2>3 DEF RowsKept, FabricGrows
<1>. QED
  BY <1>1, HeldCommitsStep

LEMMA HeldCommitsIdle ==
  ASSUME OutboxInv, RowsKept, FabricGrows, NEW w \in Workers,
         NEW c \in {Idle, Continue}, Become(w, c)
  PROVE  HeldCommits'
<1>1. WorkerCommits(c)
  BY PhaseOfIdle DEF WorkerCommits, HoldingPhases
<1>. QED
  BY <1>1, HeldCommitsStep

(* A committed or awaited outcome, and the attempts, outlive a step that   *)
(* records none.                                                           *)
LEMMA OutcomesKeptInv ==
  ASSUME OutboxInv, RowsKept, OutcomesKept, FabricGrows, attempts' = attempts
  PROVE  AwaitedCommits' /\ CommittedIsAnchored' /\ AttemptsInv'
<1>. USE DEF OutboxInv
<1>1. AwaitedCommits'
  <2>. SUFFICES ASSUME NEW e \in Events, row'[e].status \in {"submitted", "confirming"}
                PROVE  /\ row'[e].tx \in 1..Len(txs')
                       /\ txs'[row'[e].tx].event = e
                       /\ txs'[row'[e].tx].value = row'[e].value
    BY DEF AwaitedCommits, Commits
  <2>1. /\ row[e].status \in {"submitted", "confirming"}
        /\ row'[e].tx = row[e].tx /\ row'[e].value = row[e].value
    BY DEF OutcomesKept, SameOutcome
  <2>2. /\ row[e].tx \in 1..Len(txs)
        /\ txs[row[e].tx].event = e /\ txs[row[e].tx].value = row[e].value
    BY <2>1 DEF RowsInv, AwaitedCommits, Commits
  <2>3. row[e].tx \in 1..Len(txs')
    BY <2>2, TransactionType DEF FabricGrows, TypeInv
  <2>. QED
    BY <2>1, <2>2, <2>3 DEF FabricGrows
<1>2. CommittedIsAnchored'
  <2>. SUFFICES ASSUME NEW e \in Events, row'[e].status = "committed"
                PROVE  /\ row'[e].tx \in 1..Len(txs')
                       /\ txs'[row'[e].tx].event = e
                       /\ txs'[row'[e].tx].outcome = "valid"
                       /\ ledger'[e] = row'[e].value
    BY DEF CommittedIsAnchored
  <2>1. /\ row[e].status = "committed"
        /\ row'[e].tx = row[e].tx /\ row'[e].value = row[e].value
    BY DEF OutcomesKept, SameOutcome
  <2>2. /\ row[e].tx \in 1..Len(txs) /\ txs[row[e].tx].event = e
        /\ txs[row[e].tx].outcome = "valid" /\ ledger[e] = row[e].value
    BY <2>1 DEF RowsInv, CommittedIsAnchored
  <2>3. row[e].value \in Values
    BY <2>1, RowOfEvent DEF TypeInv, Row
  <2>4. row[e].tx \in 1..Len(txs')
    BY <2>2, TransactionType DEF FabricGrows, TypeInv
  <2>. QED
    BY <2>1, <2>2, <2>3, <2>4, NoValueAssumption DEF FabricGrows
<1>3. OutcomeNeverInvented'
  <2>. SUFFICES ASSUME NEW a \in attempts
                PROVE  /\ a.tx \in 1..Len(txs')
                       /\ a.state = "committed" => txs'[a.tx].outcome = "valid"
                       /\ a.state = "failed" => txs'[a.tx].outcome = "invalid"
    BY DEF OutcomeNeverInvented
  <2>1. /\ a.tx \in 1..Len(txs)
        /\ a.state = "committed" => txs[a.tx].outcome = "valid"
        /\ a.state = "failed" => txs[a.tx].outcome = "invalid"
    BY DEF AttemptsInv, OutcomeNeverInvented
  <2>2. a.tx \in 1..Len(txs')
    BY <2>1, TransactionType DEF FabricGrows, TypeInv
  <2>. QED
    BY <2>1, <2>2 DEF FabricGrows
<1>4. OpenAttemptIsCurrent'
  <2>1. \A a \in attempts : a.event \in Events
    BY DEF TypeInv, TypeOK, Attempt
  <2>. QED
    BY <2>1 DEF AttemptsInv, OpenAttemptIsCurrent, OutcomesKept, SameOutcome
<1>. QED
  BY <1>1, <1>2, <1>3, <1>4 DEF AttemptsInv

(* A step that records no outcome, whatever Fabric does in it.             *)
LEMMA QuietStep ==
  ASSUME OutboxInv, RowsKept, OutcomesKept, FabricStep, attempts' = attempts,
         now' = now \/ now' = now + 1, UNCHANGED offset, Fault \/ UNCHANGED faults,
         worker' \in [Workers -> {Idle, Continue} \cup Claim], HeldEnqueued',
         FabricGrows => HeldCommits'
  PROVE  OutboxInv'
<1>1. /\ FabricGrows /\ FabricInv'
      /\ txs' \in Seq(Transaction) /\ ledger' \in [Events -> Values \cup {NoValue}]
  BY FabricStepEffect DEF OutboxInv, TypeInv
<1>2. attempts' \subseteq Attempt
  BY DEF OutboxInv, TypeInv, TypeOK
<1>3. TypeInv'
  BY <1>1, <1>2, StepType DEF OutboxInv
<1>. QED
  BY <1>1, <1>3, OutcomesKeptInv DEF OutboxInv, RowsInv

----------------------------------------------------------------------------
(* The steps of the environment                                            *)

LEMMA EnqueueStep ==
  ASSUME OutboxInv, NEW e \in Events, NEW v \in Values, Enqueue(e, v)
  PROVE  OutboxInv'
<1>1. NewRow(v) \in Row /\ NewRow(v).status = "pending"
  BY DEF NewRow, Row, Statuses, OutboxInv, TypeInv, TypeOK
<1>2. row[e] \notin Row /\ row[e].status = "none"
  BY NoRowIsNone DEF Enqueue
<1>3. RowsKept
  BY <1>1, <1>2, RowUpdate DEF Enqueue, OutboxInv, TypeInv
<1>4. OutcomesKept
  BY <1>1, <1>2 DEF Enqueue, OutcomesKept, SameOutcome, OutboxInv, TypeInv, TypeOK
<1>5. HeldEnqueued' /\ worker' \in [Workers -> {Idle, Continue} \cup Claim]
  BY <1>3, WorkersUnchanged DEF Enqueue, OutboxInv
<1>6. FabricGrows => HeldCommits'
  BY <1>3, HeldCommitsUnchanged DEF Enqueue, HeldCommits
<1>. QED
  BY <1>3, <1>4, <1>5, <1>6, QuietStep DEF Enqueue, FabricStep

LEMMA UnchangedRowsStep ==
  ASSUME OutboxInv, UNCHANGED <<row, attempts, worker, offset>>, FabricStep,
         now' = now \/ now' = now + 1, Fault \/ UNCHANGED faults
  PROVE  OutboxInv'
<1>1. RowsKept /\ OutcomesKept
  BY RowsUnchanged DEF OutboxInv, TypeInv
<1>2. HeldEnqueued' /\ worker' \in [Workers -> {Idle, Continue} \cup Claim]
  BY <1>1, WorkersUnchanged DEF OutboxInv
<1>3. FabricGrows => HeldCommits'
  BY <1>1, HeldCommitsUnchanged DEF HeldCommits
<1>. QED
  BY <1>1, <1>2, <1>3, QuietStep

LEMMA DecideStep ==
  ASSUME OutboxInv, NEW i \in 1..Len(txs), Decide(i)
  PROVE  OutboxInv'
BY UnchangedRowsStep DEF Decide, FabricStep

LEMMA TickStep == OutboxInv /\ Tick => OutboxInv'
BY UnchangedRowsStep DEF Tick, FabricStep

LEMMA CrashStep ==
  ASSUME OutboxInv, NEW w \in Workers, Crash(w)
  PROVE  OutboxInv'
<1>1. RowsKept /\ OutcomesKept
  BY RowsUnchanged DEF OutboxInv, TypeInv, Crash
<1>2. Idle \notin Claim
  BY PhaseOfIdle DEF Claim
<1>3. HeldEnqueued' /\ worker' \in [Workers -> {Idle, Continue} \cup Claim]
  BY <1>1, <1>2, WorkerUpdate DEF OutboxInv, Crash
<1>4. FabricGrows => HeldCommits'
  BY <1>1, HeldCommitsIdle DEF Crash
<1>. QED
  BY <1>1, <1>3, <1>4, QuietStep DEF Crash, FabricStep

----------------------------------------------------------------------------
(* Claims *)

(* Recovering an abandoned claim forgets no outcome.                       *)
LEMMA RecoveryType ==
  ASSUME NEW r \in Row \cup {NoRow}, NEW time \in Nat
  PROVE  /\ RecoverConfirmation(r, time) \in Row \cup {NoRow}
         /\ RecoverSubmission(r, time) \in Row \cup {NoRow}
         /\ SameOutcome(r, RecoverConfirmation(r, time))
         /\ SameOutcome(r, RecoverSubmission(r, time))
         /\ r \in Row => /\ RecoverConfirmation(r, time) \in Row
                         /\ RecoverConfirmation(r, time).value = r.value
                         /\ RecoverSubmission(r, time) \in Row
                         /\ RecoverSubmission(r, time).value = r.value
<1>1. CASE r \in Row
  <2>1. /\ RecoverConfirmation(r, time) \in Row
        /\ RecoverConfirmation(r, time).value = r.value
        /\ SameOutcome(r, RecoverConfirmation(r, time))
    BY <1>1 DEF RecoverConfirmation, Stale, Row, Statuses, SameOutcome
  <2>2. /\ RecoverSubmission(r, time) \in Row
        /\ RecoverSubmission(r, time).value = r.value
        /\ SameOutcome(r, RecoverSubmission(r, time))
    BY <1>1 DEF RecoverSubmission, Stale, Row, Statuses, SameOutcome
  <2>. QED
    BY <2>1, <2>2
<1>2. CASE r = NoRow
  BY <1>2, NoRowIsNone DEF RecoverConfirmation, RecoverSubmission, Stale, SameOutcome
<1>. QED
  BY <1>1, <1>2

(* The rows after a claim of one event, or of none.                        *)
LEMMA ClaimedRows ==
  ASSUME TypeInv, NEW rows \in [Events -> Row \cup {NoRow}],
         \A f \in Events :
           /\ row[f] \in Row => rows[f] \in Row /\ rows[f].value = row[f].value
           /\ SameOutcome(row[f], rows[f]),
         \/ row' = rows
         \/ \E e \in Events, r \in Row :
              /\ rows[e] \in Row /\ r.value = rows[e].value
              /\ SameOutcome(rows[e], r)
              /\ row' = [rows EXCEPT ![e] = r]
  PROVE  RowsKept /\ OutcomesKept
<1>1. RowsKept
  BY DEF RowsKept
<1>2. OutcomesKept
  BY DEF OutcomesKept, SameOutcome
<1>. QED
  BY <1>1, <1>2

(* What a claim makes of a row, and gives its worker.                      *)
LEMMA ConfirmingType ==
  ASSUME NEW e \in Events, NEW r \in Row, NEW time \in Nat,
         r.status \in {"submitted"}
  PROVE  LET claimed == [r EXCEPT !.status = "confirming", !.claims = @ + 1,
                                  !.claimedAt = time]
         IN  /\ claimed \in Row /\ claimed.value = r.value
             /\ SameOutcome(r, claimed)
             /\ [phase |-> "confirming", event |-> e, token |-> r.claims + 1,
                 tx |-> r.tx] \in Claim
<1>1. /\ r.claims + 1 \in Nat /\ r.tx \in Nat
      /\ "confirming" \in Statuses /\ "confirming" \in HoldingPhases
  BY DEF Row, Statuses, HoldingPhases
<1>2. [phase |-> "confirming", event |-> e, token |-> r.claims + 1,
       tx |-> r.tx] \in Claim
  BY <1>1 DEF Claim
<1>3. LET claimed == [r EXCEPT !.status = "confirming", !.claims = @ + 1,
                               !.claimedAt = time]
      IN  /\ claimed \in Row /\ claimed.value = r.value
          /\ SameOutcome(r, claimed)
  BY <1>1 DEF Row, SameOutcome
<1>. QED
  BY <1>2, <1>3

LEMMA SubmittingType ==
  ASSUME NEW e \in Events, NEW r \in Row, NEW time \in Nat,
         r.status \in Submittable
  PROVE  LET claimed == [r EXCEPT !.status = "submitting", !.claims = @ + 1,
                                  !.attempts = @ + 1, !.claimedAt = time,
                                  !.tx = 0]
         IN  /\ claimed \in Row /\ claimed.value = r.value
             /\ SameOutcome(r, claimed)
             /\ [phase |-> "claimed", event |-> e, token |-> r.claims + 1,
                 tx |-> 0] \in Claim
<1>1. /\ r.claims + 1 \in Nat /\ r.attempts + 1 \in Nat
      /\ "submitting" \in Statuses /\ "claimed" \in HoldingPhases
  BY DEF Row, Statuses, HoldingPhases
<1>2. [phase |-> "claimed", event |-> e, token |-> r.claims + 1,
       tx |-> 0] \in Claim
  BY <1>1 DEF Claim
<1>3. LET claimed == [r EXCEPT !.status = "submitting", !.claims = @ + 1,
                               !.attempts = @ + 1, !.claimedAt = time, !.tx = 0]
      IN  /\ claimed \in Row /\ claimed.value = r.value
          /\ SameOutcome(r, claimed)
  BY <1>1 DEF Row, SameOutcome, Submittable
<1>. QED
  BY <1>2, <1>3

(* A claim of either kind, once its row is found.                          *)
LEMMA ClaimStep ==
  ASSUME OutboxInv, RowsKept, OutcomesKept, NEW w \in Workers,
         NEW c \in {Idle, Continue} \cup Claim, Become(w, c),
         c \in Claim => row'[c.event] \in Row,
         WorkerCommits(c),
         UNCHANGED <<now, faults, offset, attempts, fabric>>
  PROVE  OutboxInv'
<1>1. HeldEnqueued' /\ worker' \in [Workers -> {Idle, Continue} \cup Claim]
  BY WorkerUpdate DEF OutboxInv
<1>2. FabricGrows => HeldCommits'
  BY HeldCommitsStep
<1>. QED
  BY <1>1, <1>2, QuietStep DEF FabricStep

LEMMA ClaimConfirmationStep ==
  ASSUME OutboxInv, NEW w \in Workers, ClaimConfirmation(w)
  PROVE  OutboxInv'
<1>. DEFINE time == Clock(w)
            rows == [e \in Events |-> RecoverConfirmation(row[e], time)]
<1>0. TypeInv /\ TypeOK /\ UNCHANGED <<now, faults, offset, attempts, fabric>>
  BY DEF OutboxInv, TypeInv, ClaimConfirmation
<1>1. time \in Nat
  BY <1>0, ClockType
<1>2. /\ rows \in [Events -> Row \cup {NoRow}]
      /\ \A f \in Events :
           /\ row[f] \in Row => rows[f] \in Row /\ rows[f].value = row[f].value
           /\ SameOutcome(row[f], rows[f])
  BY <1>0, <1>1, RecoveryType DEF TypeOK
<1>. HIDE DEF time, rows
<1>3. CASE \E e \in Events :
              /\ FirstDue(e, rows, {"submitted"}, time)
              /\ rows[e].claims < MaxClaims
              /\ row' = [rows EXCEPT ![e] =
                   [rows[e] EXCEPT !.status = "confirming", !.claims = @ + 1,
                                   !.claimedAt = time]]
              /\ Become(w, [phase |-> "confirming", event |-> e,
                            token |-> rows[e].claims + 1, tx |-> rows[e].tx])
  <2>1. PICK e \in Events :
              /\ FirstDue(e, rows, {"submitted"}, time)
              /\ row' = [rows EXCEPT ![e] =
                   [rows[e] EXCEPT !.status = "confirming", !.claims = @ + 1,
                                   !.claimedAt = time]]
              /\ Become(w, [phase |-> "confirming", event |-> e,
                            token |-> rows[e].claims + 1, tx |-> rows[e].tx])
    BY <1>3
  <2>2. rows[e] \in Row /\ rows[e].status = "submitted"
    BY <1>2, <2>1, NoRowIsNone DEF FirstDue, Due
  <2>. DEFINE r == [rows[e] EXCEPT !.status = "confirming", !.claims = @ + 1,
                                   !.claimedAt = time]
              c == [phase |-> "confirming", event |-> e,
                    token |-> rows[e].claims + 1, tx |-> rows[e].tx]
  <2>3. /\ r \in Row /\ r.value = rows[e].value /\ c \in Claim
        /\ SameOutcome(rows[e], r)
    BY <1>1, <2>2, ConfirmingType
  <2>4. c.event = e /\ c.phase = "confirming" /\ c.tx = rows[e].tx
    OBVIOUS
  <2>5. row' = [rows EXCEPT ![e] = r] /\ Become(w, c)
    BY <2>1
  <2>. HIDE DEF r, c
  <2>6. RowsKept /\ OutcomesKept
    BY <1>0, <1>2, <2>2, <2>3, <2>5, ClaimedRows
  <2>7. row'[e] = r
    BY <1>2, <2>5
  <2>8. WorkerCommits(c)
    <3>1. /\ row[e].status \in {"submitted", "confirming"}
          /\ rows[e].tx = row[e].tx /\ rows[e].value = row[e].value
      BY <1>2, <2>2 DEF SameOutcome
    <3>2. Commits(row[e].tx, e)
      BY <3>1 DEF OutboxInv, RowsInv, AwaitedCommits
    <3>. QED
      BY <1>0, <2>3, <2>4, <2>7, <3>1, <3>2 DEF WorkerCommits, Commits, fabric
  <2>. QED
    BY <1>0, <2>3, <2>4, <2>5, <2>6, <2>7, <2>8, ClaimStep
<1>4. CASE row' = rows /\ Become(w, Continue)
  <2>1. RowsKept /\ OutcomesKept
    BY <1>0, <1>2, <1>4, ClaimedRows
  <2>2. Continue \notin Claim /\ WorkerCommits(Continue)
    BY PhaseOfIdle DEF Claim, WorkerCommits, HoldingPhases
  <2>. QED
    BY <1>0, <1>4, <2>1, <2>2, ClaimStep
<1>. QED
  BY <1>3, <1>4 DEF ClaimConfirmation, time, rows

LEMMA ClaimSubmissionStep ==
  ASSUME OutboxInv, NEW w \in Workers, ClaimSubmission(w)
  PROVE  OutboxInv'
<1>. DEFINE time == Clock(w)
            rows == [e \in Events |-> RecoverSubmission(row[e], time)]
<1>0. TypeInv /\ TypeOK /\ UNCHANGED <<now, faults, offset, attempts, fabric>>
  BY DEF OutboxInv, TypeInv, ClaimSubmission
<1>1. time \in Nat
  BY <1>0, ClockType
<1>2. /\ rows \in [Events -> Row \cup {NoRow}]
      /\ \A f \in Events :
           /\ row[f] \in Row => rows[f] \in Row /\ rows[f].value = row[f].value
           /\ SameOutcome(row[f], rows[f])
  BY <1>0, <1>1, RecoveryType DEF TypeOK
<1>. HIDE DEF time, rows
<1>3. CASE \E e \in Events :
              /\ FirstDue(e, rows, Submittable, time)
              /\ rows[e].claims < MaxClaims
              /\ row' = [rows EXCEPT ![e] =
                   [rows[e] EXCEPT !.status = "submitting", !.claims = @ + 1,
                                   !.attempts = @ + 1, !.claimedAt = time,
                                   !.tx = 0]]
              /\ Become(w, [phase |-> "claimed", event |-> e,
                            token |-> rows[e].claims + 1, tx |-> 0])
  <2>1. PICK e \in Events :
              /\ FirstDue(e, rows, Submittable, time)
              /\ row' = [rows EXCEPT ![e] =
                   [rows[e] EXCEPT !.status = "submitting", !.claims = @ + 1,
                                   !.attempts = @ + 1, !.claimedAt = time,
                                   !.tx = 0]]
              /\ Become(w, [phase |-> "claimed", event |-> e,
                            token |-> rows[e].claims + 1, tx |-> 0])
    BY <1>3
  <2>2. rows[e] \in Row /\ rows[e].status \in Submittable
    BY <1>2, <2>1, NoRowIsNone DEF FirstDue, Due, Submittable
  <2>. DEFINE r == [rows[e] EXCEPT !.status = "submitting", !.claims = @ + 1,
                                   !.attempts = @ + 1, !.claimedAt = time,
                                   !.tx = 0]
              c == [phase |-> "claimed", event |-> e,
                    token |-> rows[e].claims + 1, tx |-> 0]
  <2>3. /\ r \in Row /\ r.value = rows[e].value /\ c \in Claim
        /\ SameOutcome(rows[e], r)
    BY <1>1, <2>2, SubmittingType
  <2>4. c.event = e /\ WorkerCommits(c)
    BY DEF WorkerCommits
  <2>5. row' = [rows EXCEPT ![e] = r] /\ Become(w, c)
    BY <2>1
  <2>. HIDE DEF r, c
  <2>6. RowsKept /\ OutcomesKept
    BY <1>0, <1>2, <2>2, <2>3, <2>5, ClaimedRows
  <2>7. row'[e] = r
    BY <1>2, <2>5
  <2>. QED
    BY <1>0, <2>3, <2>4, <2>5, <2>6, <2>7, ClaimStep
<1>4. CASE row' = rows /\ Become(w, Idle)
  <2>1. RowsKept /\ OutcomesKept
    BY <1>0, <1>2, <1>4, ClaimedRows
  <2>2. Idle \notin Claim /\ WorkerCommits(Idle)
    BY PhaseOfIdle DEF Claim, WorkerCommits, HoldingPhases
  <2>. QED
    BY <1>0, <1>4, <2>1, <2>2, ClaimStep
<1>. QED
  BY <1>3, <1>4 DEF ClaimSubmission, time, rows

----------------------------------------------------------------------------
(* Submission and learning the outcome                                     *)

(* The transaction that was ordered commits what the row asks for.         *)
LEMMA SubmitStep ==
  ASSUME OutboxInv, NEW w \in Workers, Submit(w)
  PROVE  OutboxInv'
<1>. DEFINE e == worker[w].event
            v == RowOf(w).value
            n == Len(txs')
            c == [worker[w] EXCEPT !.phase = "accepted", !.tx = n]
<1>0. TypeInv /\ TypeOK
  BY DEF OutboxInv, TypeInv
<1>1. /\ worker[w] \in Claim /\ e \in Events /\ v \in Values
      /\ row[e] \in Row /\ v = row[e].value
  BY <1>0, HeldType DEF Submit, HoldingPhases
<1>2. /\ Order(e, v) /\ Become(w, c)
      /\ UNCHANGED <<now, faults, offset, row, attempts>>
  BY DEF Submit
<1>3. RowsKept /\ OutcomesKept
  BY <1>0, <1>2, RowsUnchanged
<1>4. /\ n = Len(txs) + 1 /\ n \in Nat /\ n \in 1..n
      /\ txs'[n].event = e /\ txs'[n].value = v
  <2>. HIDE DEF e, v, c
  <2>1. /\ Len(txs') = Len(txs) + 1
        /\ txs'[Len(txs) + 1].event = e /\ txs'[Len(txs) + 1].value = v
    BY <1>0, <1>1, <1>2, OrderEffect
  <2>. QED
    BY <1>0, <2>1, TransactionType
<1>. HIDE DEF n
<1>5. c \in Claim /\ c.phase = "accepted" /\ c.event = e /\ c.tx = n
  BY <1>1, <1>4 DEF Claim, HoldingPhases
<1>. HIDE DEF e, v, c
<1>6. row'[c.event] \in Row /\ WorkerCommits(c)
  BY <1>1, <1>2, <1>4, <1>5 DEF WorkerCommits, n
<1>7. HeldEnqueued' /\ worker' \in [Workers -> {Idle, Continue} \cup Claim]
  BY <1>0, <1>2, <1>3, <1>5, <1>6, WorkerUpdate
<1>8. FabricStep
  BY <1>1, <1>2 DEF FabricStep
<1>. QED
  BY <1>2, <1>3, <1>6, <1>7, <1>8, HeldCommitsStep, QuietStep

(* A worker enters a phase in which it claims to know no more than before. *)
LEMMA PhaseStep ==
  ASSUME OutboxInv, NEW w \in Workers, worker[w].phase \in HoldingPhases,
         NEW phase \in HoldingPhases, Step(w, phase),
         phase # "accepted",
         phase \in {"confirming", "resolved"} => worker[w].phase = "confirming",
         phase = "resolved" => Outcome(w) # "ordered",
         FabricStep, Fault \/ UNCHANGED faults,
         UNCHANGED <<now, offset, row, attempts>>
  PROVE  OutboxInv'
<1>1. RowsKept /\ OutcomesKept
  BY RowsUnchanged DEF OutboxInv, TypeInv
<1>2. HeldEnqueued' /\ worker' \in [Workers -> {Idle, Continue} \cup Claim]
  BY <1>1, PhaseUpdate DEF OutboxInv
<1>3. PICK c \in Claim : /\ Become(w, c) /\ c.phase = phase
                         /\ c.event = worker[w].event /\ c.tx = worker[w].tx
  BY <1>1, PhaseUpdate DEF OutboxInv
<1>4. FabricGrows => HeldCommits'
  BY <1>1, <1>3, HeldCommitsPhase
<1>. QED
  BY <1>1, <1>2, <1>4, QuietStep

LEMMA SubmissionFailsStep ==
  ASSUME OutboxInv, NEW w \in Workers, SubmissionFails(w)
  PROVE  OutboxInv'
<1>1. worker[w].phase \in HoldingPhases /\ "failing" \in HoldingPhases
  BY DEF SubmissionFails, HoldingPhases
<1>2. worker[w].event \in Events /\ RowOf(w).value \in Values
  BY <1>1, HeldType DEF OutboxInv
<1>3. FabricStep
  BY <1>2 DEF SubmissionFails, FabricStep
<1>. QED
  BY <1>1, <1>3, PhaseStep DEF SubmissionFails

LEMMA LearningStep ==
  ASSUME OutboxInv, NEW w \in Workers,
         RecordingFails(w) \/ LearnOutcome(w) \/ OutcomeUnknown(w) \/ MarkingFails(w)
  PROVE  OutboxInv'
<1>1. worker[w].phase \in HoldingPhases /\ {"failing", "resolved", "pending"} \subseteq HoldingPhases
  BY DEF RecordingFails, LearnOutcome, OutcomeUnknown, MarkingFails, HoldingPhases
<1>2. UNCHANGED fabric => FabricStep
  BY DEF FabricStep
<1>3. CASE RecordingFails(w)
  BY <1>1, <1>2, <1>3, PhaseStep DEF RecordingFails
<1>4. CASE LearnOutcome(w)
  BY <1>1, <1>2, <1>4, PhaseStep DEF LearnOutcome
<1>5. CASE OutcomeUnknown(w)
  BY <1>1, <1>2, <1>5, PhaseStep DEF OutcomeUnknown, UnknownOutcome
<1>6. CASE MarkingFails(w)
  BY <1>1, <1>2, <1>6, PhaseStep DEF MarkingFails
<1>. QED
  BY <1>3, <1>4, <1>5, <1>6

(* A row given back for a later attempt or confirmation.                   *)
LEMMA GivenBack ==
  ASSUME TypeInv, NEW w \in Workers, worker[w].phase \in HoldingPhases,
         NEW status \in {"failed", "submitted"},
         status = "failed" => RowOf(w).status = "submitting",
         status = "submitted" => RowOf(w).status = "confirming",
         row' = [row EXCEPT
           ![worker[w].event].status = status,
           ![worker[w].event].claimedAt = 0,
           ![worker[w].event].due = Clock(w) + RetryDelay(RowOf(w).attempts)]
  PROVE  RowsKept /\ OutcomesKept
<1>. DEFINE e == worker[w].event
            due == Clock(w) + RetryDelay(RowOf(w).attempts)
            r == [row[e] EXCEPT !.status = status, !.claimedAt = 0, !.due = due]
<1>1. e \in Events /\ row[e] \in Row /\ RowOf(w) = row[e]
  BY HeldType
<1>2. due \in Nat
  BY ClockType, RetryDelayType
<1>3. r \in Row /\ r.value = row[e].value /\ SameOutcome(row[e], r)
  BY <1>1, <1>2 DEF Row, Statuses, SameOutcome
<1>4. row' = [row EXCEPT ![e] = r]
  BY <1>1 DEF TypeInv, TypeOK
<1>. HIDE DEF r, e
<1>5. OutcomesKept
  <2>. SUFFICES ASSUME NEW f \in Events PROVE SameOutcome(row[f], row'[f])
    BY DEF OutcomesKept
  <2>1. CASE f = e
    BY <1>1, <1>3, <1>4, <2>1 DEF TypeInv, TypeOK
  <2>2. CASE f # e
    BY <1>4, <2>2 DEF SameOutcome, TypeInv, TypeOK
  <2>. QED
    BY <2>1, <2>2
<1>. QED
  BY <1>1, <1>3, <1>4, <1>5, RowUpdate DEF TypeInv

LEMMA GivingBackStep ==
  ASSUME OutboxInv, NEW w \in Workers, MarkFailed(w) \/ MarkPending(w)
  PROVE  OutboxInv'
<1>0. TypeInv /\ TypeOK /\ worker[w].phase \in HoldingPhases
  BY DEF OutboxInv, TypeInv, MarkFailed, MarkPending, HoldingPhases
<1>1. RowsKept /\ OutcomesKept
  <2>1. CASE row' = row
    BY <1>0, <2>1, RowsUnchanged
  <2>2. CASE MarkFailed(w) /\ row' # row
    BY <1>0, <2>2, GivenBack DEF MarkFailed, Holds
  <2>3. CASE MarkPending(w) /\ row' # row
    BY <1>0, <2>3, GivenBack DEF MarkPending, HoldsTransaction, Holds
  <2>. QED
    BY <2>1, <2>2, <2>3
<1>2. /\ Become(w, Idle) /\ UNCHANGED <<now, offset, attempts, fabric>>
      /\ Fault \/ UNCHANGED faults
  BY DEF MarkFailed, MarkPending
<1>3. Idle \notin Claim
  BY PhaseOfIdle DEF Claim
<1>4. HeldEnqueued' /\ worker' \in [Workers -> {Idle, Continue} \cup Claim]
  BY <1>0, <1>1, <1>2, <1>3, WorkerUpdate
<1>5. FabricGrows => HeldCommits'
  BY <1>1, <1>2, HeldCommitsIdle
<1>. QED
  BY <1>1, <1>2, <1>4, <1>5, QuietStep DEF FabricStep

----------------------------------------------------------------------------
(* Recording a submission and an outcome                                   *)

(* The record names the transaction of its worker, and no other attempt of *)
(* the event is open.                                                      *)
LEMMA RecordSubmissionStep ==
  ASSUME OutboxInv, NEW w \in Workers, RecordSubmission(w)
  PROVE  OutboxInv'
<1>. DEFINE e == worker[w].event
            tx == worker[w].tx
            r == [row[e] EXCEPT !.status = "confirming", !.tx = tx]
            a == [event |-> e, number |-> RowOf(w).attempts, tx |-> tx,
                  state |-> "submitted"]
<1>0. /\ TypeInv /\ TypeOK /\ FabricInv /\ AttemptsInv
      /\ worker[w].phase = "accepted" /\ worker[w].phase \in HoldingPhases
      /\ {"confirming", "failing"} \subseteq HoldingPhases
      /\ UNCHANGED <<now, offset, fabric>>
      /\ Fault \/ UNCHANGED faults
  BY DEF OutboxInv, TypeInv, RecordSubmission, HoldingPhases
<1>1. /\ e \in Events /\ tx \in Nat /\ row[e] \in Row /\ RowOf(w) = row[e]
      /\ row[e].status = "submitting" /\ row[e].attempts \in Nat
  BY <1>0, HeldType DEF RecordSubmission, Holds, Row
<1>2. /\ r \in Row /\ r.value = row[e].value /\ r.status = "confirming"
      /\ r.tx = tx /\ r.attempts = row[e].attempts
  BY <1>1 DEF Row, Statuses
<1>3. row' = [row EXCEPT ![e] = r]
  BY <1>0, <1>1 DEF RecordSubmission, TypeOK
<1>4. /\ a \in Attempt /\ a.event = e /\ a.tx = tx /\ a.state = "submitted"
      /\ a.number = row[e].attempts
      /\ attempts' = attempts \cup {a}
  BY <1>1 DEF RecordSubmission, Attempt
<1>5. Step(w, "confirming") \/ Step(w, "failing")
  BY DEF RecordSubmission
<1>6. Commits(tx, e)
  BY <1>0 DEF OutboxInv, RowsInv, HeldCommits
<1>. HIDE DEF r, a
<1>7. RowsKept
  BY <1>0, <1>1, <1>2, <1>3, RowUpdate
<1>8. /\ row'[e] = r /\ \A f \in Events : f # e => row'[f] = row[f]
  BY <1>0, <1>1, <1>3 DEF TypeOK
<1>. HIDE DEF e, tx
<1>9. FabricGrows /\ FabricInv'
  BY <1>0, FabricStepEffect DEF FabricStep
<1>10. PICK c \in Claim : /\ Become(w, c) /\ c.event = e /\ c.tx = tx
                          /\ c.phase \in {"confirming", "failing"}
  BY <1>0, <1>5, <1>7, PhaseUpdate DEF e, tx
<1>11. TypeInv'
  <2>1. HeldEnqueued' /\ worker' \in [Workers -> {Idle, Continue} \cup Claim]
    BY <1>0, <1>5, <1>7, PhaseUpdate
  <2>2. attempts' \subseteq Attempt
    BY <1>0, <1>4 DEF TypeOK
  <2>. QED
    BY <1>0, <1>7, <2>1, <2>2, StepType DEF fabric, TypeOK
<1>12. HeldCommits'
  BY <1>0, <1>7, <1>9, <1>10, HeldCommitsPhase DEF e, tx
<1>13. AwaitedCommits'
  <2>. SUFFICES ASSUME NEW f \in Events, row'[f].status \in {"submitted", "confirming"}
                PROVE  /\ row'[f].tx \in 1..Len(txs)
                       /\ txs[row'[f].tx].event = f
                       /\ txs[row'[f].tx].value = row'[f].value
    BY <1>0 DEF AwaitedCommits, Commits, fabric
  <2>1. CASE f = e
    BY <1>2, <1>6, <1>8, <2>1 DEF Commits
  <2>2. CASE f # e
    BY <1>8, <2>2 DEF OutboxInv, RowsInv, AwaitedCommits, Commits
  <2>. QED
    BY <2>1, <2>2
<1>14. CommittedIsAnchored'
  BY <1>0, <1>2, <1>8 DEF OutboxInv, RowsInv, CommittedIsAnchored, fabric
<1>15. OutcomeNeverInvented'
  BY <1>0, <1>4, <1>6 DEF AttemptsInv, OutcomeNeverInvented, Commits, fabric
<1>16. OpenAttemptIsCurrent'
  <2>. SUFFICES ASSUME NEW b \in attempts', b.state = "submitted"
                PROVE  /\ row'[b.event].status \in {"confirming", "submitted"}
                       /\ row'[b.event].tx = b.tx
                       /\ row'[b.event].attempts = b.number
    BY DEF OpenAttemptIsCurrent
  <2>1. CASE b = a
    BY <1>2, <1>4, <1>8, <2>1
  <2>2. CASE b \in attempts
    <3>1. /\ row[b.event].status \in {"confirming", "submitted"}
          /\ row[b.event].tx = b.tx /\ row[b.event].attempts = b.number
          /\ b.event \in Events
      BY <1>0, <2>2 DEF AttemptsInv, OpenAttemptIsCurrent, TypeOK, Attempt
    <3>. QED
      BY <1>1, <1>8, <3>1
  <2>. QED
    BY <1>4, <2>1, <2>2
<1>. QED
  BY <1>9, <1>11, <1>12, <1>13, <1>14, <1>15, <1>16
     DEF OutboxInv, RowsInv, AttemptsInv

(* The outcome that is recorded is the one the peers decided.              *)
LEMMA MarkFinalStep ==
  ASSUME OutboxInv, NEW w \in Workers, MarkFinal(w)
  PROVE  OutboxInv'
<1>. DEFINE e == worker[w].event
            tx == worker[w].tx
            final == Final(w)
            due == IF final = "committed" THEN row[e].due
                   ELSE Clock(w) + RetryDelay(RowOf(w).attempts)
            r == [row[e] EXCEPT !.status = final, !.claimedAt = 0, !.due = due]
<1>0. /\ TypeInv /\ TypeOK /\ FabricInv /\ AttemptsInv
      /\ worker[w].phase = "resolved" /\ worker[w].phase \in HoldingPhases
      /\ "pending" \in HoldingPhases
      /\ UNCHANGED <<now, offset, fabric>>
      /\ Fault \/ UNCHANGED faults
  BY DEF OutboxInv, TypeInv, MarkFinal, HoldingPhases
<1>1. /\ e \in Events /\ tx \in Nat /\ row[e] \in Row /\ RowOf(w) = row[e]
      /\ row[e].status = "confirming" /\ row[e].tx = tx
  BY <1>0, HeldType DEF MarkFinal, HoldsTransaction, Holds
<1>2. /\ Commits(tx, e) /\ txs[tx].outcome # "ordered"
      /\ final \in {"committed", "failed"}
      /\ final = "committed" <=> txs[tx].outcome = "valid"
  BY <1>0 DEF OutboxInv, RowsInv, HeldCommits, Outcome, Final
<1>3. txs[tx].outcome \in {"valid", "invalid"} /\ txs[tx].value = row[e].value
  BY <1>0, <1>2, TransactionType DEF Commits
<1>4. due \in Nat
  BY <1>0, <1>1, ClockType, RetryDelayType DEF Row
<1>5. row' = [row EXCEPT ![e] = r] /\ attempts' = Resolve(e, tx, final)
  BY <1>0, <1>1 DEF MarkFinal, TypeOK
<1>. HIDE DEF due, final
<1>6. /\ r \in Row /\ r.value = row[e].value /\ r.status = final
      /\ r.tx = tx /\ r.attempts = row[e].attempts
  BY <1>1, <1>2, <1>4 DEF Row, Statuses
<1>7. Become(w, Idle) \/ Step(w, "pending")
  BY DEF MarkFinal
<1>. HIDE DEF r
<1>8. RowsKept
  BY <1>0, <1>1, <1>5, <1>6, RowUpdate
<1>9. /\ row'[e] = r /\ \A f \in Events : f # e => row'[f] = row[f]
  BY <1>0, <1>1, <1>5 DEF TypeOK
<1>10. \A b \in attempts' : \E a \in attempts :
         /\ a \in Attempt /\ b \in Attempt
         /\ b.event = a.event /\ b.number = a.number /\ b.tx = a.tx
         /\ IF a.event = e /\ a.tx = tx THEN b.state = final ELSE b.state = a.state
  <2>. SUFFICES ASSUME NEW b \in attempts'
                PROVE  \E a \in attempts :
                         /\ a \in Attempt /\ b \in Attempt
                         /\ b.event = a.event /\ b.number = a.number /\ b.tx = a.tx
                         /\ IF a.event = e /\ a.tx = tx THEN b.state = final
                                                        ELSE b.state = a.state
    OBVIOUS
  <2>1. PICK a \in attempts :
          b = IF a.event = e /\ a.tx = tx THEN [a EXCEPT !.state = final] ELSE a
    BY <1>5 DEF Resolve
  <2>2. a \in Attempt
    BY <1>0 DEF TypeOK
  <2>3. /\ b \in Attempt
        /\ b.event = a.event /\ b.number = a.number /\ b.tx = a.tx
        /\ IF a.event = e /\ a.tx = tx THEN b.state = final ELSE b.state = a.state
    BY <1>2, <2>1, <2>2 DEF Attempt
  <2>. QED
    BY <2>2, <2>3
<1>. HIDE DEF e, tx
<1>11. FabricGrows /\ FabricInv'
  BY <1>0, FabricStepEffect DEF FabricStep
<1>12. /\ HeldEnqueued' /\ worker' \in [Workers -> {Idle, Continue} \cup Claim]
       /\ HeldCommits'
  <2>1. CASE Become(w, Idle)
    <3>1. Idle \notin Claim
      BY PhaseOfIdle DEF Claim
    <3>. QED
      BY <1>0, <1>8, <1>11, <2>1, <3>1, WorkerUpdate, HeldCommitsIdle
  <2>2. CASE Step(w, "pending")
    <3>1. PICK c \in Claim : /\ Become(w, c) /\ c.phase = "pending"
                             /\ c.event = worker[w].event /\ c.tx = worker[w].tx
      BY <1>0, <1>8, <2>2, PhaseUpdate
    <3>. QED
      BY <1>0, <1>8, <1>11, <2>2, <3>1, PhaseUpdate, HeldCommitsPhase
  <2>. QED
    BY <1>7, <2>1, <2>2
<1>13. TypeInv'
  <2>1. attempts' \subseteq Attempt
    BY <1>10
  <2>. QED
    BY <1>0, <1>8, <1>12, <2>1, StepType DEF fabric, TypeOK
<1>14. AwaitedCommits'
  BY <1>0, <1>2, <1>6, <1>9 DEF OutboxInv, RowsInv, AwaitedCommits, Commits, fabric
<1>15. CommittedIsAnchored'
  <2>. SUFFICES ASSUME NEW f \in Events, row'[f].status = "committed"
                PROVE  /\ row'[f].tx \in 1..Len(txs)
                       /\ txs[row'[f].tx].event = f
                       /\ txs[row'[f].tx].outcome = "valid"
                       /\ ledger[f] = row'[f].value
    BY <1>0 DEF CommittedIsAnchored, fabric
  <2>1. CASE f = e
    <3>1. txs[tx].outcome = "valid" /\ txs[tx].event = e /\ tx \in 1..Len(txs)
      BY <1>2, <1>6, <1>9, <2>1 DEF Commits
    <3>2. ledger[e] = txs[tx].value
      BY <1>0, <3>1 DEF FabricInv, LedgerAgrees
    <3>. QED
      BY <1>3, <1>6, <1>9, <2>1, <3>1, <3>2
  <2>2. CASE f # e
    BY <1>9, <2>2 DEF OutboxInv, RowsInv, CommittedIsAnchored
  <2>. QED
    BY <2>1, <2>2
<1>16. OutcomeNeverInvented'
  <2>. SUFFICES ASSUME NEW b \in attempts'
                PROVE  /\ b.tx \in 1..Len(txs)
                       /\ b.state = "committed" => txs[b.tx].outcome = "valid"
                       /\ b.state = "failed" => txs[b.tx].outcome = "invalid"
    BY <1>0 DEF OutcomeNeverInvented, fabric
  <2>1. PICK a \in attempts :
          /\ b.tx = a.tx
          /\ IF a.event = e /\ a.tx = tx THEN b.state = final ELSE b.state = a.state
    BY <1>10
  <2>. QED
    BY <1>0, <1>2, <1>3, <2>1 DEF AttemptsInv, OutcomeNeverInvented
<1>17. OpenAttemptIsCurrent'
  <2>. SUFFICES ASSUME NEW b \in attempts', b.state = "submitted"
                PROVE  /\ row'[b.event].status \in {"confirming", "submitted"}
                       /\ row'[b.event].tx = b.tx
                       /\ row'[b.event].attempts = b.number
    BY DEF OpenAttemptIsCurrent
  <2>1. PICK a \in attempts :
          /\ a \in Attempt /\ ~(a.event = e /\ a.tx = tx) /\ a.state = "submitted"
          /\ b.event = a.event /\ b.number = a.number /\ b.tx = a.tx
    BY <1>2, <1>10
  <2>2. /\ row[a.event].status \in {"confirming", "submitted"}
        /\ row[a.event].tx = a.tx /\ row[a.event].attempts = a.number
    BY <1>0, <2>1 DEF AttemptsInv, OpenAttemptIsCurrent
  <2>3. a.event \in Events /\ a.event # e
    BY <1>1, <2>1, <2>2 DEF Attempt, e, tx
  <2>. QED
    BY <1>9, <2>1, <2>2, <2>3
<1>. QED
  BY <1>11, <1>12, <1>13, <1>14, <1>15, <1>16, <1>17
     DEF OutboxInv, RowsInv, AttemptsInv

----------------------------------------------------------------------------
(* The invariant                                                           *)

LEMMA InitOutbox == Init => OutboxInv
<1>. SUFFICES ASSUME Init PROVE OutboxInv
  OBVIOUS
<1>1. TypeInv
  BY InitType
<1>2. txs = <<>> /\ Len(txs) = 0 /\ attempts = {}
  BY DEF Init
<1>3. FabricInv
  BY <1>2 DEF FabricInv, LedgerAgrees, AnchoredOnce
<1>4. RowsInv
  BY DEF Init, RowsInv, AwaitedCommits, HeldCommits, CommittedIsAnchored, NoRow, Idle
<1>5. AttemptsInv
  BY <1>2 DEF AttemptsInv, OutcomeNeverInvented, OpenAttemptIsCurrent
<1>. QED
  BY <1>1, <1>3, <1>4, <1>5 DEF OutboxInv

LEMMA WorkStep ==
  ASSUME OutboxInv, NEW w \in Workers, Work(w)
  PROVE  OutboxInv'
BY ClaimConfirmationStep, ClaimSubmissionStep, SubmitStep, SubmissionFailsStep,
   RecordSubmissionStep, LearningStep, MarkFinalStep, GivingBackStep DEF Work

LEMMA OutboxStep == OutboxInv /\ [Next]_vars => OutboxInv'
<1>. SUFFICES ASSUME OutboxInv, [Next]_vars PROVE OutboxInv'
  OBVIOUS
<1>1. ASSUME NEW e \in Events, NEW v \in Values, Enqueue(e, v)
      PROVE  OutboxInv'
  BY <1>1, EnqueueStep
<1>2. ASSUME NEW i \in 1..Len(txs), Decide(i)
      PROVE  OutboxInv'
  BY <1>2, DecideStep
<1>3. ASSUME NEW w \in Workers, Work(w) \/ Crash(w)
      PROVE  OutboxInv'
  BY <1>3, WorkStep, CrashStep
<1>4. CASE Tick
  BY <1>4, TickStep
<1>5. CASE UNCHANGED vars
  BY <1>5
     DEF vars, OutboxInv, TypeInv, TypeOK, ClocksStarted, HeldEnqueued, FabricInv,
         LedgerAgrees, AnchoredOnce, RowsInv, AwaitedCommits, HeldCommits, Commits,
         Outcome, CommittedIsAnchored, AttemptsInv, OutcomeNeverInvented,
         OpenAttemptIsCurrent
<1>. QED
  BY <1>1, <1>2, <1>3, <1>4, <1>5 DEF Next

LEMMA OutboxInvariant == Spec => []OutboxInv
BY InitOutbox, OutboxStep, PTL DEF Spec

----------------------------------------------------------------------------
(* A committed row is never written again                                  *)

CommittedKept ==
  \A e \in Events : row[e].status = "committed" => row'[e] = row[e]

(* Writing a row that is not committed leaves the committed ones alone.    *)
LEMMA WriteElsewhere ==
  ASSUME NEW e \in Events, row[e].status # "committed",
         \A f \in Events : f # e => row'[f] = row[f]
  PROVE  CommittedKept
BY DEF CommittedKept

(* Neither recovers a claim a committed row, nor does a claim take it.     *)
LEMMA ClaimsKeepCommitted ==
  ASSUME TypeInv, NEW w \in Workers, ClaimConfirmation(w) \/ ClaimSubmission(w)
  PROVE  CommittedKept
<1>. DEFINE time == Clock(w)
<1>. SUFFICES ASSUME NEW e \in Events, row[e].status = "committed"
              PROVE  row'[e] = row[e]
  BY DEF CommittedKept
<1>1. CASE ClaimConfirmation(w)
  <2>. DEFINE rows == [f \in Events |-> RecoverConfirmation(row[f], time)]
  <2>1. rows[e] = row[e]
    BY DEF RecoverConfirmation, Stale
  <2>2. row' = rows \/ \E f \in Events : /\ rows[f].status = "submitted"
                                         /\ \E r : row' = [rows EXCEPT ![f] = r]
    BY <1>1 DEF ClaimConfirmation, FirstDue, Due
  <2>3. DOMAIN rows = Events
    OBVIOUS
  <2>. HIDE DEF rows
  <2>. QED
    BY <2>1, <2>2, <2>3
<1>2. CASE ClaimSubmission(w)
  <2>. DEFINE rows == [f \in Events |-> RecoverSubmission(row[f], time)]
  <2>1. rows[e] = row[e]
    BY DEF RecoverSubmission, Stale
  <2>2. row' = rows \/ \E f \in Events : /\ rows[f].status \in Submittable
                                         /\ \E r : row' = [rows EXCEPT ![f] = r]
    BY <1>2 DEF ClaimSubmission, FirstDue, Due
  <2>3. DOMAIN rows = Events
    OBVIOUS
  <2>. HIDE DEF rows
  <2>. QED
    BY <2>1, <2>2, <2>3 DEF Submittable
<1>. QED
  BY <1>1, <1>2

(* Every report names the status it expects of the row it writes.          *)
LEMMA ReportsKeepCommitted ==
  ASSUME TypeInv, NEW w \in Workers,
         \/ RecordSubmission(w) \/ MarkFailed(w) \/ MarkFinal(w) \/ MarkPending(w)
  PROVE  CommittedKept
<1>. DEFINE e == worker[w].event
<1>1. e \in Events
  BY HeldType
     DEF RecordSubmission, MarkFailed, MarkFinal, MarkPending, HoldingPhases
<1>2. CASE row' = row
  BY <1>2 DEF CommittedKept
<1>3. CASE row[e].status # "committed" /\ \A f \in Events : f # e => row'[f] = row[f]
  BY <1>1, <1>3, WriteElsewhere
<1>4. CASE RecordSubmission(w)
  BY <1>3, <1>4 DEF RecordSubmission, Holds, RowOf, TypeInv, TypeOK
<1>5. CASE MarkFailed(w)
  BY <1>2, <1>3, <1>5 DEF MarkFailed, Holds, RowOf, TypeInv, TypeOK
<1>6. CASE MarkFinal(w)
  BY <1>3, <1>6 DEF MarkFinal, HoldsTransaction, Holds, RowOf, TypeInv, TypeOK
<1>7. CASE MarkPending(w)
  BY <1>2, <1>3, <1>7
     DEF MarkPending, HoldsTransaction, Holds, RowOf, TypeInv, TypeOK
<1>. QED
  BY <1>4, <1>5, <1>6, <1>7

LEMMA StepKeepsCommitted == TypeInv /\ [Next]_vars => CommittedKept
<1>. SUFFICES ASSUME TypeInv, [Next]_vars PROVE CommittedKept
  OBVIOUS
<1>1. CASE row' = row
  BY <1>1 DEF CommittedKept
<1>2. ASSUME NEW e \in Events, NEW v \in Values, Enqueue(e, v)
      PROVE  CommittedKept
  BY <1>2, WriteElsewhere DEF Enqueue, NoRow, TypeInv, TypeOK
<1>3. ASSUME NEW i \in 1..Len(txs), Decide(i)
      PROVE  CommittedKept
  BY <1>1, <1>3 DEF Decide
<1>4. ASSUME NEW w \in Workers, Work(w)
      PROVE  CommittedKept
  BY <1>1, <1>4, ClaimsKeepCommitted, ReportsKeepCommitted
     DEF Work, Submit, SubmissionFails, RecordingFails, LearnOutcome,
         OutcomeUnknown, MarkingFails
<1>5. ASSUME NEW w \in Workers, Crash(w)
      PROVE  CommittedKept
  BY <1>1, <1>5 DEF Crash
<1>6. CASE Tick \/ UNCHANGED vars
  BY <1>1, <1>6 DEF Tick, vars
<1>. QED
  BY <1>2, <1>3, <1>4, <1>5, <1>6 DEF Next

----------------------------------------------------------------------------
(* The theorems                                                            *)

(* The tables, the ledger and the workers have values of their types.      *)
THEOREM TypeCorrect == Spec => []TypeOK
<1>1. OutboxInv => TypeOK
  BY DEF OutboxInv, TypeInv
<1>. QED
  BY <1>1, OutboxInvariant, PTL

(* A row says "committed" only when the ledger holds the commitment that   *)
(* was enqueued, through the transaction it names.                         *)
THEOREM Anchored == Spec => []CommittedIsAnchored
<1>1. OutboxInv => CommittedIsAnchored
  BY DEF OutboxInv, RowsInv
<1>. QED
  BY <1>1, OutboxInvariant, PTL

(* No timeout, stale claim or late report makes up an outcome.             *)
THEOREM OutcomesAreDecided == Spec => []OutcomeNeverInvented
<1>1. OutboxInv => OutcomeNeverInvented
  BY DEF OutboxInv, AttemptsInv
<1>. QED
  BY <1>1, OutboxInvariant, PTL

(* An event is not submitted again while the outcome of a recorded         *)
(* transaction is open.                                                    *)
THEOREM OpenAttempts == Spec => []OpenAttemptIsCurrent
<1>1. OutboxInv => OpenAttemptIsCurrent
  BY DEF OutboxInv, AttemptsInv
<1>. QED
  BY <1>1, OutboxInvariant, PTL

(* At most one transaction writes the commitment of an event.              *)
THEOREM WrittenOnce == Spec => []AnchoredOnce
<1>1. OutboxInv => AnchoredOnce
  BY DEF OutboxInv, FabricInv
<1>. QED
  BY <1>1, OutboxInvariant, PTL

(* A committed row never changes again, whatever a worker reports late.    *)
THEOREM CommittedForever == Spec => CommittedIsFinal
<1>1. OutboxInv /\ [Next]_vars => [CommittedKept]_vars
  BY StepKeepsCommitted DEF OutboxInv
<1>2. [][CommittedKept]_vars <=> CommittedIsFinal
  BY DEF CommittedKept, CommittedIsFinal
<1>. QED
  BY <1>1, <1>2, OutboxInvariant, PTL DEF Spec

----------------------------------------------------------------------------
(* The audit trail of security actions (ActionAnchoring)                   *)
(*                                                                         *)
(* A document is recorded only while the lookups that made it still give   *)
(* it, so what it names is in the outbox when it is.  What it names stays  *)
(* there, and what the lookups read of the action never changes once the   *)
(* event is captured: this is why the trail stays connected.               *)

(* An attempt is under way only after it was counted.                      *)
ExecutingIsCounted ==
  \A a \in Actions : action[a].status = "executing" => action[a].attempts \in 1..MaxAttempts

(* What a verification holds: the sources it expects are documents.        *)
VerifierHolds ==
  /\ verifier = [sources |-> verifier.sources, records |-> verifier.records,
                 promised |-> verifier.promised, verdict |-> verifier.verdict]
  /\ verifier.sources # None => verifier.sources \subseteq Document

AnchoringTypeInv == AnchoringTypeOK /\ ExecutingIsCounted /\ VerifierHolds

(* The triggers capture only what happened to an action that exists.       *)
CapturedHappened ==
  \A e \in captured : e.kind \in ActionKinds /\ Exists(e.action)

(* Only captured events are projected, by the only way an event of an      *)
(* action gets into the outbox.                                            *)
ProjectedIsCaptured ==
  /\ \A p \in Projectors : projector[p] # None => projector[p].event \in captured
  /\ \A e \in Ids : Enqueued(e) /\ e.kind \in ActionKinds => e \in captured

(* A row's document, forged or not, is the one of its event.               *)
DocumentOfEvent ==
  \A e \in Ids : Enqueued(e) => outbox[e].document.event = e

AnchoringInv ==
  /\ AnchoringTypeInv
  /\ CapturedHappened
  /\ ProjectedIsCaptured
  /\ DocumentOfEvent
  /\ TrailIsConnected
  /\ VerifiedIsAnchored

LEMMA IdOf ==
  ASSUME NEW e \in Ids
  PROVE  /\ e.action \in Actions
         /\ e.kind \in ActionKinds \cup CauseKinds \cup {"revoked", "issued"}
BY DEF Ids, Id, ActionKinds, CauseKinds

LEMMA IdInIds ==
  ASSUME NEW a \in Actions
  PROVE  /\ Id("requested", a, 0) \in Ids
         /\ \A kind \in CauseKinds \cup {"revoked", "issued"} : Id(kind, a, 0) \in Ids
         /\ \A kind \in {"succeeded", "failed"}, n \in 1..MaxAttempts : Id(kind, a, n) \in Ids
BY DEF Ids

(* What every step keeps: nothing that was captured, enqueued or anchored  *)
(* disappears, and an action keeps its type.                               *)
TrailKept ==
  /\ captured \subseteq captured'
  /\ \A e \in Ids : Enqueued(e) => Enqueued(e)'
  /\ \A e \in Ids : channel[e] # None => channel'[e] = channel[e]
  /\ \A a \in Actions : Exists(a) => Exists(a)' /\ action'[a].type = action[a].type

ActionRows ==
  [type : Types, attempts : 0..MaxAttempts, final : BOOLEAN,
   status : {"pending", "executing", "succeeded", "failed"}]

LEMMA ExistingRow ==
  ASSUME AnchoringTypeInv, NEW a \in Actions, Exists(a)
  PROVE  action[a] \in ActionRows
BY DEF AnchoringTypeInv, AnchoringTypeOK, Exists, ActionRows

(* A change of one action that the triggers see keeps the types.           *)
LEMMA UpdateTyped ==
  ASSUME AnchoringTypeInv, NEW a \in Actions, Exists(a), NEW r \in ActionRows,
         r.type = action[a].type,
         r.status \in {"executing", "succeeded", "failed"} => r.attempts \in 1..MaxAttempts,
         Update(a, r)
  PROVE  /\ action' \in [Actions -> {NoAction} \cup ActionRows]
         /\ captured' \subseteq Ids
         /\ ExecutingIsCounted'
         /\ captured \subseteq captured'
         /\ \A e \in captured' : e \in captured \/ (e.kind \in ActionKinds /\ e.action = a)
         /\ \A b \in Actions : Exists(b) => Exists(b)' /\ action'[b].type = action[b].type
<1>1. action \in [Actions -> {NoAction} \cup ActionRows] /\ captured \subseteq Ids
  BY DEF AnchoringTypeInv, AnchoringTypeOK, ActionRows
<1>2. action' = [action EXCEPT ![a] = r] /\ captured' = captured \cup Capture(a, r)
  BY DEF Update
<1>3. action' \in [Actions -> {NoAction} \cup ActionRows]
  BY <1>1, <1>2
<1>4. Capture(a, r) \subseteq {Id(r.status, a, r.attempts)}
      /\ (Capture(a, r) # {} => r.status \in {"succeeded", "failed"})
  BY DEF Capture
<1>5. captured' \subseteq Ids
  BY <1>1, <1>2, <1>4, IdInIds
<1>6. \A e \in Capture(a, r) : e.kind \in ActionKinds /\ e.action = a
  BY <1>4 DEF Id, ActionKinds
<1>7. ExecutingIsCounted'
  BY <1>1, <1>2 DEF AnchoringTypeInv, ExecutingIsCounted
<1>8. r # NoAction
  BY DEF ActionRows, NoAction
<1>9. \A b \in Actions : Exists(b) => Exists(b)' /\ action'[b].type = action[b].type
  BY <1>1, <1>2, <1>8 DEF Exists
<1>. QED
  BY <1>2, <1>3, <1>5, <1>6, <1>7, <1>9

(* The steps of the queue, with what the triggers capture of them          *)
QueueStep(a) ==
  \/ \E type \in Types : Request(a, type)
  \/ ClaimAction(a) \/ Fail(a) \/ Succeed(a) \/ Suppress(a)

LEMMA QueueStepTyped ==
  ASSUME AnchoringTypeInv, NEW a \in Actions, QueueStep(a)
  PROVE  /\ action' \in [Actions -> {NoAction} \cup ActionRows]
         /\ captured' \subseteq Ids
         /\ ExecutingIsCounted'
         /\ captured \subseteq captured'
         /\ \A e \in captured' : e \in captured \/ (e.kind \in ActionKinds /\ Exists(e.action)')
         /\ \A b \in Actions : Exists(b) => Exists(b)' /\ action'[b].type = action[b].type
<1>. DEFINE Goal == /\ action' \in [Actions -> {NoAction} \cup ActionRows]
                    /\ captured' \subseteq Ids
                    /\ ExecutingIsCounted'
                    /\ captured \subseteq captured'
                    /\ \A e \in captured' : e \in captured \/ (e.kind \in ActionKinds /\ Exists(e.action)')
                    /\ \A b \in Actions : Exists(b) => Exists(b)' /\ action'[b].type = action[b].type
<1>1. ASSUME NEW type \in Types, Request(a, type)
      PROVE  Goal
  <2>. DEFINE r == [type |-> type, attempts |-> 0, final |-> FALSE, status |-> "pending"]
  <2>1. r \in ActionRows /\ r # NoAction /\ r.status # "executing"
    BY AttemptsAssumption DEF ActionRows, NoAction
  <2>2. /\ ~Exists(a)
        /\ action' = [action EXCEPT ![a] = r]
        /\ captured' = captured \cup {Id("requested", a, 0)}
    BY <1>1 DEF Request
  <2>. HIDE DEF r
  <2>3. action \in [Actions -> {NoAction} \cup ActionRows] /\ captured \subseteq Ids
    BY DEF AnchoringTypeInv, AnchoringTypeOK, ActionRows
  <2>4. action' \in [Actions -> {NoAction} \cup ActionRows] /\ action'[a] = r
    BY <2>1, <2>2, <2>3
  <2>5. captured' \subseteq Ids
    BY <2>2, <2>3, IdInIds
  <2>6. ExecutingIsCounted'
    BY <2>1, <2>2, <2>3 DEF AnchoringTypeInv, ExecutingIsCounted
  <2>7. Exists(a)'
    BY <2>1, <2>4 DEF Exists
  <2>8. Id("requested", a, 0).kind \in ActionKinds /\ Id("requested", a, 0).action = a
    BY DEF Id, ActionKinds
  <2>9. \A b \in Actions : Exists(b) => Exists(b)' /\ action'[b].type = action[b].type
    BY <2>2, <2>3 DEF Exists
  <2>10. \A e \in captured' : e \in captured \/ (e.kind \in ActionKinds /\ Exists(e.action)')
    BY <2>2, <2>7, <2>8
  <2>. QED
    BY <2>2, <2>4, <2>5, <2>6, <2>9, <2>10
<1>2. ASSUME ClaimAction(a) \/ Fail(a) \/ Succeed(a) \/ Suppress(a)
      PROVE  Goal
  <2>1. Exists(a)
    BY <1>2 DEF ClaimAction, Waiting, Fail, Succeed, Suppress
  <2>2. action[a] \in ActionRows
    BY <2>1, ExistingRow
  <2>3. PICK r \in ActionRows :
          /\ Update(a, r) /\ r.type = action[a].type
          /\ r.attempts \in 1..MaxAttempts
    <3>1. CASE ClaimAction(a)
      <4>. DEFINE r == [action[a] EXCEPT !.status = "executing", !.attempts = @ + 1]
      <4>1. action[a].attempts < MaxAttempts /\ Update(a, r)
        BY <3>1 DEF ClaimAction
      <4>2. MaxAttempts \in Nat /\ action[a].attempts \in 0..MaxAttempts
        BY <2>2, AttemptsAssumption DEF ActionRows
      <4>3. PICK n : n = action[a].attempts + 1
        OBVIOUS
      <4>4. n \in 1..MaxAttempts /\ n \in 0..MaxAttempts
        BY <4>1, <4>2, <4>3
      <4>5. r = [action[a] EXCEPT !.status = "executing", !.attempts = n]
        BY <4>3
      <4>6. r \in ActionRows /\ r.type = action[a].type /\ r.attempts \in 1..MaxAttempts
        BY <2>2, <4>4, <4>5 DEF ActionRows
      <4>. QED
        BY <4>1, <4>6
    <3>2. CASE Fail(a)
      <4>. DEFINE r == [action[a] EXCEPT !.status = "failed"]
      <4>1. Update(a, r) /\ action[a].attempts \in 1..MaxAttempts
        BY <3>2 DEF Fail, AnchoringTypeInv, ExecutingIsCounted
      <4>2. r \in ActionRows /\ r.type = action[a].type /\ r.attempts \in 1..MaxAttempts
        BY <2>2, <4>1 DEF ActionRows
      <4>. QED
        BY <4>1, <4>2
    <3>3. CASE Succeed(a)
      <4>. DEFINE r == [action[a] EXCEPT !.status = "succeeded", !.final = TRUE]
      <4>1. Update(a, r) /\ action[a].attempts \in 1..MaxAttempts
        BY <3>3 DEF Succeed, AnchoringTypeInv, ExecutingIsCounted
      <4>2. r \in ActionRows /\ r.type = action[a].type /\ r.attempts \in 1..MaxAttempts
        BY <2>2, <4>1 DEF ActionRows
      <4>. QED
        BY <4>1, <4>2
    <3>4. CASE Suppress(a)
      <4>. DEFINE r == [action[a] EXCEPT !.status = "failed", !.attempts = @ + 1, !.final = TRUE]
      <4>1. action[a].attempts < MaxAttempts /\ Update(a, r)
        BY <3>4 DEF Suppress
      <4>2. MaxAttempts \in Nat /\ action[a].attempts \in 0..MaxAttempts
        BY <2>2, AttemptsAssumption DEF ActionRows
      <4>3. PICK n : n = action[a].attempts + 1
        OBVIOUS
      <4>4. n \in 1..MaxAttempts /\ n \in 0..MaxAttempts
        BY <4>1, <4>2, <4>3
      <4>5. r = [action[a] EXCEPT !.status = "failed", !.attempts = n, !.final = TRUE]
        BY <4>3
      <4>6. r \in ActionRows /\ r.type = action[a].type /\ r.attempts \in 1..MaxAttempts
        BY <2>2, <4>4, <4>5 DEF ActionRows
      <4>. QED
        BY <4>1, <4>6
    <3>. QED
      BY <1>2, <3>1, <3>2, <3>3, <3>4
  <2>4. /\ action' \in [Actions -> {NoAction} \cup ActionRows]
        /\ captured' \subseteq Ids
        /\ ExecutingIsCounted'
        /\ captured \subseteq captured'
        /\ \A e \in captured' : e \in captured \/ (e.kind \in ActionKinds /\ e.action = a)
        /\ \A b \in Actions : Exists(b) => Exists(b)' /\ action'[b].type = action[b].type
    BY <2>1, <2>3, UpdateTyped
  <2>5. Exists(a)'
    BY <2>1, <2>4
  <2>6. \A e \in captured' : e \in captured \/ (e.kind \in ActionKinds /\ Exists(e.action)')
    BY <2>4, <2>5
  <2>. QED
    BY <2>4, <2>6
<1>. QED
  BY <1>1, <1>2 DEF QueueStep

(* What a document or a row is, once it is there                           *)
LEMMA RowsAreThere ==
  /\ \A r \in OutboxRow : r # None
  /\ \A d \in Document : d # None
  /\ \A e \in Ids : e # None
  /\ \A d \in Document : NewOutboxRow(d) \in OutboxRow
BY NoneAssumption DEF NewOutboxRow, OutboxRow

(* A source, as a reader sees it, is a document of its event.              *)
LEMMA SourceTyped ==
  ASSUME NEW e \in Ids
  PROVE  Source(e) \in Document /\ Source(e).event = e
<1>1. e.action \in Actions
  BY IdOf
<1>2. Cause(e) \in Ids \cup {None}
  BY <1>1, IdInIds DEF Cause, CauseKinds
<1>3. CertificateEvent(e) \in Ids \cup {None}
  BY <1>1, IdInIds DEF CertificateEvent
<1>. QED
  BY <1>2, <1>3 DEF Source, Document

(* A forged document is one of the same event, and is not genuine.         *)
LEMMA TamperedTyped ==
  ASSUME NEW d \in Document
  PROVE  /\ Tampered(d) \in Document /\ Tampered(d).event = d.event
         /\ ~Genuine(Tampered(d))
BY DEF Tampered, Genuine, Document

(* The rows that damage leaves                                             *)
DamagedRows(r) ==
  {[r EXCEPT !.document = Tampered(r.document)],
   [r EXCEPT !.document = Tampered(r.document), !.commitment = Tampered(r.document)],
   [r EXCEPT !.status = "committed"]}

LEMMA DamagedRowsTyped ==
  ASSUME NEW r \in OutboxRow, NEW d \in DamagedRows(r)
  PROVE  /\ d \in OutboxRow
         /\ d.document = r.document \/ d.document = Tampered(r.document)
<1>1. r.document \in Document
  BY DEF OutboxRow
<1>2. Tampered(r.document) \in Document
  BY <1>1, TamperedTyped
<1>. QED
  BY <1>1, <1>2 DEF DamagedRows, OutboxRow

(* The steps on the outbox and the channel                                 *)
LEMMA OutboxStepTyped ==
  ASSUME AnchoringTypeInv, NEW e \in Ids, EnqueueOther(e) \/ Deliver(e) \/ Damage(e)
  PROVE  /\ outbox' \in [Ids -> OutboxRow \cup {None}]
         /\ channel' \in [Ids -> Document \cup {None}]
         /\ mishaps' \in 0..MaxMishaps
         /\ \A f \in Ids : Enqueued(f) => Enqueued(f)'
         /\ \A f \in Ids : channel[f] # None => channel'[f] = channel[f]
<1>1. /\ outbox \in [Ids -> OutboxRow \cup {None}]
      /\ channel \in [Ids -> Document \cup {None}]
      /\ mishaps \in 0..MaxMishaps
  BY DEF AnchoringTypeInv, AnchoringTypeOK
<1>2. CASE EnqueueOther(e)
  <2>1. [event |-> e, cause |-> None, certificate |-> None] \in Document
    BY DEF Document
  <2>2. PICK r \in OutboxRow : outbox' = [outbox EXCEPT ![e] = r] /\ r # None
    BY <1>2, <2>1, RowsAreThere DEF EnqueueOther
  <2>. QED
    BY <1>1, <1>2, <2>2 DEF EnqueueOther, Enqueued
<1>3. CASE Deliver(e)
  <2>1. outbox[e] \in OutboxRow /\ outbox' = [outbox EXCEPT ![e].status = "committed"]
    BY <1>1, <1>3 DEF Deliver, Enqueued
  <2>2. PICK r : r = [outbox[e] EXCEPT !.status = "committed"]
    OBVIOUS
  <2>3. r \in OutboxRow /\ outbox' = [outbox EXCEPT ![e] = r] /\ r # None
    BY <2>1, <2>2, NoneAssumption DEF OutboxRow
  <2>4. outbox[e].commitment \in Document
    BY <2>1 DEF OutboxRow
  <2>5. channel' = [channel EXCEPT ![e] = IF @ = None THEN outbox[e].commitment ELSE @]
    BY <1>3 DEF Deliver
  <2>6. channel' \in [Ids -> Document \cup {None}]
    BY <1>1, <2>4, <2>5
  <2>7. \A f \in Ids : channel[f] # None => channel'[f] = channel[f]
    BY <1>1, <2>5
  <2>8. mishaps' = mishaps
    BY <1>3 DEF Deliver
  <2>. QED
    BY <1>1, <2>3, <2>6, <2>7, <2>8 DEF Enqueued
<1>4. CASE Damage(e)
  <2>1. outbox[e] \in OutboxRow
    BY <1>1, <1>4 DEF Damage, Enqueued
  <2>2. PICK r \in DamagedRows(outbox[e]) : outbox' = [outbox EXCEPT ![e] = r]
    BY <1>4 DEF Damage, DamagedRows
  <2>3. r \in OutboxRow /\ r # None
    BY <2>1, <2>2, DamagedRowsTyped, RowsAreThere
  <2>4. mishaps' \in 0..MaxMishaps
    BY <1>1, <1>4, AttemptsAssumption DEF Damage, Mishap
  <2>. QED
    BY <1>1, <1>4, <2>2, <2>3, <2>4 DEF Damage, Enqueued
<1>. QED
  BY <1>2, <1>3, <1>4

(* The steps of a projector                                                *)
LEMMA ProjectorStepTyped ==
  ASSUME AnchoringTypeInv, NEW p \in Projectors, LoadNext(p) \/ Record(p) \/ RecordFails(p)
  PROVE  /\ projector' \in [Projectors -> Document \cup {None}]
         /\ outbox' \in [Ids -> OutboxRow \cup {None}]
         /\ mishaps' \in 0..MaxMishaps
         /\ \A f \in Ids : Enqueued(f) => Enqueued(f)'
<1>1. /\ outbox \in [Ids -> OutboxRow \cup {None}]
      /\ projector \in [Projectors -> Document \cup {None}]
      /\ mishaps \in 0..MaxMishaps
      /\ captured \subseteq Ids
  BY DEF AnchoringTypeInv, AnchoringTypeOK
<1>2. CASE LoadNext(p)
  <2>1. PICK e \in captured : projector' = [projector EXCEPT ![p] = Source(e)]
    BY <1>2 DEF LoadNext
  <2>2. Source(e) \in Document
    BY <1>1, SourceTyped
  <2>. QED
    BY <1>1, <1>2, <2>1, <2>2 DEF LoadNext, Enqueued
<1>3. CASE Record(p)
  <2>1. projector[p] \in Document
    BY <1>1, <1>3 DEF Record
  <2>. DEFINE e == projector[p].event
  <2>2. NewOutboxRow(projector[p]) \in OutboxRow /\ NewOutboxRow(projector[p]) # None
    BY <2>1, RowsAreThere
  <2>3. outbox' = [outbox EXCEPT ![e] = IF @ = None THEN NewOutboxRow(projector[p]) ELSE @]
    BY <1>3 DEF Record
  <2>4. e \in Ids
    BY <2>1 DEF Document
  <2>5. outbox' \in [Ids -> OutboxRow \cup {None}]
    BY <1>1, <2>2, <2>3, <2>4
  <2>6. \A f \in Ids : Enqueued(f) => Enqueued(f)'
    BY <1>1, <2>2, <2>3, <2>4 DEF Enqueued
  <2>. QED
    BY <1>1, <1>3, <2>5, <2>6 DEF Record
<1>4. CASE RecordFails(p)
  BY <1>1, <1>4, AttemptsAssumption DEF RecordFails, Mishap, Enqueued
<1>. QED
  BY <1>2, <1>3, <1>4

(* The documents that the causal verifier finds: the outbox's              *)
CausalDocuments == {CausalRecords[e].document : e \in ActionEvents(CausalRecords)}

LEMMA CausalDocument ==
  ASSUME NEW e \in ActionEvents(CausalRecords)
  PROVE  e \in DOMAIN CausalRecords /\ e \in Ids /\ Enqueued(e) /\ CausalRecords[e] = outbox[e]
BY DEF ActionEvents, CausalRecords

(* The steps of the verifier: it only reads.                               *)
VerifierStep == LoadFirst \/ Verify \/ VerifyCausally

LEMMA VerifierStepTyped ==
  ASSUME AnchoringTypeInv, VerifierStep
  PROVE  /\ verifier'.verdict \in Verdicts /\ verifier'.promised \subseteq Document
         /\ VerifierHolds'
<1>1. /\ captured \subseteq Ids /\ outbox \in [Ids -> OutboxRow \cup {None}]
      /\ verifier.verdict \in Verdicts /\ verifier.promised \subseteq Document
      /\ VerifierHolds
  BY DEF AnchoringTypeInv, AnchoringTypeOK
<1>2. Expectations \subseteq Document
  BY <1>1, SourceTyped DEF Expectations
<1>3. CASE LoadFirst
  <2>1. CASE verifier' = [verifier EXCEPT !.sources = Expectations]
    <3>1. verifier' = [sources |-> Expectations, records |-> verifier.records,
                       promised |-> verifier.promised, verdict |-> verifier.verdict]
      BY <1>1, <2>1 DEF VerifierHolds
    <3>. QED
      BY <1>1, <1>2, <3>1 DEF VerifierHolds
  <2>2. CASE verifier' = [verifier EXCEPT !.records = Records]
    <3>1. verifier' = [sources |-> verifier.sources, records |-> Records,
                       promised |-> verifier.promised, verdict |-> verifier.verdict]
      BY <1>1, <2>2 DEF VerifierHolds
    <3>. QED
      BY <1>1, <3>1 DEF VerifierHolds
  <2>. QED
    BY <1>3, <2>1, <2>2 DEF LoadFirst
<1>4. CASE Verify
  <2>. DEFINE sources == IF verifier.sources = None THEN Expectations ELSE verifier.sources
              records == IF verifier.records = None THEN Records ELSE verifier.records
  <2>1. sources \subseteq Document
    BY <1>1, <1>2 DEF VerifierHolds
  <2>2. verifier' = [sources |-> None, records |-> None, promised |-> sources,
                     verdict |-> IF Accepted(sources, records)
                                 THEN "verified" ELSE "refused"]
    BY <1>4 DEF Verify
  <2>. HIDE DEF sources, records
  <2>. QED
    BY <2>1, <2>2 DEF VerifierHolds, Verdicts
<1>5. CASE VerifyCausally
  <2>1. PICK v \in {"verified", "refused"} :
          verifier' = [NoVerification EXCEPT !.promised = CausalDocuments, !.verdict = v]
    BY <1>5 DEF VerifyCausally, CausalDocuments
  <2>2. CausalDocuments \subseteq Document
    <3>1. ASSUME NEW e \in ActionEvents(CausalRecords)
          PROVE  CausalRecords[e].document \in Document
      <4>1. outbox[e] \in OutboxRow /\ CausalRecords[e] = outbox[e]
        BY <1>1, CausalDocument DEF Enqueued
      <4>. QED
        BY <4>1 DEF OutboxRow
    <3>. QED
      BY <3>1 DEF CausalDocuments
  <2>3. verifier' = [sources |-> None, records |-> None,
                     promised |-> CausalDocuments, verdict |-> v]
    BY <2>1 DEF NoVerification
  <2>. QED
    BY <2>2, <2>3 DEF VerifierHolds, Verdicts
<1>. QED
  BY <1>3, <1>4, <1>5 DEF VerifierStep

(* What each kind of step leaves alone                                     *)
LEMMA AnchoringStepKinds ==
  ASSUME [AnchoringNext]_anchoringVars
  PROVE  \/ \E a \in Actions :
              QueueStep(a) /\ UNCHANGED <<outbox, channel, projector, verifier, mishaps>>
         \/ \E a \in Actions : EndReplacement(a)
         \/ \E e \in Ids :
              /\ EnqueueOther(e) \/ Deliver(e) \/ Damage(e)
              /\ UNCHANGED <<action, captured, replacement, projector, verifier>>
         \/ \E p \in Projectors :
              /\ LoadNext(p) \/ Record(p) \/ RecordFails(p)
              /\ UNCHANGED <<action, captured, replacement, channel, verifier>>
         \/ /\ VerifierStep
            /\ UNCHANGED <<action, captured, replacement, outbox, channel, projector, mishaps>>
         \/ UNCHANGED anchoringVars
BY DEF AnchoringNext, QueueStep, Request, ClaimAction, Fail, Succeed, Suppress,
       EnqueueOther, Deliver, Damage, LoadNext, Record, RecordFails,
       VerifierStep, LoadFirst, Verify, VerifyCausally

LEMMA ReplacementTyped ==
  ASSUME AnchoringTypeInv, NEW a \in Actions, QueueStep(a) \/ EndReplacement(a)
  PROVE  replacement' \in [Actions -> {"none", "active", "ended"}]
<1>1. replacement \in [Actions -> {"none", "active", "ended"}]
  BY DEF AnchoringTypeInv, AnchoringTypeOK
<1>. QED
  BY <1>1 DEF QueueStep, Request, ClaimAction, Fail, Succeed, Suppress, EndReplacement

(* Every step keeps the types, and what is captured, enqueued or anchored. *)
LEMMA AnchoringTypeStep ==
  AnchoringTypeInv /\ [AnchoringNext]_anchoringVars => AnchoringTypeInv' /\ TrailKept
<1>. SUFFICES ASSUME AnchoringTypeInv, [AnchoringNext]_anchoringVars
              PROVE  AnchoringTypeInv' /\ TrailKept
  OBVIOUS
<1>1. /\ action \in [Actions -> {NoAction} \cup ActionRows]
      /\ captured \subseteq Ids
      /\ replacement \in [Actions -> {"none", "active", "ended"}]
      /\ outbox \in [Ids -> OutboxRow \cup {None}]
      /\ channel \in [Ids -> Document \cup {None}]
      /\ projector \in [Projectors -> Document \cup {None}]
      /\ verifier.verdict \in Verdicts /\ verifier.promised \subseteq Document
      /\ mishaps \in 0..MaxMishaps
      /\ ExecutingIsCounted /\ VerifierHolds
  BY DEF AnchoringTypeInv, AnchoringTypeOK, ActionRows
<1>2. ASSUME NEW a \in Actions, QueueStep(a),
             UNCHANGED <<outbox, channel, projector, verifier, mishaps>>
      PROVE  AnchoringTypeInv' /\ TrailKept
  <2>1. /\ action' \in [Actions -> {NoAction} \cup ActionRows]
        /\ captured' \subseteq Ids
        /\ ExecutingIsCounted'
        /\ captured \subseteq captured'
        /\ \A b \in Actions : Exists(b) => Exists(b)' /\ action'[b].type = action[b].type
    BY <1>2, QueueStepTyped
  <2>2. replacement' \in [Actions -> {"none", "active", "ended"}]
    BY <1>2, ReplacementTyped
  <2>. QED
    BY <1>1, <1>2, <2>1, <2>2
       DEF AnchoringTypeInv, AnchoringTypeOK, ActionRows, TrailKept, Enqueued, VerifierHolds
<1>3. ASSUME NEW a \in Actions, EndReplacement(a)
      PROVE  AnchoringTypeInv' /\ TrailKept
  <2>1. replacement' \in [Actions -> {"none", "active", "ended"}]
    BY <1>3, ReplacementTyped
  <2>2. UNCHANGED <<action, captured, outbox, channel, projector, verifier, mishaps>>
    BY <1>3 DEF EndReplacement
  <2>. QED
    BY <1>1, <2>1, <2>2
       DEF AnchoringTypeInv, AnchoringTypeOK, ActionRows, TrailKept, Enqueued, Exists,
           VerifierHolds, ExecutingIsCounted
<1>4. ASSUME NEW e \in Ids, EnqueueOther(e) \/ Deliver(e) \/ Damage(e),
             UNCHANGED <<action, captured, replacement, projector, verifier>>
      PROVE  AnchoringTypeInv' /\ TrailKept
  BY <1>1, <1>4, OutboxStepTyped
     DEF AnchoringTypeInv, AnchoringTypeOK, ActionRows, TrailKept, Exists,
         VerifierHolds, ExecutingIsCounted
<1>5. ASSUME NEW p \in Projectors, LoadNext(p) \/ Record(p) \/ RecordFails(p),
             UNCHANGED <<action, captured, replacement, channel, verifier>>
      PROVE  AnchoringTypeInv' /\ TrailKept
  BY <1>1, <1>5, ProjectorStepTyped
     DEF AnchoringTypeInv, AnchoringTypeOK, ActionRows, TrailKept, Exists,
         VerifierHolds, ExecutingIsCounted
<1>6. ASSUME VerifierStep,
             UNCHANGED <<action, captured, replacement, outbox, channel, projector, mishaps>>
      PROVE  AnchoringTypeInv' /\ TrailKept
  BY <1>1, <1>6, VerifierStepTyped
     DEF AnchoringTypeInv, AnchoringTypeOK, ActionRows, TrailKept, Exists, Enqueued,
         ExecutingIsCounted
<1>7. CASE UNCHANGED anchoringVars
  BY <1>1, <1>7
     DEF AnchoringTypeInv, AnchoringTypeOK, ActionRows, TrailKept, Exists, Enqueued,
         VerifierHolds, ExecutingIsCounted, anchoringVars
<1>. QED
  BY <1>2, <1>3, <1>4, <1>5, <1>6, <1>7, AnchoringStepKinds

(* Where the document of a row comes from                                  *)
RecordedBy(p, e) ==
  /\ projector[p] # None /\ Acceptable(projector[p])
  /\ projector[p].event = e /\ outbox'[e].document = projector[p]

DocumentFrom(e) ==
  \/ Enqueued(e) /\ outbox'[e].document = outbox[e].document
  \/ Enqueued(e) /\ outbox'[e].document = Tampered(outbox[e].document)
  \/ e.kind \notin ActionKinds /\ outbox'[e].document.event = e
  \/ \E p \in Projectors : RecordedBy(p, e) /\ UNCHANGED <<action, captured>>

LEMMA DocumentsKept ==
  ASSUME AnchoringTypeInv, [AnchoringNext]_anchoringVars,
         NEW e \in Ids, Enqueued(e)'
  PROVE  DocumentFrom(e)
<1>1. outbox \in [Ids -> OutboxRow \cup {None}] /\ projector \in [Projectors -> Document \cup {None}]
  BY DEF AnchoringTypeInv, AnchoringTypeOK
<1>2. CASE outbox' = outbox
  BY <1>2 DEF DocumentFrom, Enqueued
<1>3. ASSUME NEW f \in Ids, EnqueueOther(f)
      PROVE  DocumentFrom(e)
  <2>1. CASE e = f
    <3>1. f.kind \notin ActionKinds
      BY <1>3 DEF EnqueueOther
    <3>2. outbox'[f] = NewOutboxRow([event |-> f, cause |-> None, certificate |-> None])
      BY <1>1, <1>3 DEF EnqueueOther
    <3>3. outbox'[f].document.event = f
      BY <3>2 DEF NewOutboxRow
    <3>. QED
      BY <2>1, <3>1, <3>3 DEF DocumentFrom
  <2>2. CASE e # f
    <3>1. outbox'[e] = outbox[e]
      BY <1>1, <1>3, <2>2 DEF EnqueueOther
    <3>. QED
      BY <3>1 DEF DocumentFrom, Enqueued
  <2>. QED
    BY <2>1, <2>2
<1>4. ASSUME NEW f \in Ids, Deliver(f)
      PROVE  DocumentFrom(e)
  <2>1. CASE e = f
    <3>1. outbox'[e] = [outbox[e] EXCEPT !.status = "committed"] /\ Enqueued(e)
      BY <1>1, <1>4, <2>1 DEF Deliver
    <3>2. outbox[e] \in OutboxRow
      BY <1>1, <3>1 DEF Enqueued
    <3>3. outbox'[e].document = outbox[e].document
      BY <3>1, <3>2 DEF OutboxRow
    <3>. QED
      BY <3>1, <3>3 DEF DocumentFrom
  <2>2. CASE e # f
    <3>1. outbox'[e] = outbox[e]
      BY <1>1, <1>4, <2>2 DEF Deliver
    <3>. QED
      BY <3>1 DEF DocumentFrom, Enqueued
  <2>. QED
    BY <2>1, <2>2
<1>5. ASSUME NEW f \in Ids, Damage(f)
      PROVE  DocumentFrom(e)
  <2>1. CASE e = f
    <3>1. Enqueued(e)
      BY <1>5, <2>1 DEF Damage
    <3>2. outbox[e] \in OutboxRow
      BY <1>1, <3>1 DEF Enqueued
    <3>3. PICK r \in DamagedRows(outbox[e]) : outbox'[e] = r
      BY <1>1, <1>5, <2>1 DEF Damage, DamagedRows
    <3>4. r.document = Tampered(outbox[e].document) \/ r.document = outbox[e].document
      BY <3>2, <3>3, DamagedRowsTyped
    <3>. QED
      BY <3>1, <3>3, <3>4 DEF DocumentFrom
  <2>2. CASE e # f
    <3>1. outbox'[e] = outbox[e]
      BY <1>1, <1>5, <2>2 DEF Damage
    <3>. QED
      BY <3>1 DEF DocumentFrom, Enqueued
  <2>. QED
    BY <2>1, <2>2
<1>6. ASSUME NEW p \in Projectors, Record(p)
      PROVE  DocumentFrom(e)
  <2>. DEFINE f == projector[p].event
  <2>1. projector[p] \in Document /\ projector[p] # None /\ Acceptable(projector[p])
    BY <1>1, <1>6 DEF Record
  <2>2. outbox' = [outbox EXCEPT ![f] = IF @ = None THEN NewOutboxRow(projector[p]) ELSE @]
    BY <1>6 DEF Record
  <2>3. CASE outbox'[e] = outbox[e]
    BY <2>3 DEF DocumentFrom, Enqueued
  <2>4. CASE outbox'[e] # outbox[e]
    <3>1. e = f /\ outbox'[e] = NewOutboxRow(projector[p])
      BY <1>1, <2>2, <2>4
    <3>2. outbox'[e].document = projector[p]
      BY <3>1 DEF NewOutboxRow
    <3>3. UNCHANGED <<action, captured>>
      BY <1>6 DEF Record
    <3>4. RecordedBy(p, e)
      BY <2>1, <3>1, <3>2 DEF RecordedBy
    <3>. QED
      BY <3>3, <3>4 DEF DocumentFrom
  <2>. QED
    BY <2>3, <2>4
<1>. QED
  BY <1>2, <1>3, <1>4, <1>5, <1>6
     DEF AnchoringNext, Request, ClaimAction, Fail, Succeed, Suppress, EndReplacement,
         LoadNext, RecordFails, LoadFirst, Verify, VerifyCausally, anchoringVars

LEMMA EventsStep ==
  ASSUME AnchoringInv, [AnchoringNext]_anchoringVars, AnchoringTypeInv', TrailKept
  PROVE  CapturedHappened' /\ ProjectedIsCaptured' /\ DocumentOfEvent'
<1>1. /\ captured \subseteq Ids /\ captured' \subseteq Ids
      /\ projector \in [Projectors -> Document \cup {None}]
      /\ outbox' \in [Ids -> OutboxRow \cup {None}]
      /\ outbox \in [Ids -> OutboxRow \cup {None}]
  BY DEF AnchoringInv, AnchoringTypeInv, AnchoringTypeOK
<1>2. CapturedHappened'
  <2>1. CASE captured' = captured
    BY <1>1, <2>1, IdOf DEF AnchoringInv, CapturedHappened, TrailKept
  <2>2. ASSUME NEW a \in Actions, QueueStep(a)
        PROVE  CapturedHappened'
    <3>1. \A e \in captured' :
            e \in captured \/ (e.kind \in ActionKinds /\ Exists(e.action)')
      BY <2>2, QueueStepTyped DEF AnchoringInv
    <3>. QED
      BY <1>1, <3>1, IdOf DEF AnchoringInv, CapturedHappened, TrailKept
  <2>. QED
    BY <2>1, <2>2, AnchoringStepKinds DEF EndReplacement, anchoringVars
<1>3. \A p \in Projectors : projector'[p] # None => projector'[p].event \in captured'
  <2>1. CASE projector' = projector
    BY <2>1 DEF AnchoringInv, ProjectedIsCaptured, TrailKept
  <2>2. ASSUME NEW p \in Projectors, LoadNext(p)
        PROVE  \A q \in Projectors : projector'[q] # None => projector'[q].event \in captured'
    <3>1. PICK e \in captured : projector' = [projector EXCEPT ![p] = Source(e)]
      BY <2>2 DEF LoadNext
    <3>2. Source(e).event = e
      BY <1>1, SourceTyped
    <3>. QED
      BY <1>1, <3>1, <3>2 DEF AnchoringInv, ProjectedIsCaptured, TrailKept
  <2>3. ASSUME NEW p \in Projectors, Record(p) \/ RecordFails(p)
        PROVE  \A q \in Projectors : projector'[q] # None => projector'[q].event \in captured'
    BY <1>1, <2>3 DEF Record, RecordFails, AnchoringInv, ProjectedIsCaptured, TrailKept
  <2>. QED
    BY <2>1, <2>2, <2>3, AnchoringStepKinds DEF EndReplacement, anchoringVars
<1>4. \A e \in Ids : Enqueued(e)' /\ e.kind \in ActionKinds => e \in captured'
  <2>1. CASE outbox' = outbox
    BY <2>1 DEF AnchoringInv, ProjectedIsCaptured, TrailKept, Enqueued
  <2>2. ASSUME NEW f \in Ids, EnqueueOther(f)
        PROVE  \A e \in Ids : Enqueued(e)' /\ e.kind \in ActionKinds => e \in captured'
    BY <1>1, <2>2 DEF EnqueueOther, AnchoringInv, ProjectedIsCaptured, TrailKept, Enqueued
  <2>3. ASSUME NEW f \in Ids, Deliver(f) \/ Damage(f)
        PROVE  \A e \in Ids : Enqueued(e)' /\ e.kind \in ActionKinds => e \in captured'
    BY <1>1, <2>3 DEF Deliver, Damage, AnchoringInv, ProjectedIsCaptured, TrailKept, Enqueued
  <2>4. ASSUME NEW p \in Projectors, Record(p)
        PROVE  \A e \in Ids : Enqueued(e)' /\ e.kind \in ActionKinds => e \in captured'
    <3>1. projector[p].event \in captured
      BY <2>4 DEF Record, AnchoringInv, ProjectedIsCaptured
    <3>. QED
      BY <1>1, <2>4, <3>1 DEF Record, AnchoringInv, ProjectedIsCaptured, TrailKept, Enqueued
  <2>. QED
    BY <2>1, <2>2, <2>3, <2>4, AnchoringStepKinds
       DEF EndReplacement, LoadNext, RecordFails, anchoringVars
<1>5. DocumentOfEvent'
  <2>. SUFFICES ASSUME NEW e \in Ids, Enqueued(e)'
                PROVE  outbox'[e].document.event = e
    BY DEF DocumentOfEvent
  <2>1. DocumentFrom(e)
    BY DocumentsKept DEF AnchoringInv
  <2>2. Enqueued(e) =>
          /\ outbox[e].document.event = e
          /\ Tampered(outbox[e].document).event = outbox[e].document.event
    BY <1>1, TamperedTyped DEF AnchoringInv, DocumentOfEvent, Enqueued, OutboxRow
  <2>. QED
    BY <2>1, <2>2 DEF DocumentFrom, RecordedBy
<1>. QED
  BY <1>2, <1>3, <1>4, <1>5 DEF ProjectedIsCaptured

(* The document d of event e can be followed: TrailIsConnected at e.       *)
Connected(e, d) ==
  /\ d.event = e /\ d.cause # None /\ Enqueued(d.cause)
  /\ d.cause.action = e.action
  /\ d.cause.kind \in IF e.kind = "requested" THEN CauseKinds ELSE {"requested"}
  /\ NeedsCertificate(e) => d.certificate # None /\ Enqueued(d.certificate)

LEMMA TrailIsItsDocuments ==
  TrailIsConnected <=>
    \A e \in captured : Enqueued(e) /\ Genuine(outbox[e].document) =>
      Connected(e, outbox[e].document)
BY DEF TrailIsConnected, Connected

(* What a projector may record is connected.                               *)
LEMMA AcceptableIsConnected ==
  ASSUME NEW e \in Ids, Prerequisites(e), Source(e).event = e
  PROVE  Connected(e, Source(e))
<1>1. e.action \in Actions
  BY IdOf
<1>2. Source(e).cause = Cause(e) /\ Source(e).certificate = CertificateEvent(e)
  BY DEF Source
<1>3. /\ Cause(e) # None /\ Enqueued(Cause(e))
      /\ NeedsCertificate(e) => CertificateEvent(e) # None /\ Enqueued(CertificateEvent(e))
  BY DEF Prerequisites
<1>4. /\ Cause(e).action = e.action
      /\ Cause(e).kind \in IF e.kind = "requested" THEN CauseKinds ELSE {"requested"}
  BY <1>3 DEF Cause, Id, CauseKinds
<1>. QED
  BY <1>2, <1>3, <1>4 DEF Connected

(* It stays connected, because its action keeps its type.                  *)
LEMMA ConnectedIsKept ==
  ASSUME TrailKept, NEW e \in Ids, Exists(e.action), NEW d \in Document, Genuine(d),
         Connected(e, d)
  PROVE  Connected(e, d)'
<1>1. e.action \in Actions
  BY IdOf
<1>2. NeedsCertificate(e)' => NeedsCertificate(e)
  BY <1>1 DEF NeedsCertificate, TrailKept
<1>3. /\ d.cause \in Ids \cup {None}
      /\ d.certificate \in Ids \cup {None}
  BY DEF Document, Genuine
<1>. QED
  BY <1>2, <1>3 DEF Connected, TrailKept

LEMMA TrailStep ==
  ASSUME AnchoringInv, [AnchoringNext]_anchoringVars, AnchoringTypeInv', TrailKept,
         CapturedHappened', ProjectedIsCaptured'
  PROVE  TrailIsConnected'
<1>1. /\ captured \subseteq Ids /\ captured' \subseteq Ids
      /\ projector \in [Projectors -> Document \cup {None}]
      /\ outbox \in [Ids -> OutboxRow \cup {None}]
  BY DEF AnchoringInv, AnchoringTypeInv, AnchoringTypeOK
<1>. SUFFICES ASSUME NEW e \in captured', Enqueued(e)', Genuine(outbox'[e].document)
              PROVE  Connected(e, outbox[e].document)'
  BY DEF TrailIsConnected, Connected, Genuine
<1>2. e \in Ids /\ e.kind \in ActionKinds
  BY <1>1 DEF CapturedHappened
<1>3. DocumentFrom(e)
  BY <1>2, DocumentsKept DEF AnchoringInv
<1>4. CASE Enqueued(e) /\ outbox'[e].document = outbox[e].document
  <2>1. e \in captured /\ Exists(e.action)
    BY <1>2, <1>4 DEF AnchoringInv, ProjectedIsCaptured, CapturedHappened
  <2>2. PICK d : d = outbox[e].document
    OBVIOUS
  <2>3. d \in Document
    BY <1>1, <1>2, <1>4, <2>2 DEF Enqueued, OutboxRow
  <2>4. Genuine(d) /\ Connected(e, d)
    BY <1>4, <2>1, <2>2, TrailIsItsDocuments DEF AnchoringInv
  <2>5. Connected(e, d)'
    BY <1>2, <2>1, <2>3, <2>4, ConnectedIsKept
  <2>. QED
    BY <1>4, <2>2, <2>5 DEF Connected
<1>5. ASSUME NEW p \in Projectors, RecordedBy(p, e), UNCHANGED <<action, captured>>
      PROVE  Connected(e, outbox[e].document)'
  <2>1. /\ projector[p].event = e
        /\ Prerequisites(e) /\ projector[p] = Source(e)
    BY <1>5 DEF RecordedBy, Acceptable
  <2>2. e \in captured /\ Exists(e.action)
    BY <1>5, <2>1 DEF RecordedBy, AnchoringInv, ProjectedIsCaptured, CapturedHappened
  <2>3. PICK d : d = Source(e)
    OBVIOUS
  <2>4. d \in Document /\ Genuine(d) /\ Connected(e, d)
    BY <1>2, <1>5, <2>1, <2>3, SourceTyped, AcceptableIsConnected DEF RecordedBy
  <2>5. Connected(e, d)'
    BY <1>2, <2>2, <2>4, ConnectedIsKept
  <2>6. outbox'[e].document = d
    BY <1>5, <2>1, <2>3 DEF RecordedBy
  <2>. QED
    BY <2>5, <2>6 DEF Connected
<1>6. ~(Enqueued(e) /\ outbox'[e].document = Tampered(outbox[e].document))
  BY <1>1, <1>2, TamperedTyped DEF Enqueued, OutboxRow
<1>. QED
  BY <1>2, <1>3, <1>4, <1>5, <1>6 DEF DocumentFrom

(* What a verification promises is on the channel.                         *)
Anchors(promised) ==
  /\ promised # {}
  /\ \A document \in promised : channel[document.event] = document

(* What the action verifier expects has been compared with the document of  *)
(* a row, that with its commitment, and the commitment with the channel's.  *)
LEMMA AcceptedAnchors ==
  ASSUME NEW sources, NEW records, Accepted(sources, records)
  PROVE  Anchors(sources)
<1>1. sources # {}
  BY DEF Accepted
<1>2. ASSUME NEW s \in sources
      PROVE  channel[s.event] = s
  <2>1. s.event \in ActionEvents(records)
    BY DEF Accepted
  <2>2. CommittedRecord(records[s.event])
    BY <2>1 DEF Accepted, ActionEvents
  <2>3. records[s.event].document = s /\ ReadsBack(s.event, records)
    BY DEF Accepted
  <2>. QED
    BY <2>2, <2>3 DEF CommittedRecord, ReadsBack
<1>. QED
  BY <1>1, <1>2 DEF Anchors

(* The causal verifier starts from the row's document.                     *)
LEMMA CausallyAnchors ==
  ASSUME DocumentOfEvent, CausalLinks(CausalRecords),
         \A e \in DOMAIN CausalRecords :
           DurableRecord(CausalRecords[e]) /\ ReadsBack(e, CausalRecords)
  PROVE  Anchors(CausalDocuments)
<1>1. CausalDocuments # {}
  BY DEF CausalLinks, CausalDocuments
<1>2. ASSUME NEW e \in ActionEvents(CausalRecords)
      PROVE  channel[CausalRecords[e].document.event] = CausalRecords[e].document
  <2>1. e \in DOMAIN CausalRecords /\ e \in Ids /\ Enqueued(e) /\ CausalRecords[e] = outbox[e]
    BY CausalDocument
  <2>2. outbox[e].document = outbox[e].commitment /\ channel[e] = outbox[e].commitment
    BY <2>1 DEF DurableRecord, ReadsBack
  <2>3. outbox[e].document.event = e
    BY <2>1 DEF DocumentOfEvent
  <2>. QED
    BY <2>1, <2>2, <2>3
<1>. QED
  BY <1>1, <1>2 DEF Anchors, CausalDocuments

LEMMA VerifiedStep ==
  ASSUME AnchoringInv, [AnchoringNext]_anchoringVars, TrailKept
  PROVE  VerifiedIsAnchored'
<1>1. VerifiedIsAnchored <=> (verifier.verdict = "verified" => Anchors(verifier.promised))
  BY DEF VerifiedIsAnchored, Anchors
<1>2. VerifiedIsAnchored' <=> (verifier'.verdict = "verified" => Anchors(verifier.promised)')
  BY DEF VerifiedIsAnchored, Anchors
<1>3. verifier.promised \subseteq Document /\ VerifierHolds
  BY DEF AnchoringInv, AnchoringTypeInv, AnchoringTypeOK
<1>4. CASE verifier' = verifier
  <2>1. \A d \in Document : d.event \in Ids /\ d # None
    BY RowsAreThere DEF Document
  <2>. QED
    BY <1>1, <1>2, <1>3, <1>4, <2>1 DEF Anchors, TrailKept, AnchoringInv
<1>5. CASE LoadFirst
  <2>1. verifier.verdict = "none"
    BY <1>5 DEF LoadFirst
  <2>2. verifier'.verdict = verifier.verdict
    BY <1>3, <1>5 DEF LoadFirst, VerifierHolds
  <2>. QED
    BY <1>2, <2>1, <2>2
<1>6. CASE Verify
  <2>. DEFINE sources == IF verifier.sources = None THEN Expectations ELSE verifier.sources
              records == IF verifier.records = None THEN Records ELSE verifier.records
  <2>2. verifier' = [sources |-> None, records |-> None, promised |-> sources,
                     verdict |-> IF Accepted(sources, records)
                                 THEN "verified" ELSE "refused"]
    BY <1>6 DEF Verify
  <2>3. channel' = channel
    BY <1>6 DEF Verify
  <2>. HIDE DEF sources, records
  <2>4. ASSUME verifier'.verdict = "verified" PROVE Anchors(sources)
    <3>1. Accepted(sources, records)
      BY <2>2, <2>4
    <3>. QED
      BY <3>1, AcceptedAnchors
  <2>5. verifier'.promised = sources
    BY <2>2
  <2>. QED
    BY <1>2, <2>3, <2>4, <2>5 DEF Anchors
<1>7. CASE VerifyCausally
  <2>1. channel' = channel
    BY <1>7 DEF VerifyCausally
  <2>. DEFINE accepted == /\ \A e \in DOMAIN CausalRecords :
                               DurableRecord(CausalRecords[e]) /\ ReadsBack(e, CausalRecords)
                          /\ CausalLinks(CausalRecords)
  <2>2. verifier' = [NoVerification EXCEPT !.promised = CausalDocuments,
                       !.verdict = IF accepted THEN "verified" ELSE "refused"]
    BY <1>7 DEF VerifyCausally, CausalDocuments
  <2>3. /\ verifier'.promised = CausalDocuments
        /\ verifier'.verdict = "verified" => accepted
    BY <2>2 DEF NoVerification
  <2>4. verifier'.verdict = "verified" => Anchors(CausalDocuments)
    BY <2>3, CausallyAnchors DEF AnchoringInv
  <2>. QED
    BY <1>2, <2>1, <2>3, <2>4 DEF Anchors
<1>. QED
  BY <1>4, <1>5, <1>6, <1>7, AnchoringStepKinds
     DEF EndReplacement, VerifierStep, anchoringVars

THEOREM AnchoringInvariant == AnchoringSpec => []AnchoringInv
<1>1. AnchoringInit => AnchoringInv
  BY AttemptsAssumption
     DEF AnchoringInit, AnchoringInv, AnchoringTypeInv, AnchoringTypeOK, ExecutingIsCounted,
         VerifierHolds, CapturedHappened, ProjectedIsCaptured, DocumentOfEvent,
         TrailIsConnected, VerifiedIsAnchored, NoVerification, NoAction, Verdicts, Enqueued
<1>2. AnchoringInv /\ [AnchoringNext]_anchoringVars => AnchoringInv'
  BY AnchoringTypeStep, EventsStep, TrailStep, VerifiedStep DEF AnchoringInv
<1>. QED
  BY <1>1, <1>2, PTL DEF AnchoringSpec

(* The audit trail of security actions has values of its types.            *)
THEOREM AnchoringTypeCorrect == AnchoringSpec => []AnchoringTypeOK
<1>1. AnchoringInv => AnchoringTypeOK
  BY DEF AnchoringInv, AnchoringTypeInv
<1>. QED
  BY <1>1, AnchoringInvariant, PTL

(* What is projected can be followed: record_security_action_audit_-       *)
(* commitment looks up again what the projector looked up, so no cause and *)
(* no certificate event is named that is not in the outbox.                *)
THEOREM TrailConnected == AnchoringSpec => []TrailIsConnected
<1>1. AnchoringInv => TrailIsConnected
  BY DEF AnchoringInv
<1>. QED
  BY <1>1, AnchoringInvariant, PTL

(* verify() of either verifier answers "verified" only when the channel     *)
(* holds the very documents it is about: what the immutable sources say    *)
(* (the action verifier), or what the outbox said (the causal one),        *)
(* whatever rows were damaged and whenever the queries were answered.      *)
THEOREM VerifiedAnchored == AnchoringSpec => []VerifiedIsAnchored
<1>1. AnchoringInv => VerifiedIsAnchored
  BY DEF AnchoringInv
<1>. QED
  BY <1>1, AnchoringInvariant, PTL

----------------------------------------------------------------------------
(* One outcome for each attempt                                            *)

(* The outcomes captured of attempt n of action a                          *)
Outcomes(a, n) == {e \in captured : e.action = a /\ e.attempt = n}
SoleOutcome(kind, a, n) == {Id(kind, a, n)}

(* Nothing is captured ahead of the attempts; each attempt before the last *)
(* failed, and is captured so.                                             *)
EarlierFailed(a) ==
  /\ \A e \in captured : e.action = a => e.attempt <= action[a].attempts
  /\ \A n \in 1..MaxAttempts :
       n < action[a].attempts => Outcomes(a, n) = SoleOutcome("failed", a, n)

(* What is captured of the last attempt goes with the action's status; only *)
(* a suppression may leave the last number without an outcome.              *)
LastAttempt(a) ==
  LET r == action[a]
  IN  /\ r.status = "pending" => r.attempts = 0 /\ ~r.final
      /\ r.status = "executing" => ~r.final /\ Outcomes(a, r.attempts) = {}
      /\ r.status = "succeeded" =>
           r.attempts # 0 /\ Outcomes(a, r.attempts) = SoleOutcome("succeeded", a, r.attempts)
      /\ r.status = "failed" =>
           /\ r.attempts # 0
           /\ Outcomes(a, r.attempts) \subseteq SoleOutcome("failed", a, r.attempts)
           /\ ~r.final => Outcomes(a, r.attempts) = SoleOutcome("failed", a, r.attempts)

AttemptsCounted == \A a \in Actions : Exists(a) => EarlierFailed(a) /\ LastAttempt(a)

LEMMA OthersCounted ==
  ASSUME NEW a \in Actions, NEW b \in Actions, b # a,
         action'[b] = action[b], EarlierFailed(b), LastAttempt(b),
         \A n : Outcomes(b, n)' = Outcomes(b, n),
         \A e \in captured' : e.action = b => e \in captured
  PROVE  EarlierFailed(b)' /\ LastAttempt(b)'
BY DEF EarlierFailed, LastAttempt

LEMMA AttemptOf ==
  ASSUME NEW e \in Ids
  PROVE  e.attempt \in Nat
BY AttemptsAssumption DEF Ids, Id

(* The next attempt follows a failed one, or is the first: a claim and a   *)
(* suppression find the attempts before it closed.                         *)
LEMMA NextAttempt ==
  ASSUME AnchoringTypeInv, NEW a \in Actions, EarlierFailed(a), LastAttempt(a), Waiting(a),
         NEW k, k = action[a].attempts
  PROVE  /\ k \in Nat
         /\ \A e \in captured : e.action = a => e.attempt < k + 1
         /\ \A n \in 1..MaxAttempts : n < k + 1 => Outcomes(a, n) = SoleOutcome("failed", a, n)
         /\ Outcomes(a, k + 1) = {}
<1>1. action[a] \in ActionRows /\ captured \subseteq Ids
  BY ExistingRow DEF Waiting, AnchoringTypeInv, AnchoringTypeOK
<1>2. k \in Nat
  BY <1>1, AttemptsAssumption DEF ActionRows
<1>3. \A e \in captured : e.attempt \in Nat
  BY <1>1, AttemptOf
<1>4. \A e \in captured : e.action = a => e.attempt < k + 1
  BY <1>2, <1>3 DEF EarlierFailed
<1>5. k # 0 => Outcomes(a, k) = SoleOutcome("failed", a, k)
  BY DEF LastAttempt, Waiting
<1>6. \A n \in 1..MaxAttempts : n < k + 1 => Outcomes(a, n) = SoleOutcome("failed", a, n)
  <2>. SUFFICES ASSUME NEW n \in 1..MaxAttempts, n < k + 1
                PROVE  Outcomes(a, n) = SoleOutcome("failed", a, n)
    OBVIOUS
  <2>1. n = k \/ n < k
    BY <1>2, AttemptsAssumption
  <2>2. CASE n = k
    BY <1>5, <2>2
  <2>3. CASE n < k
    BY <2>3 DEF EarlierFailed
  <2>. QED
    BY <2>1, <2>2, <2>3
<1>7. Outcomes(a, k + 1) = {}
  BY <1>2, <1>3, <1>4 DEF Outcomes
<1>. QED
  BY <1>2, <1>4, <1>6, <1>7

(* The steps of an action that exists, by what they make of its row        *)
LEMMA ActionSteps ==
  ASSUME AnchoringTypeInv, NEW a \in Actions, Exists(a),
         ClaimAction(a) \/ Fail(a) \/ Succeed(a) \/ Suppress(a)
  PROVE  \/ /\ ClaimAction(a) /\ captured' = captured
            /\ action'[a].status = "executing" /\ ~action'[a].final
            /\ action'[a].attempts = action[a].attempts + 1
         \/ /\ Fail(a) \/ Succeed(a)
            /\ action'[a].status \in {"failed", "succeeded"}
            /\ Fail(a) => action'[a].status = "failed" /\ action'[a].final = action[a].final
            /\ action'[a].attempts = action[a].attempts
            /\ captured' = captured \cup
                 SoleOutcome(action'[a].status, a, action[a].attempts)
         \/ /\ Suppress(a)
            /\ action'[a].status = "failed" /\ action'[a].final
            /\ action'[a].attempts = action[a].attempts + 1
            /\ \/ captured' = captured
               \/ captured' = captured \cup SoleOutcome("failed", a, action[a].attempts + 1)
<1>1. action[a] \in ActionRows /\ action \in [Actions -> {NoAction} \cup ActionRows]
  BY ExistingRow DEF AnchoringTypeInv, AnchoringTypeOK, ActionRows
<1>2. CASE ClaimAction(a)
  <2>1. PICK n : n = action[a].attempts + 1
    OBVIOUS
  <2>2. PICK r : r = [action[a] EXCEPT !.status = "executing", !.attempts = n]
    OBVIOUS
  <2>3. Update(a, r) /\ ~action[a].final
    BY <1>2, <2>1, <2>2 DEF ClaimAction, Waiting
  <2>4. r.status = "executing" /\ r.attempts = n /\ r.final = action[a].final
    BY <1>1, <2>2 DEF ActionRows
  <2>5. action'[a] = r /\ captured' = captured
    BY <1>1, <2>3, <2>4 DEF Update, Capture
  <2>. QED
    BY <1>2, <2>1, <2>3, <2>4, <2>5
<1>3. CASE Fail(a)
  <2>1. PICK r : r = [action[a] EXCEPT !.status = "failed"]
    OBVIOUS
  <2>2. Update(a, r) /\ action[a].status = "executing"
    BY <1>3, <2>1 DEF Fail
  <2>3. r.status = "failed" /\ r.attempts = action[a].attempts /\ r.final = action[a].final
    BY <1>1, <2>1 DEF ActionRows
  <2>4. action'[a] = r /\ captured' = captured \cup SoleOutcome("failed", a, action[a].attempts)
    BY <1>1, <2>2, <2>3 DEF Update, Capture, SoleOutcome
  <2>. QED
    BY <1>3, <2>3, <2>4
<1>4. CASE Succeed(a)
  <2>1. PICK r : r = [action[a] EXCEPT !.status = "succeeded", !.final = TRUE]
    OBVIOUS
  <2>2. Update(a, r) /\ action[a].status = "executing"
    BY <1>4, <2>1 DEF Succeed
  <2>3. r.status = "succeeded" /\ r.attempts = action[a].attempts
    BY <1>1, <2>1 DEF ActionRows
  <2>4. action'[a] = r /\ captured' = captured \cup SoleOutcome("succeeded", a, action[a].attempts)
    BY <1>1, <2>2, <2>3 DEF Update, Capture, SoleOutcome
  <2>5. ~Fail(a)
    <3>1. action' = [action EXCEPT ![a] = r]
      BY <2>2 DEF Update
    <3>2. Fail(a) => action'[a] = [action[a] EXCEPT !.status = "failed"]
      BY <1>1 DEF Fail, Update
    <3>3. [action[a] EXCEPT !.status = "failed"].status = "failed"
      BY <1>1 DEF ActionRows
    <3>. QED
      BY <2>3, <2>4, <3>2, <3>3
  <2>. QED
    BY <1>4, <2>3, <2>4, <2>5
<1>5. CASE Suppress(a)
  <2>1. PICK n : n = action[a].attempts + 1
    OBVIOUS
  <2>2. PICK r : r = [action[a] EXCEPT !.status = "failed", !.attempts = n, !.final = TRUE]
    OBVIOUS
  <2>3. Update(a, r)
    BY <1>5, <2>1, <2>2 DEF Suppress
  <2>4. r.status = "failed" /\ r.attempts = n /\ r.final
    BY <1>1, <2>2 DEF ActionRows
  <2>5. /\ action'[a] = r
        /\ captured' = captured \/ captured' = captured \cup SoleOutcome("failed", a, n)
    BY <1>1, <2>3, <2>4 DEF Update, Capture, SoleOutcome
  <2>. QED
    BY <1>5, <2>1, <2>4, <2>5
<1>. QED
  BY <1>2, <1>3, <1>4, <1>5

LEMMA OwnAttempt ==
  ASSUME AnchoringTypeInv, AnchoringTypeInv', NEW a \in Actions, Exists(a),
         EarlierFailed(a), LastAttempt(a),
         ClaimAction(a) \/ Fail(a) \/ Succeed(a) \/ Suppress(a)
  PROVE  EarlierFailed(a)' /\ LastAttempt(a)'
<1>. DEFINE k == action[a].attempts
<1>1. action[a] \in ActionRows /\ captured \subseteq Ids
  BY ExistingRow DEF AnchoringTypeInv, AnchoringTypeOK
<1>2. k \in Nat
  BY <1>1, AttemptsAssumption DEF ActionRows
<1>3. ASSUME ClaimAction(a) \/ Suppress(a)
      PROVE  /\ \A e \in captured : e.action = a => e.attempt < k + 1
             /\ \A n \in 1..MaxAttempts : n < k + 1 => Outcomes(a, n) = SoleOutcome("failed", a, n)
             /\ Outcomes(a, k + 1) = {}
  BY <1>3, NextAttempt DEF ClaimAction, Suppress
<1>4. CASE /\ ClaimAction(a) /\ captured' = captured
           /\ action'[a].status = "executing" /\ ~action'[a].final
           /\ action'[a].attempts = k + 1
  <2>1. \A n : Outcomes(a, n)' = Outcomes(a, n)
    BY <1>4 DEF Outcomes
  <2>2. \A e \in captured : e.action = a => e.attempt <= k + 1
    BY <1>1, <1>2, <1>3, <1>4, AttemptOf
  <2>3. EarlierFailed(a)'
    BY <1>3, <1>4, <2>1, <2>2 DEF EarlierFailed, SoleOutcome
  <2>. QED
    BY <1>3, <1>4, <2>1, <2>3 DEF LastAttempt
<1>5. CASE /\ Fail(a) \/ Succeed(a)
           /\ action'[a].status \in {"failed", "succeeded"}
           /\ Fail(a) => action'[a].status = "failed" /\ action'[a].final = action[a].final
           /\ action'[a].attempts = k
           /\ captured' = captured \cup SoleOutcome(action'[a].status, a, k)
  <2>1. action[a].status = "executing"
    BY <1>5 DEF Fail, Succeed
  <2>2. k \in 1..MaxAttempts
    BY <2>1 DEF AnchoringTypeInv, ExecutingIsCounted
  <2>3. Outcomes(a, k) = {} /\ ~action[a].final
    BY <2>1 DEF LastAttempt
  <2>4. Outcomes(a, k)' = SoleOutcome(action'[a].status, a, k)
    BY <1>5, <2>3 DEF Outcomes, SoleOutcome, Id
  <2>5. \A n : n # k => Outcomes(a, n)' = Outcomes(a, n)
    BY <1>5 DEF Outcomes, SoleOutcome, Id
  <2>6. \A e \in captured' : e.action = a => e.attempt <= k
    <3>1. \A e \in SoleOutcome(action'[a].status, a, k) : e.attempt = k
      BY DEF SoleOutcome, Id
    <3>. QED
      BY <1>2, <1>5, <3>1 DEF EarlierFailed
  <2>7. EarlierFailed(a)'
    BY <1>2, <1>5, <2>5, <2>6 DEF EarlierFailed, SoleOutcome
  <2>8. LastAttempt(a)'
    BY <1>5, <2>2, <2>4 DEF LastAttempt, SoleOutcome
  <2>. QED
    BY <2>7, <2>8
<1>6. CASE /\ Suppress(a)
           /\ action'[a].status = "failed" /\ action'[a].final
           /\ action'[a].attempts = k + 1
           /\ \/ captured' = captured
              \/ captured' = captured \cup SoleOutcome("failed", a, k + 1)
  <2>1. PICK S, m : /\ captured' = captured \cup S /\ m = k + 1
                    /\ S = {} \/ S = SoleOutcome("failed", a, m)
    BY <1>6
  <2>2. \A e \in S : e.attempt = m
    BY <2>1 DEF SoleOutcome, Id
  <2>3. \A e \in captured' : e.action = a => e.attempt <= m
    BY <1>1, <1>2, <1>3, <1>6, <2>1, <2>2, AttemptOf
  <2>4. \A n : n # m => Outcomes(a, n)' = Outcomes(a, n)
    BY <2>1, <2>2 DEF Outcomes
  <2>5. Outcomes(a, m)' \subseteq SoleOutcome("failed", a, m)
    <3>1. Outcomes(a, m) = {}
      BY <1>3, <1>6, <2>1
    <3>. QED
      BY <2>1, <3>1 DEF Outcomes
  <2>6. EarlierFailed(a)'
    BY <1>2, <1>3, <1>6, <2>1, <2>3, <2>4 DEF EarlierFailed, SoleOutcome
  <2>7. action'[a].attempts = m /\ m # 0
    BY <1>2, <1>6, <2>1
  <2>8. LastAttempt(a)'
    BY <1>6, <2>5, <2>7 DEF LastAttempt, SoleOutcome
  <2>. QED
    BY <2>6, <2>8
<1>. QED
  BY <1>4, <1>5, <1>6, ActionSteps

LEMMA RequestCounted ==
  ASSUME AnchoringInv, NEW a \in Actions, NEW type \in Types, Request(a, type)
  PROVE  EarlierFailed(a)' /\ LastAttempt(a)'
<1>1. /\ ~Exists(a)
      /\ captured' = captured \cup {Id("requested", a, 0)}
      /\ action' = [action EXCEPT ![a] =
           [type |-> type, attempts |-> 0, final |-> FALSE, status |-> "pending"]]
  BY DEF Request
<1>2. action \in [Actions -> {NoAction} \cup ActionRows]
  BY DEF AnchoringInv, AnchoringTypeInv, AnchoringTypeOK, ActionRows
<1>3. action'[a].attempts = 0 /\ action'[a].status = "pending" /\ ~action'[a].final
  BY <1>1, <1>2
<1>4. \A e \in captured : e.action # a
  BY <1>1 DEF AnchoringInv, CapturedHappened
<1>5. \A e \in captured' : e.action = a => e.attempt = 0
  BY <1>1, <1>4 DEF Id
<1>. QED
  BY <1>3, <1>5 DEF EarlierFailed, LastAttempt

(* A step of one action captures nothing of another.                       *)
LEMMA CapturedOfAction ==
  ASSUME AnchoringTypeInv, NEW a \in Actions, QueueStep(a), NEW b \in Actions, b # a
  PROVE  /\ action'[b] = action[b]
         /\ \A e \in captured' : e.action = b => e \in captured
         /\ \A n : Outcomes(b, n)' = Outcomes(b, n)
<1>1. action \in [Actions -> {NoAction} \cup ActionRows]
  BY DEF AnchoringTypeInv, AnchoringTypeOK, ActionRows
<1>2. /\ captured \subseteq captured'
      /\ \A e \in captured' : e \in captured \/ e.action = a
  <2>1. ASSUME NEW type \in Types, Request(a, type)
        PROVE  \A e \in captured' : e \in captured \/ e.action = a
    BY <2>1 DEF Request, Id
  <2>2. ASSUME ClaimAction(a) \/ Fail(a) \/ Succeed(a) \/ Suppress(a)
        PROVE  \A e \in captured' : e \in captured \/ e.action = a
    <3>1. Exists(a)
      BY <2>2 DEF ClaimAction, Waiting, Fail, Succeed, Suppress
    <3>2. PICK kind, n : captured' = captured \/ captured' = captured \cup SoleOutcome(kind, a, n)
      BY <2>2, <3>1, ActionSteps
    <3>3. \A e \in SoleOutcome(kind, a, n) : e.action = a
      BY DEF SoleOutcome, Id
    <3>4. \A e \in captured' : e \in captured \/ e.action = a
      BY <3>2, <3>3
    <3>. QED
      BY <3>4
  <2>3. \A e \in captured' : e \in captured \/ e.action = a
    BY <2>1, <2>2 DEF QueueStep
  <2>4. captured \subseteq captured'
    BY QueueStepTyped
  <2>. QED
    BY <2>3, <2>4
<1>3. action'[b] = action[b]
  BY <1>1 DEF QueueStep, Request, ClaimAction, Fail, Succeed, Suppress, Update
<1>. QED
  BY <1>2, <1>3 DEF Outcomes

LEMMA AttemptsStep ==
  ASSUME AnchoringInv, AnchoringInv', AttemptsCounted, [AnchoringNext]_anchoringVars
  PROVE  AttemptsCounted'
<1>1. CASE UNCHANGED <<action, captured>>
  BY <1>1 DEF AttemptsCounted, EarlierFailed, LastAttempt, Outcomes, SoleOutcome, Exists
<1>2. ASSUME NEW a \in Actions, QueueStep(a)
      PROVE  AttemptsCounted'
  <2>1. EarlierFailed(a)' /\ LastAttempt(a)'
    <3>1. CASE \E type \in Types : Request(a, type)
      BY <3>1, RequestCounted
    <3>2. CASE ClaimAction(a) \/ Fail(a) \/ Succeed(a) \/ Suppress(a)
      <4>1. Exists(a)
        BY <3>2 DEF ClaimAction, Waiting, Fail, Succeed, Suppress
      <4>. QED
        BY <3>2, <4>1, OwnAttempt DEF AttemptsCounted, AnchoringInv
    <3>. QED
      BY <1>2, <3>1, <3>2 DEF QueueStep
  <2>2. ASSUME NEW b \in Actions, b # a, Exists(b)'
        PROVE  EarlierFailed(b)' /\ LastAttempt(b)'
    <3>1. /\ action'[b] = action[b]
          /\ \A e \in captured' : e.action = b => e \in captured
          /\ \A n : Outcomes(b, n)' = Outcomes(b, n)
      BY <1>2, <2>2, CapturedOfAction DEF AnchoringInv
    <3>2. EarlierFailed(b) /\ LastAttempt(b)
      BY <2>2, <3>1 DEF AttemptsCounted, Exists
    <3>. QED
      BY <2>2, <3>1, <3>2, OthersCounted
  <2>. QED
    BY <2>1, <2>2 DEF AttemptsCounted
<1>. QED
  BY <1>1, <1>2, AnchoringStepKinds DEF EndReplacement, anchoringVars

LEMMA OutcomesAreFew ==
  ASSUME NEW S, NEW x, S \subseteq {x}
  PROVE  Cardinality(S) <= 1
<1>1. CASE S = {}
  BY <1>1, FS_EmptySet
<1>2. CASE S = {x}
  BY <1>2, FS_Singleton
<1>. QED
  BY <1>1, <1>2

LEMMA CountedIsCaptured == AnchoringInv /\ AttemptsCounted => AttemptsCaptured
<1>. SUFFICES ASSUME AnchoringInv, AttemptsCounted, NEW a \in Actions, Exists(a)
     PROVE  LET outcomes(n) == {e \in captured : e.action = a /\ e.attempt = n /\ n > 0}
                held == action[a]
                suppressed == held.final /\ held.status = "failed"
            IN  /\ \A n \in 1..MaxAttempts :
                     /\ Cardinality(outcomes(n)) <= 1
                     /\ outcomes(n) # {} => n <= held.attempts
                     /\ n < held.attempts => outcomes(n) = {Id("failed", a, n)}
                /\ held.status \in {"succeeded", "failed"} /\ ~suppressed =>
                     outcomes(held.attempts) = {Id(held.status, a, held.attempts)}
  BY DEF AttemptsCaptured
<1>. DEFINE outcomes(n) == {e \in captured : e.action = a /\ e.attempt = n /\ n > 0}
            k == action[a].attempts
<1>1. EarlierFailed(a) /\ LastAttempt(a) /\ action[a] \in ActionRows
  BY ExistingRow DEF AttemptsCounted, AnchoringInv
<1>2. k \in Nat /\ (k # 0 => k \in 1..MaxAttempts)
  BY <1>1, AttemptsAssumption DEF ActionRows
<1>3. \A n \in 1..MaxAttempts : outcomes(n) = Outcomes(a, n)
  BY AttemptsAssumption DEF Outcomes
<1>. HIDE DEF outcomes
<1>4. ASSUME NEW n \in 1..MaxAttempts
      PROVE  Outcomes(a, n) # {} => n <= k
  BY <1>1 DEF Outcomes, EarlierFailed
<1>5. ASSUME NEW n \in 1..MaxAttempts
      PROVE  n < k => Outcomes(a, n) = {Id("failed", a, n)}
  BY <1>1 DEF EarlierFailed, SoleOutcome
<1>6. ASSUME NEW n \in 1..MaxAttempts
      PROVE  \E x : Outcomes(a, n) \subseteq {x}
  <2>1. CASE n < k
    BY <1>5, <2>1
  <2>2. CASE n = k
    BY <1>1, <2>2 DEF LastAttempt, SoleOutcome, ActionRows
  <2>3. CASE n > k
    BY <1>2, <1>4, <2>3
  <2>. QED
    BY <1>2, <2>1, <2>2, <2>3
<1>7. \A n \in 1..MaxAttempts : Cardinality(Outcomes(a, n)) <= 1
  BY <1>6, OutcomesAreFew
<1>8. action[a].status \in {"succeeded", "failed"}
        /\ ~(action[a].final /\ action[a].status = "failed") =>
          k # 0 /\ Outcomes(a, k) = {Id(action[a].status, a, k)}
  BY <1>1 DEF LastAttempt, SoleOutcome, ActionRows
<1>9. \A n \in 1..MaxAttempts :
        /\ Cardinality(outcomes(n)) <= 1
        /\ outcomes(n) # {} => n <= k
        /\ n < k => outcomes(n) = {Id("failed", a, n)}
  BY <1>3, <1>4, <1>5, <1>7
<1>10. action[a].status \in {"succeeded", "failed"}
         /\ ~(action[a].final /\ action[a].status = "failed") =>
           outcomes(k) = {Id(action[a].status, a, k)}
  BY <1>2, <1>3, <1>8
<1>. QED
  BY <1>9, <1>10 DEF outcomes

(* Each attempt an execution closed has one outcome in the audit trail,    *)
(* under its number, however claims, retries and suppressions fall         *)
(* (capture_security_action_audit_event).                                  *)
THEOREM OneOutcomePerAttempt == AnchoringSpec => []AttemptsCaptured
<1>1. AnchoringInit => AttemptsCounted
  BY DEF AnchoringInit, AttemptsCounted, Exists
<1>2. AnchoringInv /\ AnchoringInv' /\ AttemptsCounted /\ [AnchoringNext]_anchoringVars
        => AttemptsCounted'
  BY AttemptsStep
<1>. QED
  BY <1>1, <1>2, CountedIsCaptured, AnchoringInvariant, PTL DEF AnchoringSpec
=============================================================================
