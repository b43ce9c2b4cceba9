------------------------ MODULE ProtectedAccessProofs ------------------------
(***************************************************************************)
(* Proofs about protected requests: what a client is served is accounted   *)
(* for, a step-up proof serves one decision, an idempotency key stands for *)
(* one operation, and a decision is recorded under the certificate and on  *)
(* the trust it was taken with, for any number of requests and proofs.     *)
(***************************************************************************)
EXTENDS ProtectedAccess, TLAPS

----------------------------------------------------------------------------
(* The inductive invariant.  What holds of one request is stated of its    *)
(* transaction w, of what was asked q and of its last event e, so that a   *)
(* step that writes one request is a step of these three values.           *)

(* A transaction is open from the receipt of its request until it ends,    *)
(* and nothing of the request is in the tables before it does.             *)
ProcessOK(r, w, q) ==
  /\ w.at = "closed" => w.proof = None /\ w.decision = None /\ ~w.aborted
  /\ w.at # "closed" =>
       /\ q.op \in Operations /\ q.status # "ok" /\ w.result = None
       /\ q.stage = IF w.aborted THEN "answered" ELSE "running"
  /\ w.at # "closed" \/ q.stage = "idle" =>
       decisions[r] = None /\ \A x \in receipts : x.operation # r
  /\ q.stage = "idle" => w = Closed /\ q.status = None
  /\ q.stage = "running" =>
       /\ q.op \in Operations /\ q.status = None
       /\ w.at # "closed" \/ w.result # None
  /\ q.stage = "answered" => w.result = None

(* A presented proof is unspent while the transaction holds it.            *)
ProofOK(w, q) ==
  w.proof # None =>
    /\ mode = "adaptive" /\ q.presents = w.proof
    /\ steps[w.proof].spentBy = None
    /\ w.at \notin {"closed", "connect", "begun", "valid"}

(* Past the policy there is a decision, and it was taken on fresh trust.   *)
DecisionOK(w, q) ==
  /\ w.at \in {"record", "reserve", "rows", "committing", "denying"}
       /\ mode = "adaptive" => w.decision # None
  /\ w.at \in {"trust", "policy", "record", "denying"} => mode = "adaptive"
  /\ w.at = "policy" => w.trust \in Looked
  /\ w.at = "denying" => w.decision.outcome # "ALLOW"
  /\ w.at \in {"reserve", "rows", "committing"} /\ mode = "adaptive" =>
       w.decision.outcome = "ALLOW"
  /\ w.decision # None =>
       /\ mode = "adaptive"
       /\ w.decision.outcome # "DENY" => w.decision.trustAge <= StaleAfter
       /\ w.decision.outcome = "ALLOW" /\ Sensitive(q.op) => w.proof # None

HasReceipt(q, operation) ==
  \E x \in receipts :
    x.op = q.op /\ x.content = q.content /\ x.operation = operation

(* Past the reservation a sensitive operation is new or has its receipt.   *)
ReservationOK(r, w, q) ==
  w.at # "closed" =>
    /\ w.at = "reserve" => Sensitive(q.op)
    /\ w.at \in {"rows", "committing"} /\ Sensitive(q.op) => w.operation # None
    /\ w.operation # None => w.at \in {"rows", "committing"} /\ Sensitive(q.op)
    /\ w.operation = r => \A x \in receipts : x.op # q.op
    /\ w.operation \notin {None, r} => HasReceipt(q, w.operation)

(* The certificate that was validated is locked.                           *)
LockOK(w) ==
  w.at \notin {"closed", "connect", "begun"} =>
    /\ w.validUntil > 0
    /\ certificate.active /\ certificate.version = w.certificate

Accounted(r, q, operation) ==
  /\ mode = "adaptive" => decisions[r] # None /\ decisions[r].outcome = "ALLOW"
  /\ Sensitive(q.op) =>
       /\ HasReceipt(q, operation)
       /\ mode = "adaptive" =>
            q.presents \in Proofs /\ steps[q.presents].spentBy = r

ServedOK(r, w, q, e) ==
  /\ w.result = "served" => Accounted(r, q, w.operation)
  /\ q.status = "ok" => e = "allow" /\ Accounted(r, q, q.operation)

RequestOK(r, w, q, e) ==
  /\ ProcessOK(r, w, q) /\ ProofOK(w, q) /\ DecisionOK(w, q)
  /\ ReservationOK(r, w, q) /\ LockOK(w) /\ ServedOK(r, w, q, e)

RequestsInv == \A r \in Requests : RequestOK(r, work[r], request[r], events[r])

(* No two transactions hold one proof or reserve one key.                  *)
ProofsApart ==
  \A q, r \in Requests :
    q # r /\ work[q].proof = work[r].proof => work[r].proof = None

Reserves(r) == Open(r) /\ work[r].operation = r

KeysApart ==
  \A q, r \in Requests :
    q # r /\ Reserves(q) /\ Reserves(r) => request[q].op # request[r].op

ReceiptsApart == \A x, y \in receipts : x.op = y.op => x = y

TablesInv ==
  ReceiptsApart /\ ProofServesOneDecision /\ DecidedOnFreshTrust

AccessInv ==
  TypeOK /\ RequestsInv /\ ProofsApart /\ KeysApart /\ TablesInv

----------------------------------------------------------------------------
(* Values                                                                  *)

LEMMA Numbers ==
  /\ StateAge \in Nat \ {0} /\ StaleAfter \in Nat \ {0} /\ ProofLife \in Nat \ {0}
  /\ ChallengeLife \in Nat \ {0} /\ MaxTime \in Nat \ {0} /\ MaxChanges \in Nat
BY BoundsAssumption

(* A transaction that was not begun.                                      *)
LEMMA ClosedType ==
  /\ Closed \in Work /\ Closed.at = "closed" /\ Closed.proof = None
  /\ Closed.decision = None /\ Closed.operation = None /\ Closed.result = None
  /\ Closed.aborted = FALSE
BY DEF Closed, Work, Stages

LEMMA RefusedType ==
  ASSUME NEW r
  PROVE  /\ Refused(r) \in Asked /\ [Refused(r) EXCEPT !.status = "timeout"] \in Asked
         /\ Refused(r).stage = "answered" /\ Refused(r).status = "error"
         /\ [Refused(r) EXCEPT !.status = "timeout"].stage = "answered"
         /\ [Refused(r) EXCEPT !.status = "timeout"].status = "timeout"
BY DEF Refused, Idle, Asked, Statuses

(* The row of one request.                                                 *)
LEMMA RowTypes ==
  ASSUME TypeOK, NEW r \in Requests
  PROVE  /\ work[r] \in Work /\ request[r] \in Asked
         /\ events[r] \in {"authenticated", "allow", "deny", None}
         /\ decisions[r] \in Recorded \cup {None}
BY DEF TypeOK

----------------------------------------------------------------------------
(* A step of one request that leaves the tables alone                      *)

(* What holds of another request stays.                                    *)
LEMMA OthersKept ==
  ASSUME AccessInv, NEW p \in Requests,
         UNCHANGED <<mode, tables, certificate>>,
         work'[p] = work[p], request'[p] = request[p], events'[p] = events[p]
  PROVE  RequestOK(p, work[p], request[p], events[p])'
<1>1. RequestOK(p, work[p], request[p], events[p])
  BY DEF AccessInv, RequestsInv
<1>. QED
  BY <1>1
     DEF RequestOK, ProcessOK, ProofOK, DecisionOK, ReservationOK, LockOK, ServedOK,
         Accounted, HasReceipt, tables

LEMMA TablesKept ==
  ASSUME AccessInv, UNCHANGED tables
  PROVE  TablesInv'
BY DEF AccessInv, TablesInv, tables, ReceiptsApart, ProofServesOneDecision,
       DecidedOnFreshTrust

(* The step writes these values for request r and nothing else ...         *)
Writes(r, w, q, e) ==
  /\ work' = [work EXCEPT ![r] = w]
  /\ request' = [request EXCEPT ![r] = q]
  /\ events' = [events EXCEPT ![r] = e]
  /\ UNCHANGED <<now, mode, actor, tables, changes>>

(* ... and the transaction holds neither proof nor key of another one.     *)
HoldsApart(r, w, q) ==
  \A p \in Requests \ {r} :
    /\ w.proof # None => work[p].proof # w.proof
    /\ w.at # "closed" /\ w.operation = r /\ Reserves(p) => request[p].op # q.op

Events == {"authenticated", "allow", "deny", None}

LEMMA RequestStep ==
  ASSUME AccessInv, NEW r \in Requests, NEW w \in Work, NEW q \in Asked,
         NEW e \in Events,
         Writes(r, w, q, e), RequestOK(r, w, q, e), HoldsApart(r, w, q)
  PROVE  AccessInv'
<1>. USE DEF AccessInv, Writes, HoldsApart
<1>1. /\ work'[r] = w /\ request'[r] = q /\ events'[r] = e
      /\ \A p \in Requests \ {r} : /\ work'[p] = work[p] /\ request'[p] = request[p]
                                   /\ events'[p] = events[p]
  BY DEF TypeOK
<1>2. TypeOK'
  BY DEF TypeOK, actor, tables, Events
<1>3. RequestsInv'
  <2>. SUFFICES ASSUME NEW p \in Requests
                PROVE  RequestOK(p, work[p], request[p], events[p])'
    BY DEF RequestsInv
  <2>1. CASE p = r
    BY <1>1, <2>1
       DEF RequestOK, ProcessOK, ProofOK, DecisionOK, ReservationOK, LockOK, ServedOK,
           Accounted, HasReceipt, tables, actor
  <2>2. CASE p # r
    BY <1>1, <2>2, OthersKept DEF actor
  <2>. QED
    BY <2>1, <2>2
<1>4. ProofsApart'
  BY <1>1 DEF ProofsApart
<1>5. KeysApart'
  BY <1>1 DEF KeysApart, Reserves, Open
<1>6. TablesInv'
  BY TablesKept
<1>. QED
  BY <1>2, <1>3, <1>4, <1>5, <1>6

(* A transaction without proof or key, or with the ones it had.            *)
LEMMA ApartKept ==
  ASSUME AccessInv, NEW r \in Requests, NEW w \in Work, NEW q \in Asked,
         w.proof \in {None, work[r].proof},
         w.at = "closed" \/ w.operation # r \/ (Reserves(r) /\ q.op = request[r].op)
  PROVE  HoldsApart(r, w, q)
BY DEF HoldsApart, AccessInv, ProofsApart, KeysApart

(* Only the transaction moves on.                                          *)
LEMMA WorkStep ==
  ASSUME AccessInv, NEW r \in Requests, NEW w \in Work,
         work' = [work EXCEPT ![r] = w],
         UNCHANGED <<now, mode, actor, tables, events, request, changes>>,
         RequestOK(r, w, request[r], events[r]), HoldsApart(r, w, request[r])
  PROVE  AccessInv'
<1>1. TypeOK
  BY DEF AccessInv
<1>2. request[r] \in Asked /\ events[r] \in Events
  BY <1>1, RowTypes DEF Events
<1>3. Writes(r, w, request[r], events[r])
  BY <1>1 DEF Writes, TypeOK
<1>. QED
  BY <1>2, <1>3, RequestStep

----------------------------------------------------------------------------
(* The handler                                                             *)

LEMMA ReceiveStep ==
  ASSUME AccessInv, NEW r \in Requests, ReceiveRequest(r)
  PROVE  AccessInv'
<1>1. PICK op \in Operations, c \in Contents \cup {None}, p \in Proofs \cup {None} :
         request' = [request EXCEPT ![r].stage = "running", ![r].op = op, ![r].content = c,
                                    ![r].presents = p, ![r].requestedAt = now]
  BY DEF ReceiveRequest
<1>. DEFINE w == [work[r] EXCEPT !.at = "connect"]
            q == [request[r] EXCEPT !.stage = "running", !.op = op, !.content = c,
                                    !.presents = p, !.requestedAt = now]
<1>2. /\ work[r] \in Work /\ request[r] \in Asked /\ now \in Nat /\ TypeOK
      /\ request[r].stage = "idle"
      /\ RequestOK(r, work[r], request[r], events[r])
  BY RowTypes DEF AccessInv, TypeOK, RequestsInv, ReceiveRequest
<1>3. work[r] = Closed /\ request[r].status = None /\ decisions[r] = None
      /\ \A x \in receipts : x.operation # r
  BY <1>2 DEF RequestOK, ProcessOK
<1>4. /\ w \in Work /\ w.at = "connect" /\ w.proof = None /\ w.decision = None
      /\ w.operation = None /\ w.result = None /\ w.aborted = FALSE
  BY <1>2, <1>3, ClosedType DEF Work, Stages
<1>5. /\ q \in Asked /\ q.stage = "running" /\ q.op = op /\ q.status = None
  BY <1>2, <1>3 DEF Asked
<1>6. Writes(r, w, q, "authenticated")
  BY <1>1, <1>2 DEF ReceiveRequest, TypeOK, Writes
<1>. HIDE DEF w, q
<1>7. RequestOK(r, w, q, "authenticated")
  BY <1>3, <1>4, <1>5, NoneAssumption
     DEF RequestOK, ProcessOK, ProofOK, DecisionOK, ReservationOK, LockOK, ServedOK,
         Statuses, Results
<1>8. HoldsApart(r, w, q)
  BY <1>4, <1>5, NoneAssumption, ApartKept
<1>. QED
  BY <1>4, <1>5, <1>6, <1>7, <1>8, RequestStep DEF Events

(* What holds of a request that was answered with an error.                *)
LEMMA AnsweredOK ==
  ASSUME NEW r, NEW q, NEW e, q.stage = "answered", q.status # "ok"
  PROVE  RequestOK(r, Closed, q, e)
BY ClosedType, NoneAssumption
   DEF RequestOK, ProcessOK, ProofOK, DecisionOK, ReservationOK, LockOK, ServedOK,
       Results

LEMMA RefuseStep ==
  ASSUME AccessInv, NEW r \in Requests, RefuseRequest(r)
  PROVE  AccessInv'
<1>. DEFINE q == Refused(r)
<1>1. /\ work[r] \in Work /\ TypeOK /\ request[r].stage = "idle"
      /\ RequestOK(r, work[r], request[r], events[r])
  BY RowTypes DEF AccessInv, RequestsInv, RefuseRequest
<1>2. work[r] = Closed
  BY <1>1 DEF RequestOK, ProcessOK
<1>3. /\ q \in Asked /\ q.stage = "answered" /\ q.status = "error"
  BY RefusedType
<1>4. PICK e \in {events[r], "deny"} : events' = [events EXCEPT ![r] = e]
  BY <1>1 DEF RefuseRequest, TypeOK
<1>5. e \in Events
  BY <1>1, <1>4, RowTypes DEF Events
<1>6. Writes(r, Closed, q, e)
  BY <1>1, <1>2, <1>4 DEF RefuseRequest, TypeOK, Writes
<1>. HIDE DEF q
<1>7. RequestOK(r, Closed, q, e) /\ HoldsApart(r, Closed, q)
  BY <1>3, ClosedType, AnsweredOK, ApartKept
<1>. QED
  BY <1>3, <1>5, <1>6, <1>7, ClosedType, RequestStep

(* A client is told 200 only for what its transaction has accounted for.   *)
LEMMA AnswerStep ==
  ASSUME AccessInv, NEW r \in Requests, AnswerRequest(r)
  PROVE  AccessInv'
<1>1. /\ work[r] \in Work /\ request[r] \in Asked /\ TypeOK
      /\ request[r].stage = "running"
      /\ RequestOK(r, work[r], request[r], events[r])
  BY RowTypes DEF AccessInv, RequestsInv, AnswerRequest
<1>2. work' = [work EXCEPT ![r] = Closed] /\ UNCHANGED <<now, mode, actor, tables, changes>>
  BY DEF AnswerRequest
<1>3. CASE /\ work[r].result = "served"
           /\ events' = [events EXCEPT ![r] = "allow"]
           /\ request' = [request EXCEPT ![r].stage = "answered", ![r].status = "ok",
                                         ![r].operation = work[r].operation]
  <2>. DEFINE q == [request[r] EXCEPT !.stage = "answered", !.status = "ok",
                                      !.operation = work[r].operation]
  <2>1. /\ q \in Asked /\ q.stage = "answered" /\ q.operation = work[r].operation
        /\ q.op = request[r].op /\ q.content = request[r].content
        /\ q.presents = request[r].presents
    BY <1>1 DEF Asked, Statuses, Work
  <2>2. Writes(r, Closed, q, "allow")
    BY <1>1, <1>2, <1>3 DEF TypeOK, Writes
  <2>. HIDE DEF q
  <2>3. Accounted(r, q, q.operation)
    BY <1>1, <1>3, <2>1 DEF RequestOK, ServedOK, Accounted, HasReceipt
  <2>4. RequestOK(r, Closed, q, "allow")
    BY <2>1, <2>3, ClosedType, NoneAssumption
       DEF RequestOK, ProcessOK, ProofOK, DecisionOK, ReservationOK, LockOK, ServedOK,
           Results
  <2>. QED
    BY <2>1, <2>2, <2>4, ClosedType, ApartKept, RequestStep DEF Events
<1>4. ASSUME NEW e \in {"authenticated", "deny", events[r]},
             events' = [events EXCEPT ![r] = e],
             request' = [request EXCEPT ![r] = Refused(r)]
      PROVE  AccessInv'
  <2>. DEFINE q == Refused(r)
  <2>1. /\ q \in Asked /\ q.stage = "answered" /\ q.status = "error"
    BY RefusedType
  <2>2. e \in Events
    BY <1>1, <1>4, RowTypes DEF Events
  <2>3. Writes(r, Closed, q, e)
    BY <1>2, <1>4 DEF Writes
  <2>. HIDE DEF q
  <2>4. RequestOK(r, Closed, q, e) /\ HoldsApart(r, Closed, q)
    BY <2>1, ClosedType, AnsweredOK, ApartKept
  <2>. QED
    BY <2>1, <2>2, <2>3, <2>4, ClosedType, RequestStep
<1>5. events' = events => events' = [events EXCEPT ![r] = events[r]]
  BY <1>1 DEF TypeOK
<1>. QED
  BY <1>3, <1>4, <1>5 DEF AnswerRequest, DenialEvent

LEMMA TimeoutStep ==
  ASSUME AccessInv, NEW r \in Requests, RequestTimeout(r)
  PROVE  AccessInv'
<1>. DEFINE w == [work[r] EXCEPT !.aborted = TRUE]
            q == [request[r] EXCEPT !.stage = "answered", !.status = "timeout"]
<1>1. /\ work[r] \in Work /\ request[r] \in Asked /\ TypeOK
      /\ request[r].stage = "running" /\ work[r].result = None
      /\ RequestOK(r, work[r], request[r], events[r])
  BY RowTypes DEF AccessInv, RequestsInv, RequestTimeout
<1>2. work[r].at # "closed"
  BY <1>1 DEF RequestOK, ProcessOK
<1>3. /\ w \in Work /\ w.at = work[r].at /\ w.proof = work[r].proof
      /\ w.decision = work[r].decision /\ w.operation = work[r].operation
      /\ w.result = work[r].result /\ w.aborted = TRUE
      /\ w.validUntil = work[r].validUntil /\ w.certificate = work[r].certificate
      /\ w.trust = work[r].trust
  BY <1>1 DEF Work
<1>4. /\ q \in Asked /\ q.stage = "answered" /\ q.status = "timeout"
      /\ q.op = request[r].op /\ q.content = request[r].content
      /\ q.presents = request[r].presents
  BY <1>1 DEF Asked, Statuses
<1>5. PICK e \in {"authenticated", "deny"} : events' = [events EXCEPT ![r] = e]
  BY DEF RequestTimeout, DenialEvent
<1>6. Writes(r, w, q, e)
  BY <1>1, <1>5 DEF RequestTimeout, TypeOK, Writes
<1>. HIDE DEF w, q
<1>7. RequestOK(r, w, q, e)
  BY <1>1, <1>2, <1>3, <1>4
     DEF RequestOK, ProcessOK, ProofOK, DecisionOK, ReservationOK, LockOK, ServedOK,
         Accounted, HasReceipt
<1>8. HoldsApart(r, w, q)
  BY <1>1, <1>3, <1>4, ApartKept DEF Reserves, Open
<1>. QED
  BY <1>3, <1>4, <1>5, <1>6, <1>7, <1>8, RequestStep DEF Events

----------------------------------------------------------------------------
(* The transaction                                                         *)

LEMMA RowFacts ==
  ASSUME AccessInv, NEW r \in Requests
  PROVE  /\ TypeOK /\ work[r] \in Work /\ request[r] \in Asked
         /\ RequestOK(r, work[r], request[r], events[r])
BY RowTypes DEF AccessInv, RequestsInv

LEMMA OpenStep ==
  ASSUME AccessInv, NEW r \in Requests, OpenTransaction(r)
  PROVE  AccessInv'
<1>. DEFINE w == [work[r] EXCEPT !.at = "begun", !.admin = authority.admin,
                                 !.version = authority.version]
<1>1. /\ TypeOK /\ work[r] \in Work /\ request[r] \in Asked /\ work[r].at = "connect"
      /\ RequestOK(r, work[r], request[r], events[r])
  BY RowFacts DEF OpenTransaction
<1>2. /\ w \in Work /\ w.at = "begun" /\ w.proof = work[r].proof
      /\ w.decision = work[r].decision /\ w.operation = work[r].operation
      /\ w.result = work[r].result /\ w.aborted = work[r].aborted
  BY <1>1 DEF TypeOK, Work, Stages
<1>3. work' = [work EXCEPT ![r] = w]
  BY <1>1 DEF OpenTransaction, TypeOK
<1>. HIDE DEF w
<1>4. RequestOK(r, w, request[r], events[r])
  BY <1>1, <1>2
     DEF RequestOK, ProcessOK, ProofOK, DecisionOK, ReservationOK, LockOK, ServedOK
<1>5. HoldsApart(r, w, request[r])
  BY <1>1, <1>2, ApartKept DEF Reserves, Open
<1>. QED
  BY <1>2, <1>3, <1>4, <1>5, WorkStep DEF OpenTransaction

LEMMA ValidateStep ==
  ASSUME AccessInv, NEW r \in Requests, ValidateState(r)
  PROVE  AccessInv'
<1>. DEFINE w == [work[r] EXCEPT !.at = "valid", !.certificate = certificate.version,
                                 !.validUntil = now + StateAge]
<1>1. /\ TypeOK /\ work[r] \in Work /\ request[r] \in Asked /\ work[r].at = "begun"
      /\ RequestOK(r, work[r], request[r], events[r])
  BY RowFacts DEF ValidateState
<1>2. /\ w \in Work /\ w.at = "valid" /\ w.proof = work[r].proof
      /\ w.decision = work[r].decision /\ w.operation = work[r].operation
      /\ w.result = work[r].result /\ w.aborted = work[r].aborted
      /\ w.certificate = certificate.version /\ w.validUntil > 0
  <2>1. now + StateAge \in Nat /\ now + StateAge > 0 /\ certificate.version \in Nat
    BY <1>1, Numbers DEF TypeOK
  <2>. QED
    BY <1>1, <2>1 DEF Work, Stages
<1>3. work' = [work EXCEPT ![r] = w] /\ certificate.active
  BY <1>1 DEF ValidateState, StatusAccepted, TypeOK
<1>. HIDE DEF w
<1>4. RequestOK(r, w, request[r], events[r])
  BY <1>1, <1>2, <1>3
     DEF RequestOK, ProcessOK, ProofOK, DecisionOK, ReservationOK, LockOK, ServedOK
<1>5. HoldsApart(r, w, request[r])
  BY <1>1, <1>2, ApartKept DEF Reserves, Open
<1>. QED
  BY <1>2, <1>3, <1>4, <1>5, WorkStep DEF ValidateState

(* The only step that takes a proof takes one nobody else holds.           *)
LEMMA AuthorizeStep ==
  ASSUME AccessInv, NEW r \in Requests, Authorize(r)
  PROVE  AccessInv'
<1>1. /\ TypeOK /\ work[r] \in Work /\ request[r] \in Asked /\ work[r].at = "valid"
      /\ RequestOK(r, work[r], request[r], events[r])
  BY RowFacts DEF Authorize
<1>2. work[r].operation = None /\ work[r].proof = None
  BY <1>1 DEF RequestOK, ProofOK, ProcessOK, ReservationOK
<1>3. CASE /\ mode = "baseline"
           /\ work' = [work EXCEPT ![r].at =
                         IF Sensitive(request[r].op) THEN "reserve" ELSE "rows"]
  <2>. DEFINE w == [work[r] EXCEPT !.at =
                      IF Sensitive(request[r].op) THEN "reserve" ELSE "rows"]
  <2>1. /\ w \in Work /\ w.proof = None
        /\ w.at = IF Sensitive(request[r].op) THEN "reserve" ELSE "rows"
        /\ w.decision = work[r].decision /\ w.operation = None
        /\ w.result = work[r].result /\ w.aborted = work[r].aborted
        /\ w.certificate = work[r].certificate /\ w.validUntil = work[r].validUntil
    BY <1>1, <1>2 DEF Work, Stages
  <2>2. work' = [work EXCEPT ![r] = w]
    BY <1>1, <1>3 DEF TypeOK
  <2>. HIDE DEF w
  <2>3. RequestOK(r, w, request[r], events[r])
    BY <1>1, <1>3, <2>1, NoneAssumption
       DEF RequestOK, ProcessOK, ProofOK, DecisionOK, ReservationOK, LockOK, ServedOK
  <2>4. HoldsApart(r, w, request[r])
    BY <1>1, <2>1, NoneAssumption, ApartKept
  <2>. QED
    BY <2>1, <2>2, <2>3, <2>4, WorkStep DEF Authorize
<1>4. CASE /\ mode = "adaptive"
           /\ work' = [work EXCEPT ![r].at = "trust"]
  <2>. DEFINE w == [work[r] EXCEPT !.at = "trust"]
  <2>1. /\ w \in Work /\ w.proof = None /\ w.at = "trust"
        /\ w.decision = work[r].decision /\ w.operation = None
        /\ w.result = work[r].result /\ w.aborted = work[r].aborted
        /\ w.certificate = work[r].certificate /\ w.validUntil = work[r].validUntil
    BY <1>1, <1>2 DEF Work, Stages
  <2>2. work' = [work EXCEPT ![r] = w]
    BY <1>1, <1>4 DEF TypeOK
  <2>. HIDE DEF w
  <2>3. RequestOK(r, w, request[r], events[r])
    BY <1>1, <1>4, <2>1, NoneAssumption
       DEF RequestOK, ProcessOK, ProofOK, DecisionOK, ReservationOK, LockOK, ServedOK
  <2>4. HoldsApart(r, w, request[r])
    BY <1>1, <2>1, NoneAssumption, ApartKept
  <2>. QED
    BY <2>1, <2>2, <2>3, <2>4, WorkStep DEF Authorize
<1>5. CASE /\ mode = "adaptive" /\ request[r].presents # None
           /\ ProofFree(request[r].presents)
           /\ work' = [work EXCEPT ![r].at = "trust", ![r].proof = request[r].presents]
  <2>. DEFINE w == [work[r] EXCEPT !.at = "trust", !.proof = request[r].presents]
  <2>1. /\ w \in Work /\ w.proof = request[r].presents /\ w.at = "trust"
        /\ w.decision = work[r].decision /\ w.operation = None
        /\ w.result = work[r].result /\ w.aborted = work[r].aborted
        /\ w.certificate = work[r].certificate /\ w.validUntil = work[r].validUntil
    BY <1>1, <1>2 DEF Work, Asked, Stages
  <2>2. work' = [work EXCEPT ![r] = w]
    BY <1>1, <1>5 DEF TypeOK
  <2>3. /\ steps[request[r].presents].spentBy = None
        /\ \A p \in Requests : work[p].proof # request[r].presents
    BY <1>5 DEF ProofFree
  <2>. HIDE DEF w
  <2>4. RequestOK(r, w, request[r], events[r])
    BY <1>1, <1>5, <2>1, <2>3, NoneAssumption
       DEF RequestOK, ProcessOK, ProofOK, DecisionOK, ReservationOK, LockOK, ServedOK
  <2>5. HoldsApart(r, w, request[r])
    BY <2>1, <2>3, NoneAssumption DEF HoldsApart
  <2>. QED
    BY <2>1, <2>2, <2>4, <2>5, WorkStep DEF Authorize
<1>. QED
  BY <1>3, <1>4, <1>5 DEF Authorize

LEMMA LookupStep ==
  ASSUME AccessInv, NEW r \in Requests, LookupTrust(r)
  PROVE  AccessInv'
<1>. DEFINE w == [work[r] EXCEPT !.at = "policy", !.trust = TrustView]
<1>1. /\ TypeOK /\ work[r] \in Work /\ request[r] \in Asked /\ work[r].at = "trust"
      /\ RequestOK(r, work[r], request[r], events[r])
  BY RowFacts DEF LookupTrust
<1>2. TrustView \in Looked
  BY <1>1, Numbers DEF TypeOK, TrustView, Looked, Fresh
<1>3. /\ w \in Work /\ w.at = "policy" /\ w.proof = work[r].proof
      /\ w.decision = work[r].decision /\ w.operation = work[r].operation
      /\ w.result = work[r].result /\ w.aborted = work[r].aborted
      /\ w.certificate = work[r].certificate /\ w.validUntil = work[r].validUntil
      /\ w.trust = TrustView
  BY <1>1, <1>2 DEF Work, Stages
<1>4. work' = [work EXCEPT ![r] = w]
  BY <1>1 DEF LookupTrust, TypeOK
<1>. HIDE DEF w
<1>5. RequestOK(r, w, request[r], events[r])
  BY <1>1, <1>2, <1>3
     DEF RequestOK, ProcessOK, ProofOK, DecisionOK, ReservationOK, LockOK, ServedOK
<1>6. HoldsApart(r, w, request[r])
  BY <1>1, <1>3, ApartKept DEF Reserves, Open
<1>. QED
  BY <1>3, <1>4, <1>5, <1>6, WorkStep DEF LookupTrust

(* The policy allows a sensitive operation only with a proof, and anything *)
(* but a denial only for a score that was fresh at the lookup.             *)
LEMMA PolicyOutcomes ==
  ASSUME NEW r \in Requests, NEW t \in Looked, NEW p
  PROVE  /\ PolicyOutcome(r, t, p) \in Outcomes
         /\ PolicyOutcome(r, t, p) # "DENY" => t.fresh
         /\ PolicyOutcome(r, t, p) = "ALLOW" /\ Sensitive(request[r].op) => p # None
<1>1. t.fresh \in BOOLEAN /\ t.band \in Bands
  BY DEF Looked
<1>2. CASE ~t.fresh
  BY <1>2 DEF PolicyOutcome, Outcomes
<1>3. CASE t.fresh /\ t.band = "quarantine"
  BY <1>3 DEF PolicyOutcome, Outcomes
<1>4. CASE t.fresh /\ t.band = "low"
  BY <1>4 DEF PolicyOutcome, Outcomes
<1>5. CASE t.fresh /\ t.band = "good"
  BY <1>5 DEF PolicyOutcome, Outcomes, ProofAccepted
<1>. QED
  BY <1>1, <1>2, <1>3, <1>4, <1>5 DEF Bands

LEMMA PolicyStep ==
  ASSUME AccessInv, NEW r \in Requests, PolicyDecides(r)
  PROVE  AccessInv'
<1>. DEFINE d == [outcome |-> PolicyOutcome(r, work[r].trust, work[r].proof),
                  trustAge |-> now - work[r].trust.at]
            w == [work[r] EXCEPT !.at = "record", !.decision = d]
<1>1. /\ TypeOK /\ work[r] \in Work /\ request[r] \in Asked /\ work[r].at = "policy"
      /\ RequestOK(r, work[r], request[r], events[r])
      /\ TrustRemainsFresh(work[r].trust)
  BY RowFacts DEF PolicyDecides
<1>2. /\ now \in Nat /\ work[r].trust \in Looked /\ mode = "adaptive"
      /\ work[r].operation = None
  BY <1>1 DEF TypeOK, RequestOK, ProcessOK, DecisionOK, ReservationOK
<1>3. /\ d.outcome \in Outcomes /\ d.trustAge \in Int /\ d \in Decision
      /\ d.outcome # "DENY" => d.trustAge <= StaleAfter
      /\ d.outcome = "ALLOW" /\ Sensitive(request[r].op) => work[r].proof # None
  <2>1. work[r].trust.at \in Nat
    BY <1>2 DEF Looked
  <2>2. d.outcome # "DENY" => work[r].trust.fresh
    BY <1>2, PolicyOutcomes
  <2>3. d.outcome # "DENY" => now - work[r].trust.at <= StaleAfter
    BY <1>1, <2>2 DEF TrustRemainsFresh
  <2>. QED
    BY <1>2, <2>1, <2>3, PolicyOutcomes DEF Decision
<1>4. work' = [work EXCEPT ![r] = w]
  BY <1>1 DEF PolicyDecides, TypeOK
<1>. HIDE DEF d
<1>5. /\ w \in Work /\ w.at = "record" /\ w.proof = work[r].proof
      /\ w.decision = d /\ w.operation = work[r].operation
      /\ w.result = work[r].result /\ w.aborted = work[r].aborted
      /\ w.certificate = work[r].certificate /\ w.validUntil = work[r].validUntil
  BY <1>1, <1>3 DEF Work, Stages
<1>6. d # None
  BY <1>3, NoneAssumption
<1>. HIDE DEF w
<1>7. RequestOK(r, w, request[r], events[r])
  BY <1>1, <1>2, <1>3, <1>5, <1>6
     DEF RequestOK, ProcessOK, ProofOK, DecisionOK, ReservationOK, LockOK, ServedOK
<1>8. HoldsApart(r, w, request[r])
  BY <1>1, <1>2, <1>5, NoneAssumption, ApartKept
<1>. QED
  BY <1>4, <1>5, <1>7, <1>8, WorkStep DEF PolicyDecides

LEMMA RecordStep ==
  ASSUME AccessInv, NEW r \in Requests, RecordDecision(r)
  PROVE  AccessInv'
<1>. DEFINE at == IF work[r].decision.outcome # "ALLOW" THEN "denying"
                  ELSE IF Sensitive(request[r].op) THEN "reserve" ELSE "rows"
            w == [work[r] EXCEPT !.at = at]
<1>1. /\ TypeOK /\ work[r] \in Work /\ request[r] \in Asked /\ work[r].at = "record"
      /\ RequestOK(r, work[r], request[r], events[r])
  BY RowFacts DEF RecordDecision
<1>2. /\ w \in Work /\ w.at = at /\ w.proof = work[r].proof
      /\ w.decision = work[r].decision /\ w.operation = work[r].operation
      /\ w.result = work[r].result /\ w.aborted = work[r].aborted
      /\ w.certificate = work[r].certificate /\ w.validUntil = work[r].validUntil
  BY <1>1 DEF Work, Stages
<1>3. work' = [work EXCEPT ![r] = w]
  BY <1>1 DEF RecordDecision, TypeOK
<1>4. work[r].operation = None
  BY <1>1 DEF RequestOK, ReservationOK
<1>. HIDE DEF w
<1>5. RequestOK(r, w, request[r], events[r])
  BY <1>1, <1>2, <1>4, NoneAssumption
     DEF RequestOK, ProcessOK, ProofOK, DecisionOK, ReservationOK, LockOK, ServedOK
<1>6. HoldsApart(r, w, request[r])
  BY <1>1, <1>2, <1>4, NoneAssumption, ApartKept
<1>. QED
  BY <1>2, <1>3, <1>5, <1>6, WorkStep DEF RecordDecision

(* A new key is reserved only when no open transaction has reserved it and *)
(* no receipt of it is in the table.                                       *)
LEMMA ReserveStep ==
  ASSUME AccessInv, NEW r \in Requests, Reserve(r)
  PROVE  AccessInv'
<1>1. /\ TypeOK /\ work[r] \in Work /\ request[r] \in Asked /\ work[r].at = "reserve"
      /\ RequestOK(r, work[r], request[r], events[r]) /\ ~work[r].aborted
      /\ ~ReceiptPending(request[r].op)
      /\ UNCHANGED <<now, mode, actor, tables, events, request, changes>>
  BY RowFacts DEF Reserve, MayQuery
<1>2. ASSUME NEW operation \in Requests, Sensitive(request[r].op),
             work' = [work EXCEPT ![r].at = "rows", ![r].operation = operation],
             operation = r => ReceiptsFor(request[r].op) = {},
             operation # r => HasReceipt(request[r], operation)
      PROVE  AccessInv'
  <2>. DEFINE w == [work[r] EXCEPT !.at = "rows", !.operation = operation]
  <2>1. /\ w \in Work /\ w.at = "rows" /\ w.proof = work[r].proof
        /\ w.decision = work[r].decision /\ w.operation = operation
        /\ w.result = work[r].result /\ w.aborted = work[r].aborted
        /\ w.certificate = work[r].certificate /\ w.validUntil = work[r].validUntil
    BY <1>1 DEF Work, Stages
  <2>2. work' = [work EXCEPT ![r] = w]
    BY <1>1, <1>2 DEF TypeOK
  <2>3. operation # None
    BY NoneAssumption
  <2>4. operation = r => \A x \in receipts : x.op # request[r].op
    BY <1>2 DEF ReceiptsFor
  <2>. HIDE DEF w
  <2>5. RequestOK(r, w, request[r], events[r])
    <3>1. ReservationOK(r, w, request[r])
      BY <1>2, <2>1, <2>3, <2>4 DEF ReservationOK
    <3>. QED
      BY <1>1, <2>1, <3>1, NoneAssumption
         DEF RequestOK, ProcessOK, ProofOK, DecisionOK, LockOK, ServedOK, Results
  <2>6. \A p \in Requests \ {r} : Reserves(p) => request[p].op # request[r].op
    BY <1>1 DEF ReceiptPending, Reserves
  <2>7. HoldsApart(r, w, request[r])
    BY <2>1, <2>6 DEF HoldsApart, AccessInv, ProofsApart
  <2>. QED
    BY <1>1, <2>1, <2>2, <2>5, <2>7, WorkStep
<1>3. ASSUME work' = [work EXCEPT ![r] = Ended(r, "conflict", None)]
      PROVE  AccessInv'
  <2>. DEFINE w == Ended(r, "conflict", None)
  <2>0. w = Ended(r, "conflict", None)
    OBVIOUS
  <2>. HIDE DEF w
  <2>1. /\ w \in Work /\ w.at = "closed" /\ w.proof = None /\ w.decision = None
        /\ w.aborted = FALSE /\ w.result = "conflict" /\ w.operation = None
    BY <1>1, <2>0 DEF Ended, Closed, Work, Stages, Results
  <2>2. RequestOK(r, w, request[r], events[r])
    BY <1>1, <2>1, NoneAssumption
       DEF RequestOK, ProcessOK, ProofOK, DecisionOK, ReservationOK, LockOK, ServedOK,
           Results
  <2>3. HoldsApart(r, w, request[r])
    BY <1>1, <2>1, ApartKept
  <2>4. work' = [work EXCEPT ![r] = w]
    BY <1>3, <2>0
  <2>. QED
    BY <1>1, <2>1, <2>2, <2>3, <2>4, WorkStep
<1>4. Sensitive(request[r].op)
  BY <1>1 DEF RequestOK, ReservationOK
<1>5. CASE /\ ReceiptsFor(request[r].op) = {}
           /\ work' = [work EXCEPT ![r].at = "rows", ![r].operation = r]
  BY <1>2, <1>4, <1>5
<1>6. ASSUME NEW known \in ReceiptsFor(request[r].op),
             work' = IF known.content # request[r].content
                     THEN [work EXCEPT ![r] = Ended(r, "conflict", None)]
                     ELSE [work EXCEPT ![r].at = "rows", ![r].operation = known.operation]
      PROVE  AccessInv'
  <2>1. known \in receipts /\ known.op = request[r].op /\ known.operation \in Requests
    BY <1>1 DEF ReceiptsFor, TypeOK, Receipt
  <2>2. known.operation # r
    BY <1>1, <2>1 DEF RequestOK, ProcessOK
  <2>3. CASE known.content # request[r].content
    BY <1>3, <1>6, <2>3
  <2>4. CASE known.content = request[r].content
    <3>1. HasReceipt(request[r], known.operation)
      BY <2>1, <2>4 DEF HasReceipt
    <3>. QED
      BY <1>2, <1>4, <1>6, <2>1, <2>2, <2>4, <3>1
  <2>. QED
    BY <2>3, <2>4
<1>. QED
  BY <1>5, <1>6 DEF Reserve

LEMMA ReadStep ==
  ASSUME AccessInv, NEW r \in Requests, ReadRows(r)
  PROVE  AccessInv'
<1>. DEFINE w == [work[r] EXCEPT !.at = "committing"]
<1>1. /\ TypeOK /\ work[r] \in Work /\ request[r] \in Asked /\ work[r].at = "rows"
      /\ RequestOK(r, work[r], request[r], events[r])
  BY RowFacts DEF ReadRows
<1>2. /\ w \in Work /\ w.at = "committing" /\ w.proof = work[r].proof
      /\ w.decision = work[r].decision /\ w.operation = work[r].operation
      /\ w.result = work[r].result /\ w.aborted = work[r].aborted
      /\ w.certificate = work[r].certificate /\ w.validUntil = work[r].validUntil
  BY <1>1 DEF Work, Stages
<1>3. work' = [work EXCEPT ![r] = w]
  BY <1>1 DEF ReadRows, TypeOK
<1>. HIDE DEF w
<1>4. RequestOK(r, w, request[r], events[r])
  BY <1>1, <1>2
     DEF RequestOK, ProcessOK, ProofOK, DecisionOK, ReservationOK, LockOK, ServedOK
<1>5. HoldsApart(r, w, request[r])
  BY <1>1, <1>2, ApartKept DEF Reserves, Open
<1>. QED
  BY <1>2, <1>3, <1>4, <1>5, WorkStep DEF ReadRows

(* A transaction that rolls back leaves nothing.                           *)
LEMMA FailStep ==
  ASSUME AccessInv, NEW r \in Requests, Fail(r)
  PROVE  AccessInv'
<1>1. /\ TypeOK /\ work[r] \in Work /\ request[r] \in Asked /\ events[r] \in Events
      /\ RequestOK(r, work[r], request[r], events[r]) /\ work[r].at # "closed"
      /\ work[r].aborted \in BOOLEAN
  BY RowFacts, RowTypes DEF Fail, Open, Work, Events
<1>2. PICK result \in {"denied", "unavailable"} :
         work' = [work EXCEPT ![r] = Ended(r, result, None)]
  BY DEF Fail
<1>. DEFINE w == Ended(r, result, None)
<1>9. w = Ended(r, result, None)
  OBVIOUS
<1>. HIDE DEF w
<1>. DEFINE q == IF work[r].aborted THEN [Refused(r) EXCEPT !.status = "timeout"]
                 ELSE request[r]
<1>3. /\ w \in Work /\ w.at = "closed" /\ w.proof = None /\ w.decision = None
      /\ w.aborted = FALSE
      /\ work[r].aborted => w = Closed
      /\ ~work[r].aborted => w.result = result /\ w.operation = None
  BY <1>1, <1>9 DEF Ended, Closed, Work, Stages, Results
<1>4. /\ q \in Asked
      /\ work[r].aborted => q.stage = "answered" /\ q.status = "timeout"
      /\ ~work[r].aborted => q = request[r]
  BY <1>1, RefusedType
<1>5. Writes(r, w, q, events[r])
  BY <1>1, <1>2, <1>9 DEF Fail, Forgotten, TypeOK, Writes
<1>. HIDE DEF q
<1>6. RequestOK(r, w, q, events[r])
  <2>1. CASE work[r].aborted
    BY <1>3, <1>4, <2>1, AnsweredOK
  <2>2. CASE ~work[r].aborted
    BY <1>1, <1>3, <1>4, <2>2, NoneAssumption
       DEF RequestOK, ProcessOK, ProofOK, DecisionOK, ReservationOK, LockOK, ServedOK,
           Results
  <2>. QED
    BY <2>1, <2>2
<1>7. HoldsApart(r, w, q)
  BY <1>3, <1>4, ApartKept
<1>. QED
  BY <1>1, <1>3, <1>4, <1>5, <1>6, <1>7, RequestStep

----------------------------------------------------------------------------
(* The commit                                                              *)

(* What a committing transaction knows.                                    *)
LEMMA Committing ==
  ASSUME AccessInv, NEW r \in Requests, work[r].at \in {"committing", "denying"}
  PROVE  /\ Open(r) /\ decisions[r] = None /\ request[r].op \in Operations
         /\ \A x \in receipts : x.operation # r
         /\ mode = "adaptive" <=> work[r].decision # None
         /\ work[r].decision # None =>
              /\ work[r].decision \in Decision
              /\ work[r].decision.outcome # "DENY" => work[r].decision.trustAge <= StaleAfter
              /\ work[r].at = "committing" => work[r].decision.outcome = "ALLOW"
              /\ work[r].decision.outcome = "ALLOW" /\ Sensitive(request[r].op) =>
                   work[r].proof # None
         /\ work[r].proof # None =>
              /\ work[r].proof \in Proofs /\ work[r].decision # None
              /\ request[r].presents = work[r].proof
              /\ steps[work[r].proof].spentBy = None
         /\ work[r].at = "committing" /\ Sensitive(request[r].op) => work[r].operation # None
         /\ work[r].operation = r => \A x \in receipts : x.op # request[r].op
         /\ work[r].operation \notin {None, r} => HasReceipt(request[r], work[r].operation)
<1>1. /\ TypeOK /\ work[r] \in Work /\ request[r] \in Asked
      /\ RequestOK(r, work[r], request[r], events[r])
  BY RowFacts
<1>2. work[r].decision \in Decision \cup {None} /\ work[r].proof \in Proofs \cup {None}
  BY <1>1 DEF Work
<1>. QED
  BY <1>1, <1>2
     DEF RequestOK, ProcessOK, ProofOK, DecisionOK, ReservationOK, Open

(* The row of the decision has what the decision was taken for.            *)
LEMMA ProvenanceRow ==
  ASSUME NEW r \in Requests, work[r] \in Work
  PROVE  /\ Provenance(r) \in Recorded \cup {None}
         /\ Provenance(r) # None <=> work[r].decision # None
         /\ Provenance(r) # None =>
              /\ Provenance(r).outcome = work[r].decision.outcome
              /\ Provenance(r).trustAge = work[r].decision.trustAge
              /\ Provenance(r).certificate = work[r].certificate
              /\ Provenance(r).proof = work[r].proof
<1>1. CASE work[r].decision = None
  BY <1>1 DEF Provenance
<1>2. CASE work[r].decision # None
  <2>1. /\ work[r].decision \in Decision /\ work[r].version \in Nat
        /\ work[r].certificate \in Nat /\ work[r].proof \in Proofs \cup {None}
    BY <1>2 DEF Work
  <2>2. Provenance(r) =
          [outcome |-> work[r].decision.outcome, trustAge |-> work[r].decision.trustAge,
           version |-> work[r].version, certificate |-> work[r].certificate,
           proof |-> work[r].proof]
    BY <1>2 DEF Provenance
  <2>3. Provenance(r) \in Recorded
    BY <2>1, <2>2 DEF Decision, Recorded
  <2>. QED
    BY <1>2, <2>2, <2>3, NoneAssumption
<1>. QED
  BY <1>1, <1>2

(* What the commit leaves in the tables.                                   *)
LEMMA TablesWritten ==
  ASSUME AccessInv, NEW r \in Requests, Commit(r)
  PROVE  /\ steps' \in [Proofs -> StepUp] /\ decisions' \in [Requests -> Recorded \cup {None}]
         /\ receipts' \subseteq Receipt /\ quarantines' \subseteq Requests
         /\ work[r].proof # None => steps'[work[r].proof].spentBy = r
         /\ \A p \in Proofs : p # work[r].proof => steps'[p] = steps[p]
         /\ decisions'[r] = Provenance(r)
         /\ \A p \in Requests \ {r} : decisions'[p] = decisions[p]
         /\ receipts \subseteq receipts'
         /\ \A x \in receipts' \ receipts :
              x.op = request[r].op /\ x.operation = r /\ work[r].operation = r
         /\ work[r].operation = r =>
              \E x \in receipts' : /\ x.op = request[r].op /\ x.operation = r
                                  /\ x.content = request[r].content
<1>1. /\ TypeOK /\ work[r] \in Work /\ request[r] \in Asked
  BY RowFacts
<1>2. /\ work[r].at \in {"committing", "denying"} /\ Written(r)
  BY DEF Commit
<1>3. request[r].op \in Operations /\ (work[r].proof # None => work[r].proof \in Proofs)
  BY <1>2, Committing
<1>4. /\ steps' \in [Proofs -> StepUp]
      /\ work[r].proof # None => steps'[work[r].proof].spentBy = r
      /\ \A p \in Proofs : p # work[r].proof => steps'[p] = steps[p]
  BY <1>1, <1>2, <1>3 DEF Written, TypeOK, StepUp
<1>5. /\ decisions' \in [Requests -> Recorded \cup {None}]
      /\ decisions'[r] = Provenance(r)
      /\ \A p \in Requests \ {r} : decisions'[p] = decisions[p]
  BY <1>1, <1>2, ProvenanceRow DEF Written, TypeOK
<1>6. quarantines' \subseteq Requests
  BY <1>1, <1>2 DEF Written, TypeOK
<1>. DEFINE new == [op |-> request[r].op, content |-> request[r].content, operation |-> r]
<1>7. /\ new \in Receipt /\ new.op = request[r].op /\ new.operation = r
      /\ new.content = request[r].content
  BY <1>1, <1>3 DEF Asked, Receipt
<1>8. receipts' = IF work[r].operation # r THEN receipts ELSE receipts \cup {new}
  BY <1>2 DEF Written
<1>. HIDE DEF new
<1>9. /\ receipts \subseteq receipts' /\ receipts' \subseteq Receipt
      /\ \A x \in receipts' \ receipts :
           x.op = request[r].op /\ x.operation = r /\ work[r].operation = r
  BY <1>1, <1>7, <1>8 DEF TypeOK
<1>10. work[r].operation = r => new \in receipts'
  BY <1>8
<1>. QED
  BY <1>4, <1>5, <1>6, <1>7, <1>9, <1>10

(* The request of a transaction that ended.                                *)
LEMMA CommittedWork ==
  ASSUME AccessInv, NEW r \in Requests, Commit(r)
  PROVE  /\ work' \in [Requests -> Work] /\ request' \in [Requests -> Asked]
         /\ \A p \in Requests \ {r} : work'[p] = work[p] /\ request'[p] = request[p]
         /\ work'[r].at = "closed" /\ work'[r].proof = None /\ work'[r].decision = None
         /\ work'[r].aborted = FALSE
         /\ work[r].aborted =>
              /\ work'[r] = Closed /\ work'[r].result = None
              /\ request'[r].stage = "answered" /\ request'[r].status = "timeout"
         /\ ~work[r].aborted =>
              /\ request'[r] = request[r]
              /\ work'[r].operation = work[r].operation
              /\ work'[r].result \in Results
              /\ work'[r].result = "served" => work[r].at = "committing"
<1>1. /\ TypeOK /\ work[r] \in Work /\ request[r] \in Asked
  BY RowFacts
<1>2. PICK result \in Results :
         /\ work' = [work EXCEPT ![r] = Ended(r, result, work[r].operation)]
         /\ result = "served" => work[r].at = "committing"
  BY DEF Commit, Results
<1>. DEFINE w == Ended(r, result, work[r].operation)
<1>3. /\ w \in Work /\ w.at = "closed" /\ w.proof = None /\ w.decision = None
      /\ w.aborted = FALSE
      /\ work[r].aborted => w = Closed /\ w.result = None
      /\ ~work[r].aborted => w.result = result /\ w.operation = work[r].operation
  BY <1>1 DEF Ended, Closed, Work, Stages
<1>4. work' = [work EXCEPT ![r] = w]
  BY <1>2
<1>. HIDE DEF w
<1>5. /\ request' \in [Requests -> Asked]
      /\ \A p \in Requests \ {r} : request'[p] = request[p]
      /\ work[r].aborted => request'[r].stage = "answered" /\ request'[r].status = "timeout"
      /\ ~work[r].aborted => request'[r] = request[r]
  <2>1. request' = Forgotten(r)
    BY DEF Commit
  <2>. QED
    BY <1>1, <2>1, RefusedType DEF Forgotten, TypeOK
<1>6. /\ work' \in [Requests -> Work] /\ work'[r] = w
      /\ \A p \in Requests \ {r} : work'[p] = work[p]
  BY <1>1, <1>3, <1>4 DEF TypeOK
<1>. QED
  BY <1>2, <1>3, <1>5, <1>6

(* Another request has another proof, another key and another row.         *)
LEMMA OthersAtCommit ==
  ASSUME AccessInv, NEW r \in Requests, Commit(r), NEW p \in Requests, p # r
  PROVE  RequestOK(p, work[p], request[p], events[p])'
<1>1. /\ RequestOK(p, work[p], request[p], events[p]) /\ request[p] \in Asked
      /\ work[p] \in Work
      /\ work'[p] = work[p] /\ request'[p] = request[p] /\ events'[p] = events[p]
      /\ decisions'[p] = decisions[p] /\ UNCHANGED <<mode, certificate>>
  <2>1. UNCHANGED <<mode, certificate, events>>
    BY DEF Commit, actor
  <2>2. p \in Requests \ {r}
    OBVIOUS
  <2>3. decisions'[p] = decisions[p]
    BY <2>2, TablesWritten
  <2>4. work'[p] = work[p] /\ request'[p] = request[p]
    BY <2>2, CommittedWork
  <2>. QED
    BY <2>1, <2>3, <2>4, RowFacts
<1>2. work[r].at \in {"committing", "denying"}
  BY DEF Commit
<1>3. \A x \in receipts' \ receipts :
        x.op = request[r].op /\ x.operation = r /\ Reserves(r)
  BY <1>2, TablesWritten, Committing DEF Reserves
<1>4. /\ receipts \subseteq receipts'
      /\ \A o : HasReceipt(request[p], o) => HasReceipt(request[p], o)'
  <2>1. receipts \subseteq receipts'
    BY TablesWritten
  <2>2. ASSUME NEW o, HasReceipt(request[p], o)
        PROVE  \E x \in receipts' : /\ x.op = request[p].op /\ x.operation = o
                                    /\ x.content = request[p].content
    BY <2>1, <2>2 DEF HasReceipt
  <2>. QED
    BY <1>1, <2>1, <2>2 DEF HasReceipt
<1>5. ProcessOK(p, work[p], request[p])'
  BY <1>1, <1>3 DEF RequestOK, ProcessOK
<1>6. ProofOK(work[p], request[p])'
  <2>1. work[p].proof # None => work[p].proof \in Proofs /\ work[p].proof # work[r].proof
    BY <1>1 DEF AccessInv, ProofsApart, Work
  <2>2. work[p].proof # None => steps'[work[p].proof] = steps[work[p].proof]
    BY <2>1, TablesWritten
  <2>. QED
    BY <1>1, <2>2 DEF RequestOK, ProofOK
<1>7. DecisionOK(work[p], request[p])' /\ LockOK(work[p])'
  BY <1>1 DEF RequestOK, DecisionOK, LockOK
<1>8. ReservationOK(p, work[p], request[p])'
  <2>1. Reserves(p) => request[p].op # request[r].op \/ receipts' = receipts
    BY <1>3, <1>4 DEF AccessInv, KeysApart
  <2>. QED
    BY <1>1, <1>3, <1>4, <2>1 DEF RequestOK, ReservationOK, Reserves, Open
<1>9. ServedOK(p, work[p], request[p], events[p])'
  <2>1. ASSUME NEW o, Accounted(p, request[p], o)
        PROVE  Accounted(p, request[p], o)'
    <3>1. \A x \in Proofs : steps[x].spentBy = p => x # work[r].proof
      BY <1>2, Committing, NoneAssumption
    <3>2. \A x \in Proofs : steps[x].spentBy = p => steps'[x].spentBy = p
      BY <3>1, TablesWritten
    <3>. QED
      BY <1>1, <1>4, <2>1, <3>2 DEF Accounted
  <2>. QED
    BY <1>1, <2>1 DEF RequestOK, ServedOK
<1>. QED
  BY <1>5, <1>6, <1>7, <1>8, <1>9 DEF RequestOK

(* What the client may be told is in the tables.                           *)
LEMMA OwnAtCommit ==
  ASSUME AccessInv, NEW r \in Requests, Commit(r)
  PROVE  RequestOK(r, work[r], request[r], events[r])'
<1>1. /\ RequestOK(r, work[r], request[r], events[r]) /\ request[r] \in Asked
      /\ work[r] \in Work /\ work[r].at \in {"committing", "denying"}
  BY RowFacts DEF Commit
<1>2. UNCHANGED <<mode, certificate, events>>
  BY DEF Commit, actor
<1>3. CASE work[r].aborted
  <2>1. /\ work'[r] = Closed /\ request'[r].stage = "answered"
        /\ request'[r].status = "timeout"
    BY <1>3, CommittedWork
  <2>. QED
    BY <2>1, ClosedType, NoneAssumption
       DEF RequestOK, ProcessOK, ProofOK, DecisionOK, ReservationOK, LockOK, ServedOK,
           Results
<1>4. CASE ~work[r].aborted
  <2>1. /\ request'[r] = request[r] /\ work'[r].at = "closed" /\ work'[r].proof = None
        /\ work'[r].decision = None /\ work'[r].aborted = FALSE
        /\ work'[r].operation = work[r].operation
        /\ work'[r].result \in Results
        /\ work'[r].result = "served" => work[r].at = "committing"
    BY <1>4, CommittedWork
  <2>2. request[r].stage = "running" /\ request[r].status = None
    BY <1>1, <1>4 DEF RequestOK, ProcessOK
  <2>3. ProcessOK(r, work[r], request[r])'
    BY <1>1, <2>1, <2>2, NoneAssumption DEF RequestOK, ProcessOK
  <2>4. /\ ProofOK(work[r], request[r])' /\ DecisionOK(work[r], request[r])'
        /\ ReservationOK(r, work[r], request[r])' /\ LockOK(work[r])'
    BY <2>1 DEF ProofOK, DecisionOK, ReservationOK, LockOK
  <2>5. ASSUME work[r].at = "committing"
        PROVE  Accounted(r, request[r], work[r].operation)'
    <3>1. mode = "adaptive" =>
            /\ decisions'[r] # None /\ decisions'[r].outcome = "ALLOW"
            /\ Sensitive(request[r].op) => work[r].proof # None
      BY <1>1, <2>5, Committing, TablesWritten, ProvenanceRow
    <3>2. work[r].proof # None =>
            request[r].presents \in Proofs /\ steps'[request[r].presents].spentBy = r
      BY <1>1, Committing, TablesWritten
    <3>3. ASSUME Sensitive(request[r].op)
          PROVE  \E x \in receipts' : /\ x.op = request[r].op
                                      /\ x.content = request[r].content
                                      /\ x.operation = work[r].operation
      <4>1. CASE work[r].operation = r
        BY <4>1, TablesWritten
      <4>2. CASE work[r].operation # r
        <5>1. HasReceipt(request[r], work[r].operation)
          BY <1>1, <2>5, <3>3, <4>2, Committing
        <5>2. receipts \subseteq receipts'
          BY TablesWritten
        <5>. QED
          BY <5>1, <5>2 DEF HasReceipt
      <4>. QED
        BY <4>1, <4>2
    <3>. QED
      BY <1>2, <2>1, <3>1, <3>2, <3>3 DEF Accounted, HasReceipt
  <2>6. ServedOK(r, work[r], request[r], events[r])'
    BY <2>1, <2>2, <2>5, NoneAssumption DEF ServedOK, Statuses
  <2>. QED
    BY <2>3, <2>4, <2>6 DEF RequestOK
<1>. QED
  BY <1>3, <1>4

LEMMA TablesAtCommit ==
  ASSUME AccessInv, NEW r \in Requests, Commit(r)
  PROVE  TablesInv'
<1>1. /\ work[r].at \in {"committing", "denying"} /\ work[r] \in Work
      /\ ReceiptsApart /\ ProofServesOneDecision /\ DecidedOnFreshTrust
      /\ steps \in [Proofs -> StepUp]
  BY RowFacts DEF Commit, AccessInv, TablesInv, TypeOK
<1>2. ReceiptsApart'
  <2>1. \A x, y \in receipts' : x \notin receipts /\ x.op = y.op => x = y
    <3>1. ASSUME NEW x \in receipts' \ receipts, NEW y \in receipts, x.op = y.op
          PROVE  FALSE
      BY <1>1, <3>1, TablesWritten, Committing
    <3>2. \A x, y \in receipts' \ receipts : x = y
      BY DEF Commit, Written
    <3>. QED
      BY <3>1, <3>2
  <2>2. \A x, y \in receipts : x.op = y.op => x = y
    BY <1>1 DEF ReceiptsApart
  <2>3. \A x, y \in receipts' : x.op = y.op => x = y
    BY <2>1, <2>2
  <2>. QED
    BY <2>3 DEF ReceiptsApart
<1>3. ProofServesOneDecision'
  <2>. SUFFICES ASSUME NEW p \in Proofs
                PROVE  /\ steps'[p].spentBy # None =>
                            /\ decisions'[steps'[p].spentBy] # None
                            /\ decisions'[steps'[p].spentBy].proof = p
                       /\ \A q \in Requests :
                            decisions'[q] # None /\ decisions'[q].proof = p =>
                              steps'[p].spentBy = q
    BY DEF ProofServesOneDecision
  <2>1. /\ steps[p].spentBy # None =>
             /\ decisions[steps[p].spentBy] # None
             /\ decisions[steps[p].spentBy].proof = p
        /\ \A q \in Requests :
             decisions[q] # None /\ decisions[q].proof = p => steps[p].spentBy = q
        /\ steps[p].spentBy \in Requests \cup {None}
    BY <1>1 DEF ProofServesOneDecision, StepUp
  <2>2. /\ decisions[r] = None /\ decisions'[r] = Provenance(r)
        /\ \A q \in Requests \ {r} : decisions'[q] = decisions[q]
    BY <1>1, Committing, TablesWritten
  <2>3. decisions'[r] # None => decisions'[r].proof = work[r].proof
    BY <1>1, <2>2, ProvenanceRow
  <2>4. CASE p = work[r].proof
    <3>1. work[r].proof # None
      BY <2>4, NoneAssumption
    <3>2. steps'[p].spentBy = r /\ steps[p].spentBy = None /\ decisions'[r] # None
      BY <1>1, <2>2, <2>4, <3>1, Committing, TablesWritten, ProvenanceRow
    <3>. QED
      BY <2>1, <2>2, <2>3, <2>4, <3>2, NoneAssumption
  <2>5. CASE p # work[r].proof
    <3>1. steps'[p] = steps[p]
      BY <2>5, TablesWritten
    <3>. QED
      BY <2>1, <2>2, <2>3, <2>5, <3>1
  <2>. QED
    BY <2>4, <2>5
<1>4. DecidedOnFreshTrust'
  BY <1>1, Committing, TablesWritten, ProvenanceRow DEF DecidedOnFreshTrust
<1>. QED
  BY <1>2, <1>3, <1>4 DEF TablesInv

LEMMA CommitStep ==
  ASSUME AccessInv, NEW r \in Requests, Commit(r)
  PROVE  AccessInv'
<1>1. TypeOK'
  <2>1. UNCHANGED <<now, mode, actor, events, changes>>
    BY DEF Commit
  <2>. QED
    BY <2>1, TablesWritten, CommittedWork DEF AccessInv, TypeOK, actor
<1>2. RequestsInv'
  BY OwnAtCommit, OthersAtCommit DEF RequestsInv
<1>3. /\ work'[r].at = "closed" /\ work'[r].proof = None
      /\ \A p \in Requests \ {r} : work'[p] = work[p] /\ request'[p] = request[p]
  BY CommittedWork
<1>4. ProofsApart' /\ KeysApart'
  BY <1>3 DEF AccessInv, ProofsApart, KeysApart, Reserves, Open
<1>. QED
  BY <1>1, <1>2, <1>4, TablesAtCommit DEF AccessInv

----------------------------------------------------------------------------
(* The rest of the system                                                  *)

(* It spends no proof, and the certificate changes only when no open       *)
(* transaction has it locked.                                              *)
LEMMA EnvironmentStep ==
  ASSUME AccessInv, TypeOK',
         UNCHANGED <<mode, receipts, decisions, events, request, work>>,
         \A p \in Proofs : steps'[p].spentBy = steps[p].spentBy,
         certificate' = certificate \/ ~CertificateLocked
  PROVE  AccessInv'
<1>1. RequestsInv'
  <2>. SUFFICES ASSUME NEW r \in Requests
                PROVE  RequestOK(r, work[r], request[r], events[r])'
    BY DEF RequestsInv
  <2>1. /\ RequestOK(r, work[r], request[r], events[r]) /\ work[r] \in Work
        /\ request[r] \in Asked
    BY RowFacts
  <2>2. /\ ProcessOK(r, work[r], request[r])' /\ DecisionOK(work[r], request[r])'
        /\ ReservationOK(r, work[r], request[r])'
    BY <2>1 DEF RequestOK, ProcessOK, DecisionOK, ReservationOK, HasReceipt
  <2>3. ProofOK(work[r], request[r])'
    <3>1. work[r].proof # None => work[r].proof \in Proofs
      BY <2>1 DEF Work
    <3>. QED
      BY <2>1, <3>1 DEF RequestOK, ProofOK
  <2>4. LockOK(work[r])'
    BY <2>1 DEF RequestOK, LockOK, CertificateLocked, Open
  <2>5. ServedOK(r, work[r], request[r], events[r])'
    BY <2>1 DEF RequestOK, ServedOK, Accounted, HasReceipt
  <2>. QED
    BY <2>2, <2>3, <2>4, <2>5 DEF RequestOK
<1>2. ProofsApart' /\ KeysApart'
  BY DEF AccessInv, ProofsApart, KeysApart, Reserves, Open
<1>3. TablesInv'
  BY DEF AccessInv, TablesInv, ReceiptsApart, ProofServesOneDecision, DecidedOnFreshTrust
<1>. QED
  BY <1>1, <1>2, <1>3 DEF AccessInv

LEMMA StepUpSteps ==
  ASSUME AccessInv, NEW p \in Proofs, IssueChallenge(p) \/ VerifyChallenge(p)
  PROVE  AccessInv'
<1>1. TypeOK
  BY DEF AccessInv
<1>2. PICK s \in StepUp : steps' = [steps EXCEPT ![p] = s] /\ s.spentBy = steps[p].spentBy
  <2>1. CASE IssueChallenge(p)
    <3>1. PICK op \in Operations :
            steps' = [steps EXCEPT ![p].state = "issued", ![p].op = op, ![p].at = now]
      BY <2>1 DEF IssueChallenge
    <3>. DEFINE s == [steps[p] EXCEPT !.state = "issued", !.op = op, !.at = now]
    <3>2. s \in StepUp /\ s.spentBy = steps[p].spentBy
      BY <1>1 DEF TypeOK, StepUp
    <3>3. steps' = [steps EXCEPT ![p] = s]
      BY <1>1, <3>1 DEF TypeOK
    <3>. HIDE DEF s
    <3>. QED
      BY <3>2, <3>3
  <2>2. CASE VerifyChallenge(p)
    <3>. DEFINE s == [steps[p] EXCEPT !.state = "verified", !.verifiedAt = now, !.at = 0]
    <3>1. s \in StepUp /\ s.spentBy = steps[p].spentBy
      BY <1>1 DEF TypeOK, StepUp
    <3>2. steps' = [steps EXCEPT ![p] = s]
      BY <1>1, <2>2 DEF VerifyChallenge, TypeOK
    <3>. HIDE DEF s
    <3>. QED
      BY <3>1, <3>2
  <2>. QED
    BY <2>1, <2>2
<1>3. UNCHANGED <<now, mode, actor, receipts, decisions, quarantines, events, request,
                  work, changes>>
  BY DEF IssueChallenge, VerifyChallenge
<1>4. TypeOK' /\ \A x \in Proofs : steps'[x].spentBy = steps[x].spentBy
  BY <1>1, <1>2, <1>3 DEF TypeOK, actor
<1>. QED
  BY <1>3, <1>4, EnvironmentStep DEF actor

LEMMA ActorSteps ==
  ASSUME AccessInv, ChangeMembership \/ RemoveAdminRole \/ EndCertificate \/ MoveTrust \/ Tick
  PROVE  AccessInv'
<1>1. TypeOK
  BY DEF AccessInv
<1>2. TypeOK'
  <2>1. CASE ChangeMembership
    <3>1. authority' \in [active : BOOLEAN, admin : BOOLEAN, version : Nat]
      <4>. DEFINE active == ~authority.active
      <4>1. /\ active \in BOOLEAN /\ authority.version + 1 \in Nat
            /\ authority \in [active : BOOLEAN, admin : BOOLEAN, version : Nat]
        BY <1>1 DEF TypeOK
      <4>2. authority' = [authority EXCEPT !.active = active, !.version = @ + 1]
        BY <2>1 DEF ChangeMembership
      <4>. HIDE DEF active
      <4>. QED
        BY <4>1, <4>2
    <3>. QED
      BY <1>1, <2>1, <3>1 DEF ChangeMembership, Change, TypeOK, tables
  <2>2. CASE RemoveAdminRole
    <3>1. authority' \in [active : BOOLEAN, admin : BOOLEAN, version : Nat]
      BY <1>1, <2>2 DEF RemoveAdminRole, TypeOK
    <3>. QED
      BY <1>1, <2>2, <3>1 DEF RemoveAdminRole, Change, TypeOK, tables
  <2>3. CASE EndCertificate
    BY <1>1, <2>3 DEF EndCertificate, Change, TypeOK, tables
  <2>4. CASE MoveTrust
    BY <1>1, <2>4 DEF MoveTrust, Change, TypeOK, tables
  <2>5. CASE Tick
    BY <1>1, <2>5 DEF Tick, TypeOK, tables, actor
  <2>. QED
    BY <2>1, <2>2, <2>3, <2>4, <2>5
<1>3. /\ UNCHANGED <<mode, tables, events, request, work>>
      /\ certificate' = certificate \/ ~CertificateLocked
  BY DEF ChangeMembership, RemoveAdminRole, EndCertificate, MoveTrust, Tick, actor
<1>. QED
  BY <1>2, <1>3, EnvironmentStep DEF tables

----------------------------------------------------------------------------
(* The invariant                                                           *)

LEMMA AccessInit == Init => AccessInv
<1>. SUFFICES ASSUME Init PROVE AccessInv
  OBVIOUS
<1>1. Closed \in Work /\ Idle \in Asked
  BY ClosedType DEF Idle, Asked
<1>2. TypeOK
  BY <1>1, Numbers DEF Init, TypeOK, Bands, StepUp
<1>3. RequestsInv
  <2>. SUFFICES ASSUME NEW r \in Requests
                PROVE  RequestOK(r, work[r], request[r], events[r])
    BY DEF RequestsInv
  <2>1. /\ work[r] = Closed /\ request[r].stage = "idle" /\ request[r].status = None
        /\ decisions[r] = None /\ receipts = {}
    BY DEF Init, Idle
  <2>. QED
    BY <2>1, ClosedType, NoneAssumption
       DEF RequestOK, ProcessOK, ProofOK, DecisionOK, ReservationOK, LockOK, ServedOK,
           Statuses, Results
<1>4. ProofsApart /\ KeysApart
  BY ClosedType DEF Init, ProofsApart, KeysApart, Reserves, Open
<1>5. TablesInv
  BY DEF Init, TablesInv, ReceiptsApart, ProofServesOneDecision, DecidedOnFreshTrust
<1>. QED
  BY <1>2, <1>3, <1>4, <1>5 DEF AccessInv

LEMMA AccessStep == AccessInv /\ [Next]_vars => AccessInv'
<1>. SUFFICES ASSUME AccessInv, [Next]_vars PROVE AccessInv'
  OBVIOUS
<1>1. ASSUME NEW r \in Requests, Handler(r) PROVE AccessInv'
  BY <1>1, ReceiveStep, RefuseStep, AnswerStep, TimeoutStep DEF Handler
<1>2. ASSUME NEW r \in Requests, Transaction(r) PROVE AccessInv'
  BY <1>2, OpenStep, ValidateStep, AuthorizeStep, LookupStep, PolicyStep, RecordStep,
     ReserveStep, ReadStep, CommitStep, FailStep DEF Transaction
<1>3. ASSUME NEW p \in Proofs, IssueChallenge(p) \/ VerifyChallenge(p) PROVE AccessInv'
  BY <1>3, StepUpSteps
<1>4. CASE ChangeMembership \/ RemoveAdminRole \/ EndCertificate \/ MoveTrust \/ Tick
  BY <1>4, ActorSteps
<1>5. CASE UNCHANGED vars
  <2>1. UNCHANGED <<now, mode, authority, certificate, trust, steps, receipts, decisions,
                    quarantines, events, request, work, changes>>
    BY <1>5 DEF vars
  <2>2. TypeOK'
    BY <2>1 DEF AccessInv, TypeOK
  <2>. QED
    BY <2>1, <2>2, EnvironmentStep
<1>. QED
  BY <1>1, <1>2, <1>3, <1>4, <1>5 DEF Next

LEMMA Invariant == Spec => []AccessInv
BY AccessInit, AccessStep, PTL DEF Spec

----------------------------------------------------------------------------
(* What follows from it                                                    *)

(* Every variable of the API and its transactions keeps the kind of value  *)
(* the code stores there, whichever requests run side by side.             *)
THEOREM TypeCorrect == Spec => []TypeOK
<1>1. AccessInv => TypeOK
  BY DEF AccessInv
<1>. QED
  BY <1>1, Invariant, PTL

(* A client is told 200 only for what is accounted for: the handler writes *)
(* the access event before it answers, and the commit it relies on wrote   *)
(* the decision, the receipt and the spent proof together.                 *)
THEOREM ServedAccounted == Spec => []ServedIsAccounted
<1>1. AccessInv => ServedIsAccounted
  <2>. SUFFICES ASSUME AccessInv, NEW r \in Requests, request[r].status = "ok"
                PROVE  /\ events[r] = "allow"
                       /\ mode = "adaptive" =>
                            decisions[r] # None /\ decisions[r].outcome = "ALLOW"
                       /\ Sensitive(request[r].op) =>
                            /\ \E x \in receipts : /\ x.operation = request[r].operation
                                                   /\ x.content = request[r].content
                            /\ mode = "adaptive" => steps[request[r].presents].spentBy = r
    BY DEF ServedIsAccounted
  <2>. QED
    BY RowFacts DEF RequestOK, ServedOK, Accounted, HasReceipt
<1>. QED
  BY <1>1, Invariant, PTL

(* consume_step_up_proof and the provenance row are one transaction, and a *)
(* proof held by an open one is taken by no other.                         *)
THEOREM ProofSpentOnce == Spec => []ProofServesOneDecision
<1>1. AccessInv => ProofServesOneDecision
  BY DEF AccessInv, TablesInv
<1>. QED
  BY <1>1, Invariant, PTL

(* reserve_api_sensitive_operation: whoever was served under one key was   *)
(* served the operation of its one receipt.                                *)
THEOREM KeyIsOneOperation == Spec => []OneOperationPerKey
<1>1. AccessInv => OneOperationPerKey
  <2>. SUFFICES ASSUME AccessInv, NEW q \in Requests, NEW r \in Requests,
                       request[q].status = "ok", request[r].status = "ok",
                       Sensitive(request[q].op), request[q].op = request[r].op
                PROVE  /\ request[q].operation = request[r].operation
                       /\ request[q].content = request[r].content
    BY DEF OneOperationPerKey
  <2>1. HasReceipt(request[q], request[q].operation)
    BY RowFacts DEF RequestOK, ServedOK, Accounted
  <2>2. HasReceipt(request[r], request[r].operation)
    BY RowFacts DEF RequestOK, ServedOK, Accounted
  <2>3. PICK x \in receipts : /\ x.op = request[q].op /\ x.content = request[q].content
                              /\ x.operation = request[q].operation
    BY <2>1 DEF HasReceipt
  <2>4. PICK y \in receipts : /\ y.op = request[r].op /\ y.content = request[r].content
                              /\ y.operation = request[r].operation
    BY <2>2 DEF HasReceipt
  <2>5. x = y
    BY <2>3, <2>4 DEF AccessInv, TablesInv, ReceiptsApart
  <2>. QED
    BY <2>3, <2>4, <2>5
<1>. QED
  BY <1>1, Invariant, PTL

(* However long the policy engine takes, a recorded decision that lets     *)
(* something through was taken on a score as recent as the configuration   *)
(* requires: assertTrustRemainsFresh is asked again with the answer.       *)
THEOREM FreshDecisions == Spec => []DecidedOnFreshTrust
<1>1. AccessInv => DecidedOnFreshTrust
  BY DEF AccessInv, TablesInv
<1>. QED
  BY <1>1, Invariant, PTL

(* lock_current_actor_certificate_status: the certificate a decision names *)
(* is active and unchanged when the decision reaches the tables.           *)
THEOREM CertificateHeld == Spec => CertificateHeldToCommit
<1>1. AccessInv /\ [Next]_vars =>
        [\A r \in Requests : decisions[r] = None /\ decisions'[r] # None =>
           certificate.active /\ certificate.version = decisions'[r].certificate]_vars
  <2>. SUFFICES ASSUME AccessInv, [Next]_vars, NEW r \in Requests,
                       decisions[r] = None, decisions'[r] # None
                PROVE  certificate.active /\ certificate.version = decisions'[r].certificate
    OBVIOUS
  <2>1. ASSUME UNCHANGED decisions PROVE FALSE
    BY <2>1
  <2>2. ASSUME NEW q \in Requests, Handler(q) PROVE FALSE
    BY <2>1, <2>2 DEF Handler, ReceiveRequest, RefuseRequest, AnswerRequest,
                      RequestTimeout, tables
  <2>3. ASSUME NEW q \in Requests, Transaction(q) PROVE Commit(q)
    BY <2>1, <2>3 DEF Transaction, OpenTransaction, ValidateState, Authorize, LookupTrust,
                      PolicyDecides, RecordDecision, Reserve, ReadRows, Fail, tables
  <2>4. PICK q \in Requests : Commit(q)
    BY <2>1, <2>2, <2>3
       DEF Next, IssueChallenge, VerifyChallenge, ChangeMembership, RemoveAdminRole,
           EndCertificate, MoveTrust, Tick, vars, tables
  <2>5. q = r /\ decisions'[r] = Provenance(r)
    BY <2>4, TablesWritten
  <2>6. work[r] \in Work /\ LockOK(work[r]) /\ work[r].at \in {"committing", "denying"}
    BY <2>4, <2>5, RowFacts DEF RequestOK, Commit
  <2>. QED
    BY <2>5, <2>6, ProvenanceRow DEF LockOK
<1>. QED
  BY <1>1, Invariant, PTL DEF Spec, CertificateHeldToCommit
=============================================================================
