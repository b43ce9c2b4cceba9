-------------------------- MODULE EvidenceDelivery -------------------------
(***************************************************************************)
(* Accepted evidence on its way to the trust state: the outbox and its     *)
(* publishers (packages/evidence-events, migration 019), the JetStream     *)
(* stream and durable consumer (packages/messaging), the trust consumer    *)
(* (services/trust/src/validated-evidence-consumer.mjs, 021) and the       *)
(* versioned trust state (services/trust/src/index.mjs, 020).              *)
(*                                                                         *)
(* A publisher may stall or die between any two of its calls and outlive   *)
(* its claim; a message is delivered up to MaxDeliver times, to handlers   *)
(* that may overlap, and any acknowledgement may be lost.                  *)
(*                                                                         *)
(* Simplifications:                                                        *)
(*   - one tenant and subject; Types stands for the five components;       *)
(*   - the component score is a function of the evidence;                  *)
(*   - a claim token is its holder: a publisher works on one claim;        *)
(*   - every redelivery waits the same AckWait; signatures verify;         *)
(*   - the producer keeps its key, and Ed25519 signs alike each time: the  *)
(*     signed_event_sha256 of an event, which the consumer's transaction   *)
(*     compares with the outbox row (019:334, 021:119), always agrees;     *)
(*   - instants are kept as ages and remaining waits, acceptance by order.  *)
(***************************************************************************)
EXTENDS Integers, Sequences, FiniteSets

CONSTANTS
  Evidence,        \* accepted evidence of one subject
  Types,           \* the components of the trust model
  TypeOf,          \* the component of each evidence
  Observed,        \* observed_at of each evidence
  Ahead,           \* evidence observed after its acceptance, as the guard's
                   \* clock skew of 30 s permits
  Publishers,      \* running publisher processes
  RetryDelay,      \* 5 s
  DuplicateWindow, \* duplicate_window of the stream, 2 min
  ClaimTimeout,    \* 5 min
  AckWait,         \* backoff of the durable consumer
  MaxDeliver,      \* max_deliver
  MaxStored,       \* bound: version up to which another writer stores
  MaxFaults        \* bound: faults

ASSUME EvidenceAssumption ==
  /\ Ahead \subseteq Evidence
  /\ \A e \in Evidence : TypeOf[e] \in Types /\ Observed[e] \in Nat
ASSUME TimesAssumption ==
  /\ {MaxFaults, MaxStored} \subseteq Nat
  /\ {RetryDelay, ClaimTimeout, AckWait, MaxDeliver} \subseteq Nat \ {0}
  /\ DuplicateWindow \in RetryDelay..ClaimTimeout

VARIABLES
  faults,    \* faults that happened so far
  row,       \* trust.evidence_event_outbox
  publisher, \* what each publisher is doing
  stream,    \* messages; the stream sequence is the index
  handlers,  \* messages being handled, with the number of their handlers
  effects,   \* trust.evidence_event_effects
  staged,    \* trust.subject_component_observations
  state      \* trust.subject_trust_current and its latest version

vars == <<faults, row, publisher, stream, handlers, effects, staged, state>>

consumption == <<effects, staged, state>>

----------------------------------------------------------------------------
(* Records *)

NoRow == [status |-> "none"]

NoStage == [observed |-> -1, sequence |-> 0, evidence |-> "none"]

Idle == [pc |-> "idle"]

Fault == faults < MaxFaults /\ faults' = faults + 1

----------------------------------------------------------------------------
(* The outbox *)

Accepted == {e \in Evidence : row[e].status # "none"}

(* The receipt's insertion enqueues its event.                             *)
EnqueueAccepted(e) ==
  /\ e \notin Accepted
  /\ row' = [row EXCEPT ![e] =
       [status |-> "pending", wait |-> 0, after |-> {f \in Accepted : row[f].status # "published"}]]
  /\ UNCHANGED <<faults, publisher, stream, handlers, consumption>>

Stale(e) == row[e].status = "publishing" /\ row[e].age > ClaimTimeout

Pending(e, wait) ==
  [status |-> "pending", wait |-> wait, after |-> row[e].after]

\* An operator named Bug... is what a plausible mistake would turn the definition
\* after it into; no specification uses it.

(* Recovers stale claims, then claims the oldest pending row that is due.  *)
BugRecovered == row

Recovered == [e \in Evidence |-> IF Stale(e) THEN Pending(e, 0) ELSE row[e]]

Due(e) == Recovered[e].status = "pending" /\ Recovered[e].wait = 0

FirstDue(e) ==
  Due(e) /\ \A f \in row[e].after : ~Due(f)

Claim(w, e) ==
  /\ publisher[w].pc = "idle"
  /\ FirstDue(e)
  /\ row' = [Recovered EXCEPT ![e] =
       [status |-> "publishing", holder |-> w, age |-> 0, after |-> row[e].after]]
  /\ publisher' = [publisher EXCEPT ![w] = [pc |-> "claimed", evidence |-> e]]
  /\ UNCHANGED <<faults, stream, handlers, consumption>>

Holds(w) ==
  LET e == publisher[w].evidence
  IN  row[e].status = "publishing" /\ row[e].holder = w

----------------------------------------------------------------------------
(* The publisher *)

(* What the event's builder demands of the times of a record.              *)
AcceptedRecordValid(e) == e \notin Ahead

(* The stream suppresses a message id it saw within its duplicate window.  *)
Duplicates(e) ==
  {i \in DOMAIN stream :
     stream[i].evidence = e /\ stream[i].age <= DuplicateWindow}

Message(e) ==
  [evidence |-> e, age |-> 0, delivered |-> 0, wait |-> 0, acked |-> FALSE]

Publish(w) ==
  LET e == publisher[w].evidence
  IN  /\ publisher[w].pc = "claimed"
      /\ AcceptedRecordValid(e)
      /\ \E sequence \in {Len(stream) + 1} \cup Duplicates(e) :
           /\ Duplicates(e) # {} => sequence \in Duplicates(e)
           /\ stream' = IF sequence \in DOMAIN stream
                          THEN stream ELSE Append(stream, Message(e))
           /\ publisher' = [publisher EXCEPT ![w] =
                [pc |-> "acknowledged", evidence |-> e,
                 sequence |-> sequence]]
      /\ UNCHANGED <<faults, row, handlers, consumption>>

(* The record is refused, or signing or publishing fails.                  *)
PublishFails(w) ==
  /\ publisher[w].pc = "claimed"
  /\ IF AcceptedRecordValid(publisher[w].evidence)
       THEN Fault ELSE UNCHANGED faults
  /\ publisher' = [publisher EXCEPT ![w] = [pc |-> "failing", evidence |-> @.evidence]]
  /\ UNCHANGED <<row, stream, handlers, consumption>>

(* The acknowledged sequence is recorded, if the claim is still held.      *)
MarkPublished(w) ==
  LET e == publisher[w].evidence
  IN  /\ publisher[w].pc = "acknowledged"
      /\ IF Holds(w)
           THEN /\ row' = [row EXCEPT ![e] =
                     [status |-> "published", sequence |-> publisher[w].sequence]]
                /\ publisher' = [publisher EXCEPT ![w] = Idle]
           ELSE /\ publisher' = [publisher EXCEPT ![w] = [pc |-> "failing", evidence |-> @.evidence]]
                /\ UNCHANGED row
      /\ UNCHANGED <<faults, stream, handlers, consumption>>

(* Its answer is lost: the publisher reports a failure.                    *)
MarkingFails(w) ==
  /\ publisher[w].pc = "acknowledged"
  /\ Fault
  /\ publisher' = [publisher EXCEPT ![w] = [pc |-> "failing", evidence |-> @.evidence]]
  /\ UNCHANGED <<row, stream, handlers, consumption>>

MarkFailed(w) ==
  LET e == publisher[w].evidence
  IN  /\ publisher[w].pc = "failing"
      /\ row' = IF Holds(w)
           THEN [row EXCEPT ![e] = Pending(e, RetryDelay)] ELSE row
      /\ publisher' = [publisher EXCEPT ![w] = Idle]
      /\ UNCHANGED <<faults, stream, handlers, consumption>>

Crash(w) ==
  /\ publisher[w].pc # "idle"
  /\ Fault
  /\ publisher' = [publisher EXCEPT ![w] = Idle]
  /\ UNCHANGED <<row, stream, handlers, consumption>>

----------------------------------------------------------------------------
(* The stream's durable consumer *)

Exhausted(i) == stream[i].delivered = MaxDeliver /\ stream[i].wait = 0

Finished(i) == stream[i].acked \/ Exhausted(i)

(* One message at a time (max_ack_pending), in order, again when it was    *)
(* not acknowledged in time.                                               *)
Deliver(i) ==
  /\ ~stream[i].acked
  /\ stream[i].delivered < MaxDeliver
  /\ stream[i].wait = 0
  /\ \A j \in 1..(i - 1) : Finished(j)
  /\ stream' = [stream EXCEPT ![i].delivered = @ + 1, ![i].wait = AckWait]
  /\ handlers' = [handlers EXCEPT ![i] = @ + 1]
  /\ UNCHANGED <<faults, row, publisher, consumption>>

----------------------------------------------------------------------------
(* The trust consumer *)

(* The delivery is the one its outbox row was published with.              *)
Authoritative(i) ==
  LET e == stream[i].evidence
  IN  row[e].status = "published" /\ row[e].sequence = i

Observation(i) ==
  LET e == stream[i].evidence
  IN  [observed |-> Observed[e], sequence |-> i, evidence |-> e]

BugNewer(a, b) == a.sequence > b.sequence

Newer(a, b) ==
  \/ a.observed > b.observed
  \/ a.observed = b.observed /\ a.sequence > b.sequence

(* The staged observations after message i, which only a newer one moves.  *)
Staged(i) ==
  LET t == TypeOf[stream[i].evidence]
  IN  IF Newer(Observation(i), staged[t])
        THEN [staged EXCEPT ![t] = Observation(i)] ELSE staged

Complete(stage) == \A t \in Types : stage[t] # NoStage

References(stage) == [t \in Types |-> stage[t].evidence]

(* store_subject_trust_state: the next version, if the expected one is     *)
(* still current.                                                          *)
Store(expected, references) ==
  /\ state.version = expected
  /\ state' = [version |-> expected + 1, references |-> references]

(* consume_validated_evidence_component, under the subject's lock.         *)
BugOutcome(i) ==
  CASE Staged(i) # staged /\ ~Complete(Staged(i)) -> "staged"
    [] OTHER                                      -> "state_updated"

Outcome(i) ==
  IF stream[i].evidence \in effects THEN "duplicate"
  ELSE IF Staged(i) = staged        THEN "superseded"
  ELSE IF Complete(Staged(i))       THEN "state_updated"
  ELSE "staged"

(* What the repository demands of the answer.                              *)
OutcomeConfirmed(i) ==
  /\ Outcome(i) = "duplicate" <=> effects' = effects
  /\ Outcome(i) = "state_updated" => state'.version >= 1

ConsumeOnce(i) ==
  /\ Authoritative(i)
  /\ CASE Outcome(i) = "duplicate" -> UNCHANGED consumption
       [] OTHER ->
            /\ effects' = effects \cup {stream[i].evidence}
            /\ staged' = Staged(i)
            /\ IF Outcome(i) = "state_updated"
                 THEN Store(state.version, References(Staged(i)))
                 ELSE UNCHANGED state
  /\ OutcomeConfirmed(i)

(* A handler consumes its message; the acknowledgement may be lost.        *)
Handle(i) ==
  /\ handlers[i] > 0
  /\ handlers' = [handlers EXCEPT ![i] = @ - 1]
  /\ ConsumeOnce(i)
  /\ \/ stream' = [stream EXCEPT ![i].acked = TRUE] /\ UNCHANGED faults
     \/ Fault /\ UNCHANGED stream
  /\ UNCHANGED <<row, publisher>>

(* The delivery is not authoritative (yet), or anything fails: the         *)
(* transaction leaves nothing and the message is not acknowledged.         *)
HandlingFails(i) ==
  /\ handlers[i] > 0
  /\ handlers' = [handlers EXCEPT ![i] = @ - 1]
  /\ IF Authoritative(i) THEN Fault ELSE UNCHANGED faults
  /\ UNCHANGED <<row, publisher, stream, consumption>>

----------------------------------------------------------------------------
(* The trust-state repository *)

(* Five references, one per component, to evidence of the subject.         *)
ReferenceSets ==
  {refs \in [Types -> Evidence] :
     \A t \in Types : TypeOf[refs[t]] = t /\ refs[t] \in Accepted}

(* What reads of the current state may have answered.                      *)
ReadVersions == 0..state.version

WriteConfirmed(expected) == state'.version = expected + 1

(* A trust engine stores the successor of the version it read, unless      *)
(* another writer was faster.                                              *)
StoreState(expected, refs) ==
  /\ state.version < MaxStored
  /\ Store(expected, refs) /\ WriteConfirmed(expected)
  /\ UNCHANGED <<faults, row, publisher, stream, handlers, effects, staged>>

----------------------------------------------------------------------------
Shorter(wait) == IF wait = 0 THEN 0 ELSE wait - 1

Older(age, limit) == IF age > limit THEN age ELSE age + 1

(* A publisher that works beyond its claim.                                *)
Overdue(w) ==
  /\ publisher[w].pc # "idle" /\ Holds(w)
  /\ row[publisher[w].evidence].age = ClaimTimeout

(* Time passes; that a publisher outlives its claim is a fault.            *)
Tick ==
  /\ row' = [e \in Evidence |->
       CASE row[e].status = "pending" -> [row[e] EXCEPT !.wait = Shorter(@)]
         [] row[e].status = "publishing" ->
              [row[e] EXCEPT !.age = Older(@, ClaimTimeout)]
         [] OTHER -> row[e]]
  /\ stream' = [i \in DOMAIN stream |->
       [stream[i] EXCEPT !.age = Older(@, DuplicateWindow), !.wait = Shorter(@)]]
  /\ IF \E w \in Publishers : Overdue(w) THEN Fault ELSE UNCHANGED faults
  /\ UNCHANGED <<publisher, handlers, consumption>>

(* Bound: messages of the stream.                                          *)
MaxMessages == Cardinality(Evidence) + MaxFaults

Init ==
  /\ faults = 0
  /\ row = [e \in Evidence |-> NoRow]
  /\ publisher = [w \in Publishers |-> Idle]
  /\ stream = <<>>
  /\ handlers = [i \in 1..MaxMessages |-> 0]
  /\ effects = {}
  /\ staged = [t \in Types |-> NoStage]
  /\ state = [version |-> 0, references |-> [t \in Types |-> "none"]]

PublisherStep(w) ==
  \/ \E e \in Evidence : Claim(w, e)
  \/ Publish(w) \/ PublishFails(w)
  \/ MarkPublished(w) \/ MarkingFails(w) \/ MarkFailed(w)

ConsumerStep == \E i \in DOMAIN stream : Deliver(i) \/ Handle(i) \/ HandlingFails(i)

Next ==
  \/ \E e \in Evidence : EnqueueAccepted(e)
  \/ \E w \in Publishers : PublisherStep(w) \/ Crash(w)
  \/ ConsumerStep
  \/ \E expected \in ReadVersions, refs \in ReferenceSets :
       StoreState(expected, refs)
  \/ Tick

Spec == Init /\ [][Next]_vars

(* A deployment runs its publishers on an interval shorter than the retry  *)
(* delay, so a row that keeps failing does not starve a due one; JetStream *)
(* keeps delivering to the durable consumer, and its handlers end.         *)
FairSpec ==
  /\ Spec
  /\ WF_vars(Tick) /\ WF_vars(ConsumerStep)
  /\ \A w \in Publishers : WF_vars(PublisherStep(w))
  /\ \A e \in Evidence : SF_vars(\E w \in Publishers : Claim(w, e))

----------------------------------------------------------------------------
(* Properties *)

(* The tables, the stream and the processes have values of their types.    *)
TypeOK ==
  /\ faults \in 0..MaxFaults
  /\ \A e \in Evidence :
       row[e].status \in {"none", "pending", "publishing", "published"}
  /\ \A w \in Publishers :
       publisher[w].pc \in {"idle", "claimed", "acknowledged", "failing"}
  /\ \A i \in DOMAIN stream : stream[i].delivered \in 0..MaxDeliver
  /\ effects \subseteq Evidence
  /\ \A t \in Types : staged[t].evidence \in effects \cup {"none"}

(* In whatever order, how often and to however many handlers the events    *)
(* were delivered, each component is left with the newest of the consumed  *)
(* observations: latest in time, then in the stream.                       *)
StagedIsNewest ==
  \A t \in Types :
    LET consumed == {e \in effects : TypeOf[e] = t}
    IN  /\ staged[t] = NoStage <=> consumed = {}
        /\ \A e \in consumed :
             /\ staged[t].observed >= Observed[e]
             /\ staged[t].observed = Observed[e] =>
                  staged[t].sequence >= row[e].sequence

(* Evidence moves the trust state at most once, when it is first consumed  *)
(* and becomes the newest of its component, to the next version and with   *)
(* the staged references; no other delivery writes it, and another writer  *)
(* only replaces the version it read (effect key, expected version).       *)
VersionsAreEarned ==
  [][state' # state =>
       /\ state'.version = state.version + 1
       /\ \/ \E e \in effects' \ effects :
               /\ staged'[TypeOf[e]].evidence = e
               /\ state'.references = References(staged')
          \/ \E refs \in ReferenceSets : StoreState(state.version, refs)]_vars

(* Evidence observed no later than it was accepted is published, although  *)
(* publishers stall and die and marking fails: claims time out and are     *)
(* taken over.                                                             *)
EventuallyPublished ==
  \A e \in Evidence :
    e \in Accepted /\ AcceptedRecordValid(e) ~> row[e].status = "published"

(* Everything accepted is published (accepted-evidence-event-delivery.md). *)
AllPublished ==
  \A e \in Evidence : e \in Accepted ~> row[e].status = "published"

(* A published event is consumed in the end: it stays retryable            *)
(* (validated-evidence-trust-consumption.md).                              *)
PublishedIsConsumed ==
  \A e \in Evidence : row[e].status = "published" ~> e \in effects
=============================================================================
