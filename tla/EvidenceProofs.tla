--------------------------- MODULE EvidenceProofs ---------------------------
(***************************************************************************)
(* Proofs about the way of the evidence: EvidenceIngestion, for every set  *)
(* of members, sources, keys and envelopes and every quota, and            *)
(* EvidenceDelivery, for every set of evidence, components and publishers, *)
(* every order of observation and every bound.                             *)
(***************************************************************************)
EXTENDS EvidenceDelivery, EvidenceIngestion, SequenceTheorems,
        FiniteSetTheorems, WellFoundedInduction, TLAPS

----------------------------------------------------------------------------
(* The invariant *)

Statuses == {"none", "pending", "publishing", "published"}

MessageType ==
  [evidence : Evidence, age : Int, delivered : 0..MaxDeliver, wait : Int,
   acked : BOOLEAN]

(* A sequence that a publisher or a row names is the evidence's message.   *)
Sequenced(e, sequence) ==
  sequence \in 1..Len(stream) /\ stream[sequence].evidence = e

RowsTyped ==
  \A e \in Evidence :
    /\ row[e].status \in Statuses
    /\ row[e].status = "published" => Sequenced(e, row[e].sequence)

PublishersTyped ==
  \A w \in Publishers :
    /\ publisher[w].pc \in {"idle", "claimed", "acknowledged", "failing"}
    /\ publisher[w].pc # "idle" => publisher[w].evidence \in Evidence
    /\ publisher[w].pc = "acknowledged" =>
         Sequenced(publisher[w].evidence, publisher[w].sequence)

TypeInv ==
  /\ faults \in 0..MaxFaults
  /\ row = [e \in Evidence |-> row[e]]
  /\ publisher = [w \in Publishers |-> publisher[w]]
  /\ staged = [t \in Types |-> staged[t]]
  /\ stream \in Seq(MessageType)
  /\ RowsTyped
  /\ PublishersTyped

(* The observation a row's event stages once it is consumed.               *)
Consumed(e) ==
  [observed |-> Observed[e], sequence |-> row[e].sequence, evidence |-> e]

(* Only what was published is consumed.                                    *)
EffectsInv ==
  /\ effects \subseteq Evidence
  /\ \A e \in effects : row[e].status = "published"

(* What is staged of a component is the observation of one of its events   *)
(* that was consumed.                                                      *)
StagedInv ==
  \A t \in Types :
    \/ staged[t] = NoStage
    \/ \E e \in effects : TypeOf[e] = t /\ staged[t] = Consumed(e)

DeliveryInv == TypeInv /\ EffectsInv /\ StagedInv /\ StagedIsNewest

----------------------------------------------------------------------------
(* The outbox and its publishers *)

(* A fault is counted, and there is room for it.                           *)
LEMMA FaultsCounted ==
  ASSUME faults \in 0..MaxFaults, Fault \/ UNCHANGED faults
  PROVE  faults' \in 0..MaxFaults
BY TimesAssumption DEF Fault

SequencedNext(e, sequence) ==
  sequence \in 1..Len(stream') /\ stream'[sequence].evidence = e

(* What a step may do to a row: what was published stays, with its         *)
(* sequence, and only a message of the evidence is recorded.               *)
RowStep(e) ==
  /\ row'[e].status \in Statuses
  /\ row[e].status = "published" => row'[e] = row[e]
  /\ row'[e].status = "published" /\ row[e].status # "published"
       => Sequenced(e, row'[e].sequence)

RowsStep ==
  /\ row' = [e \in Evidence |-> row'[e]]
  /\ \A e \in Evidence : RowStep(e)

PublisherTyped(value) ==
  /\ value.pc \in {"idle", "claimed", "acknowledged", "failing"}
  /\ value.pc # "idle" => value.evidence \in Evidence
  /\ value.pc = "acknowledged" => SequencedNext(value.evidence, value.sequence)

(* What a step may do to the stream: it is appended to, and a message is   *)
(* of the evidence it was published for.                                   *)
StreamStep ==
  /\ stream' \in Seq(MessageType)
  /\ Len(stream) \in Nat /\ Len(stream') \in Nat /\ Len(stream) <= Len(stream')
  /\ \A i \in 1..Len(stream) : stream'[i].evidence = stream[i].evidence

LEMMA SequencedKept ==
  ASSUME StreamStep, NEW e, NEW sequence, Sequenced(e, sequence)
  PROVE  SequencedNext(e, sequence)
BY DEF StreamStep, Sequenced, SequencedNext

LEMMA StreamSame ==
  ASSUME TypeInv, UNCHANGED stream
  PROVE  StreamStep
BY LenProperties DEF TypeInv, StreamStep

LEMMA RowsSame ==
  ASSUME TypeInv, UNCHANGED row
  PROVE  RowsStep
BY DEF TypeInv, RowsStep, RowStep, RowsTyped

LEMMA RowsKept ==
  ASSUME TypeInv, RowsStep, StreamStep
  PROVE  RowsTyped'
<1>. SUFFICES ASSUME NEW e \in Evidence
              PROVE  /\ row'[e].status \in Statuses
                     /\ row'[e].status = "published"
                          => SequencedNext(e, row'[e].sequence)
  BY DEF RowsTyped, Sequenced, SequencedNext
<1>1. RowStep(e)
  BY DEF RowsStep
<1>2. ASSUME row'[e].status = "published"
      PROVE  Sequenced(e, row'[e].sequence)
  BY <1>1, <1>2 DEF RowStep, TypeInv, RowsTyped
<1>. QED
  BY <1>1, <1>2, SequencedKept DEF RowStep

LEMMA PublishersKept ==
  ASSUME TypeInv, StreamStep,
         \A w \in Publishers :
           publisher'[w] = publisher[w] \/ PublisherTyped(publisher'[w])
  PROVE  PublishersTyped'
<1>. SUFFICES ASSUME NEW w \in Publishers PROVE PublisherTyped(publisher'[w])
  BY DEF PublishersTyped, PublisherTyped, Sequenced, SequencedNext
<1>1. CASE publisher'[w] = publisher[w]
  <2>1. publisher[w].pc = "acknowledged" =>
          SequencedNext(publisher[w].evidence, publisher[w].sequence)
    BY SequencedKept DEF TypeInv, PublishersTyped
  <2>. QED
    BY <1>1, <2>1 DEF TypeInv, PublishersTyped, PublisherTyped
<1>2. CASE PublisherTyped(publisher'[w])
  BY <1>2
<1>. QED
  BY <1>1, <1>2

(* A step of one publisher.                                                *)
LEMMA PublisherUpdate ==
  ASSUME TypeInv, StreamStep, NEW w \in Publishers, NEW value,
         PublisherTyped(value), publisher' = [publisher EXCEPT ![w] = value]
  PROVE  publisher' = [v \in Publishers |-> publisher'[v]] /\ PublishersTyped'
<1>1. \A v \in Publishers :
        publisher'[v] = IF v = w THEN value ELSE publisher[v]
  BY DEF TypeInv
<1>2. publisher' = [v \in Publishers |-> publisher'[v]]
  BY DEF TypeInv
<1>. QED
  BY <1>1, <1>2, PublishersKept

LEMMA RowUpdate ==
  ASSUME TypeInv, NEW e \in Evidence, NEW value,
         value.status \in Statuses,
         row[e].status # "published",
         value.status = "published" => Sequenced(e, value.sequence),
         row' = [row EXCEPT ![e] = value]
  PROVE  RowsStep
<1>1. row' = [d \in Evidence |-> row'[d]]
  BY DEF TypeInv
<1>2. \A d \in Evidence : row'[d] = IF d = e THEN value ELSE row[d]
  BY DEF TypeInv
<1>. QED
  BY <1>1, <1>2 DEF RowsStep, RowStep, TypeInv, RowsTyped

LEMMA IdleTyped == PublisherTyped(Idle)
BY DEF PublisherTyped, Idle

(* Every step keeps the types, the rows that were published and the        *)
(* stream; what it does to the consumption comes below.                    *)
Delivered ==
  /\ faults' \in 0..MaxFaults
  /\ publisher' = [w \in Publishers |-> publisher'[w]]
  /\ PublishersTyped'
  /\ RowsStep
  /\ StreamStep

LEMMA EnqueueStep ==
  ASSUME TypeInv, NEW e \in Evidence, EnqueueAccepted(e)
  PROVE  Delivered
<1>. DEFINE value == [status |-> "pending", wait |-> 0,
                      after |-> {f \in Accepted : row[f].status # "published"}]
<1>1. /\ row' = [row EXCEPT ![e] = value]
      /\ UNCHANGED <<faults, publisher, stream>>
  BY DEF EnqueueAccepted
<1>2. row[e].status # "published"
  BY DEF EnqueueAccepted, Accepted
<1>3. value.status \in Statuses /\ value.status # "published"
  BY DEF Statuses
<1>. HIDE DEF value
<1>4. RowsStep
  BY <1>1, <1>2, <1>3, RowUpdate
<1>5. StreamStep
  BY <1>1, StreamSame
<1>6. PublishersTyped'
  BY <1>1, <1>5, PublishersKept
<1>. QED
  BY <1>1, <1>4, <1>5, <1>6 DEF Delivered, TypeInv

LEMMA ClaimStep ==
  ASSUME TypeInv, NEW w \in Publishers, NEW e \in Evidence, Claim(w, e)
  PROVE  Delivered
<1>. DEFINE value == [status |-> "publishing", holder |-> w, age |-> 0,
                      after |-> row[e].after]
<1>1. /\ row' = [Recovered EXCEPT ![e] = value]
      /\ publisher' = [publisher EXCEPT
                         ![w] = [pc |-> "claimed", evidence |-> e]]
      /\ UNCHANGED <<faults, stream>>
  BY DEF Claim
<1>2. value.status \in Statuses /\ value.status # "published"
  BY DEF Statuses
<1>. HIDE DEF value
<1>3. \A d \in Evidence :
        /\ Recovered[d] = IF Stale(d) THEN Pending(d, 0) ELSE row[d]
        /\ row'[d] = IF d = e THEN value ELSE Recovered[d]
  BY <1>1 DEF Recovered
<1>4. row' = [d \in Evidence |-> row'[d]]
  BY <1>1 DEF Recovered
<1>5. row[e].status # "published"
  <2>1. Recovered[e].status = "pending"
    BY DEF Claim, FirstDue, Due
  <2>. QED
    BY <1>3, <2>1 DEF Stale
<1>6. ASSUME NEW d \in Evidence PROVE RowStep(d)
  <2>1. CASE d = e
    BY <1>2, <1>3, <1>5, <2>1 DEF RowStep
  <2>2. CASE d # e /\ Stale(d)
    <3>1. row'[d] = Pending(d, 0)
      BY <1>3, <2>2
    <3>2. /\ Pending(d, 0).status \in Statuses
          /\ Pending(d, 0).status # "published"
      BY DEF Pending, Statuses
    <3>3. row[d].status # "published"
      BY <2>2 DEF Stale
    <3>. QED
      BY <3>1, <3>2, <3>3 DEF RowStep
  <2>3. CASE d # e /\ ~Stale(d)
    BY <1>3, <2>3 DEF RowStep, TypeInv, RowsTyped
  <2>. QED
    BY <2>1, <2>2, <2>3
<1>7. RowsStep
  BY <1>4, <1>6 DEF RowsStep
<1>8. StreamStep
  BY <1>1, StreamSame
<1>9. PublisherTyped([pc |-> "claimed", evidence |-> e])
  BY DEF PublisherTyped
<1>. QED
  BY <1>1, <1>7, <1>8, <1>9, PublisherUpdate DEF Delivered, TypeInv

(* A step that ends or fails what a publisher is doing.                    *)
FailingNext(w) == [pc |-> "failing", evidence |-> publisher[w].evidence]

LEMMA FailStep ==
  ASSUME TypeInv, NEW w \in Publishers, publisher[w].pc # "idle",
         publisher' \in {[publisher EXCEPT ![w] = FailingNext(w)],
                         [publisher EXCEPT ![w] = Idle]},
         RowsStep, UNCHANGED stream, Fault \/ UNCHANGED faults
  PROVE  Delivered
<1>1. PublisherTyped(FailingNext(w))
  BY DEF PublisherTyped, FailingNext, TypeInv, PublishersTyped
<1>2. StreamStep
  BY StreamSame
<1>3. publisher' = [v \in Publishers |-> publisher'[v]] /\ PublishersTyped'
  BY <1>1, <1>2, IdleTyped, PublisherUpdate
<1>. QED
  BY <1>2, <1>3, FaultsCounted DEF Delivered, TypeInv

LEMMA MessageTyped ==
  ASSUME NEW e \in Evidence
  PROVE  Message(e) \in MessageType /\ Message(e).evidence = e
BY TimesAssumption DEF Message, MessageType

LEMMA PublishStep ==
  ASSUME TypeInv, NEW w \in Publishers, Publish(w)
  PROVE  Delivered
<1>. DEFINE e == publisher[w].evidence
<1>1. e \in Evidence
  BY DEF Publish, TypeInv, PublishersTyped
<1>2. PICK sequence \in {Len(stream) + 1} \cup Duplicates(e) :
        /\ stream' = IF sequence \in DOMAIN stream
                     THEN stream ELSE Append(stream, Message(e))
        /\ publisher' = [publisher EXCEPT
             ![w] = [pc |-> "acknowledged", evidence |-> e,
                     sequence |-> sequence]]
  BY DEF Publish
<1>3. UNCHANGED <<faults, row>>
  BY DEF Publish
<1>. HIDE DEF e
<1>4. /\ stream \in Seq(MessageType) /\ Len(stream) \in Nat
      /\ DOMAIN stream = 1..Len(stream)
  BY LenProperties DEF TypeInv
<1>5. StreamStep /\ SequencedNext(e, sequence)
  <2>1. CASE sequence \in DOMAIN stream
    <3>1. stream[sequence].evidence = e
      BY <1>2, <1>4, <2>1 DEF Duplicates
    <3>. QED
      BY <1>2, <1>4, <2>1, <3>1, StreamSame DEF SequencedNext
  <2>2. CASE sequence \notin DOMAIN stream
    <3>1. stream' = Append(stream, Message(e)) /\ sequence = Len(stream) + 1
      BY <1>2, <2>2 DEF Duplicates
    <3>2. /\ stream' \in Seq(MessageType)
          /\ Len(stream') = Len(stream) + 1
          /\ \A i \in 1..Len(stream) : stream'[i] = stream[i]
          /\ stream'[Len(stream) + 1] = Message(e)
      BY <1>1, <1>4, <3>1, MessageTyped, AppendProperties
    <3>. QED
      BY <1>1, <1>4, <3>1, <3>2, MessageTyped DEF StreamStep, SequencedNext
  <2>. QED
    BY <2>1, <2>2
<1>6. PublisherTyped([pc |-> "acknowledged", evidence |-> e,
                      sequence |-> sequence])
  BY <1>1, <1>5 DEF PublisherTyped
<1>7. RowsStep
  BY <1>3, RowsSame
<1>. QED
  BY <1>2, <1>3, <1>5, <1>6, <1>7, PublisherUpdate DEF Delivered, TypeInv

LEMMA PublishFailsStep ==
  ASSUME TypeInv, NEW w \in Publishers,
         PublishFails(w) \/ MarkingFails(w) \/ Crash(w)
  PROVE  Delivered
<1>1. /\ publisher[w].pc # "idle"
      /\ publisher' \in {[publisher EXCEPT ![w] = FailingNext(w)],
                         [publisher EXCEPT ![w] = Idle]}
      /\ UNCHANGED <<row, stream>>
      /\ Fault \/ UNCHANGED faults
  BY DEF PublishFails, MarkingFails, Crash, FailingNext, TypeInv
<1>. QED
  BY <1>1, RowsSame, FailStep

LEMMA MarkStep ==
  ASSUME TypeInv, NEW w \in Publishers, MarkPublished(w) \/ MarkFailed(w)
  PROVE  Delivered
<1>. DEFINE e == publisher[w].evidence
<1>1. /\ publisher[w].pc # "idle" /\ e \in Evidence
      /\ publisher[w].pc = "acknowledged" => Sequenced(e, publisher[w].sequence)
  BY DEF MarkPublished, MarkFailed, TypeInv, PublishersTyped
<1>2. /\ publisher' \in {[publisher EXCEPT ![w] = FailingNext(w)],
                         [publisher EXCEPT ![w] = Idle]}
      /\ UNCHANGED <<faults, stream>>
  BY DEF MarkPublished, MarkFailed, FailingNext, TypeInv
<1>3. Holds(w) => row[e].status # "published"
  BY DEF Holds
<1>4. RowsStep
  <2>1. CASE MarkPublished(w) /\ Holds(w)
    <3>. DEFINE value == [status |-> "published",
                          sequence |-> publisher[w].sequence]
    <3>1. row' = [row EXCEPT ![e] = value]
      BY <2>1 DEF MarkPublished
    <3>2. value.status \in Statuses /\ Sequenced(e, value.sequence)
      BY <1>1, <2>1 DEF MarkPublished, Statuses
    <3>. HIDE DEF value, e
    <3>. QED
      BY <1>1, <1>3, <2>1, <3>1, <3>2, RowUpdate
  <2>2. CASE MarkFailed(w) /\ Holds(w)
    <3>1. row' = [row EXCEPT ![e] = Pending(e, RetryDelay)]
      BY <2>2 DEF MarkFailed
    <3>2. /\ Pending(e, RetryDelay).status \in Statuses
          /\ Pending(e, RetryDelay).status # "published"
      BY DEF Pending, Statuses
    <3>. HIDE DEF e
    <3>. QED
      BY <1>1, <1>3, <2>2, <3>1, <3>2, RowUpdate
  <2>3. CASE ~Holds(w)
    <3>1. UNCHANGED row
      BY <2>3 DEF MarkPublished, MarkFailed
    <3>. QED
      BY <3>1, RowsSame
  <2>. QED
    BY <2>1, <2>2, <2>3
<1>. QED
  BY <1>1, <1>2, <1>4, FailStep

----------------------------------------------------------------------------
(* The stream, its consumer and the passing of time *)

(* A message that is delivered, or acknowledged, is the same message.      *)
LEMMA MessageUpdate ==
  ASSUME TypeInv, NEW i \in DOMAIN stream, NEW value \in MessageType,
         value.evidence = stream[i].evidence,
         stream' = [stream EXCEPT ![i] = value]
  PROVE  StreamStep
<1>1. stream \in Seq(MessageType) /\ DOMAIN stream = 1..Len(stream)
  BY LenProperties DEF TypeInv
<1>2. /\ stream' \in Seq(MessageType) /\ Len(stream') = Len(stream)
      /\ Len(stream) \in Nat
      /\ \A j \in 1..Len(stream) :
           stream'[j] = IF j = i THEN value ELSE stream[j]
  BY <1>1, ExceptSeq, LenProperties
<1>. QED
  BY <1>2 DEF StreamStep

LEMMA DeliverStep ==
  ASSUME TypeInv, NEW i \in DOMAIN stream, Deliver(i)
  PROVE  Delivered /\ UNCHANGED consumption
<1>1. stream[i] \in MessageType
  BY ElementOfSeq, LenProperties DEF TypeInv
<1>. DEFINE value == [stream[i] EXCEPT !.delivered = @ + 1, !.wait = AckWait]
<1>2. /\ value \in MessageType /\ value.evidence = stream[i].evidence
  BY <1>1, TimesAssumption DEF Deliver, MessageType
<1>3. stream' = [stream EXCEPT ![i] = value]
  BY DEF Deliver
<1>. HIDE DEF value
<1>4. StreamStep
  BY <1>2, <1>3, MessageUpdate
<1>5. UNCHANGED <<faults, row, publisher, consumption>>
  BY DEF Deliver
<1>6. PublishersTyped'
  BY <1>4, <1>5, PublishersKept
<1>. QED
  BY <1>4, <1>5, <1>6, RowsSame DEF Delivered, TypeInv

LEMMA HandleStep ==
  ASSUME TypeInv, NEW i \in DOMAIN stream, Handle(i) \/ HandlingFails(i)
  PROVE  Delivered /\ UNCHANGED row
<1>1. stream[i] \in MessageType
  BY ElementOfSeq, LenProperties DEF TypeInv
<1>. DEFINE value == [stream[i] EXCEPT !.acked = TRUE]
<1>2. /\ value \in MessageType /\ value.evidence = stream[i].evidence
  BY <1>1 DEF MessageType
<1>3. \/ stream' = [stream EXCEPT ![i] = value]
      \/ UNCHANGED stream
  BY DEF Handle, HandlingFails
<1>. HIDE DEF value
<1>4. StreamStep
  BY <1>2, <1>3, MessageUpdate, StreamSame
<1>5. UNCHANGED <<row, publisher>> /\ (Fault \/ UNCHANGED faults)
  BY DEF Handle, HandlingFails
<1>6. PublishersTyped'
  BY <1>4, <1>5, PublishersKept
<1>. QED
  BY <1>4, <1>5, <1>6, RowsSame, FaultsCounted DEF Delivered, TypeInv

LEMMA TickStep ==
  ASSUME TypeInv, Tick
  PROVE  Delivered
<1>1. stream \in Seq(MessageType) /\ DOMAIN stream = 1..Len(stream)
      /\ Len(stream) \in Nat
  BY LenProperties DEF TypeInv
<1>2. /\ stream' = [i \in 1..Len(stream) |->
           [stream[i] EXCEPT !.age = Older(@, DuplicateWindow),
                             !.wait = Shorter(@)]]
      /\ UNCHANGED publisher
      /\ Fault \/ UNCHANGED faults
  BY <1>1 DEF Tick
<1>3. StreamStep
  <2>1. ASSUME NEW i \in 1..Len(stream)
        PROVE  /\ stream'[i] \in MessageType
               /\ stream'[i].evidence = stream[i].evidence
    <3>1. stream[i] \in MessageType
      BY <1>1, ElementOfSeq
    <3>2. DuplicateWindow \in Int
      BY TimesAssumption
    <3>3. /\ Older(stream[i].age, DuplicateWindow) \in Int
          /\ Shorter(stream[i].wait) \in Int
      BY <3>1, <3>2 DEF MessageType, Older, Shorter
    <3>. DEFINE value == [stream[i] EXCEPT !.age = Older(@, DuplicateWindow),
                                           !.wait = Shorter(@)]
    <3>4. value \in MessageType /\ value.evidence = stream[i].evidence
      BY <3>1, <3>3 DEF MessageType
    <3>5. stream'[i] = value
      BY <1>2
    <3>. QED
      BY <3>4, <3>5
  <2>2. stream' \in [1..Len(stream) -> MessageType]
    BY <1>2, <2>1
  <2>3. stream' \in Seq(MessageType) /\ Len(stream') = Len(stream)
    BY <1>1, <2>2, IsASeq, LenProperties
  <2>. QED
    BY <1>1, <2>1, <2>3 DEF StreamStep
<1>4. RowsStep
  <2>1. /\ row' = [e \in Evidence |-> row'[e]]
        /\ \A e \in Evidence :
             row'[e] =
               CASE row[e].status = "pending" ->
                      [row[e] EXCEPT !.wait = Shorter(@)]
                 [] row[e].status = "publishing" ->
                      [row[e] EXCEPT !.age = Older(@, ClaimTimeout)]
                 [] OTHER -> row[e]
    BY DEF Tick
  <2>2. ASSUME NEW e \in Evidence PROVE RowStep(e)
    <3>1. row[e].status \in Statuses
      BY DEF TypeInv, RowsTyped
    <3>2. CASE row[e].status = "pending"
      <4>1. row'[e] = [row[e] EXCEPT !.wait = Shorter(@)]
        BY <2>1, <3>2
      <4>2. row'[e].status = row[e].status
        BY <4>1
      <4>. QED
        BY <3>1, <3>2, <4>2 DEF RowStep
    <3>3. CASE row[e].status = "publishing"
      <4>1. row'[e] = [row[e] EXCEPT !.age = Older(@, ClaimTimeout)]
        BY <2>1, <3>3
      <4>2. row'[e].status = row[e].status
        BY <4>1
      <4>. QED
        BY <3>1, <3>3, <4>2 DEF RowStep
    <3>4. CASE row[e].status \notin {"pending", "publishing"}
      <4>1. row'[e] = row[e]
        BY <2>1, <3>4
      <4>. QED
        BY <3>1, <4>1 DEF RowStep
    <3>. QED
      BY <3>2, <3>3, <3>4
  <2>. QED
    BY <2>1, <2>2 DEF RowsStep
<1>5. PublishersTyped'
  BY <1>2, <1>3, PublishersKept
<1>. QED
  BY <1>2, <1>3, <1>4, <1>5, FaultsCounted DEF Delivered, TypeInv

(* Only Handle and StoreState move what is consumed, and only Handle moves *)
(* the effects and what is staged.                                         *)
LEMMA StepKinds ==
  ASSUME TypeInv, [Next]_vars
  PROVE  /\ Delivered
         /\ \/ UNCHANGED consumption
            \/ UNCHANGED <<row, effects, staged>>
               /\ \E refs \in ReferenceSets : StoreState(state.version, refs)
            \/ UNCHANGED row /\ \E i \in DOMAIN stream : Handle(i)
<1>1. ASSUME NEW e \in Evidence, EnqueueAccepted(e)
      PROVE  Delivered /\ UNCHANGED consumption
  BY <1>1, EnqueueStep DEF EnqueueAccepted
<1>2. ASSUME NEW w \in Publishers, PublisherStep(w) \/ Crash(w)
      PROVE  Delivered /\ UNCHANGED consumption
  <2>1. Delivered
    BY <1>2, ClaimStep, PublishStep, PublishFailsStep, MarkStep
    DEF PublisherStep
  <2>2. UNCHANGED consumption
    BY <1>2 DEF PublisherStep, Claim, Publish, PublishFails, MarkPublished,
                MarkingFails, MarkFailed, Crash
  <2>. QED
    BY <2>1, <2>2
<1>3. ASSUME NEW i \in DOMAIN stream, Deliver(i) \/ HandlingFails(i)
      PROVE  Delivered /\ UNCHANGED consumption
  BY <1>3, DeliverStep, HandleStep DEF HandlingFails
<1>4. ASSUME NEW i \in DOMAIN stream, Handle(i)
      PROVE  Delivered /\ UNCHANGED row
  BY <1>4, HandleStep
<1>5. ASSUME NEW expected \in ReadVersions, NEW refs \in ReferenceSets,
             StoreState(expected, refs)
      PROVE  /\ Delivered /\ UNCHANGED <<row, effects, staged>>
             /\ StoreState(state.version, refs)
  <2>1. UNCHANGED <<faults, row, publisher, stream, effects, staged>>
    BY <1>5 DEF StoreState
  <2>2. Delivered
    BY <2>1, RowsSame, StreamSame, PublishersKept DEF Delivered, TypeInv
  <2>3. state.version = expected
    BY <1>5 DEF StoreState, Store
  <2>. QED
    BY <1>5, <2>1, <2>2, <2>3
<1>6. ASSUME Tick PROVE Delivered /\ UNCHANGED consumption
  BY <1>6, TickStep DEF Tick
<1>7. ASSUME UNCHANGED vars PROVE Delivered /\ UNCHANGED consumption
  <2>1. UNCHANGED <<faults, row, publisher, stream, consumption>>
    BY <1>7 DEF vars, consumption
  <2>. QED
    BY <2>1, RowsSame, StreamSame, PublishersKept DEF Delivered, TypeInv
<1>. QED
  BY <1>1, <1>2, <1>3, <1>4, <1>5, <1>6, <1>7 DEF Next, ConsumerStep

----------------------------------------------------------------------------
(* The trust consumer *)

(* The newest of what was consumed, of one component.                      *)
NewestOf(stage, t, consumed, rows) ==
  /\ stage = NoStage <=> consumed = {}
  /\ \A e \in consumed :
       /\ stage.observed >= Observed[e]
       /\ stage.observed = Observed[e] => stage.sequence >= rows[e].sequence

LEMMA NewestIsStaged ==
  StagedIsNewest <=>
    \A t \in Types :
      NewestOf(staged[t], t, {e \in effects : TypeOf[e] = t}, row)
BY DEF StagedIsNewest, NewestOf

LEMMA NewestIsStagedNext ==
  StagedIsNewest' <=>
    \A t \in Types :
      NewestOf(staged'[t], t, {e \in effects' : TypeOf[e] = t}, row')
BY DEF StagedIsNewest, NewestOf

(* What is consumed was published, and stays as it was.                    *)
LEMMA ConsumedStays ==
  ASSUME DeliveryInv, Delivered, NEW e \in effects
  PROVE  /\ e \in Evidence /\ row'[e] = row[e]
         /\ row[e].status = "published"
         /\ row[e].sequence \in Nat
         /\ Observed[e] \in Nat /\ TypeOf[e] \in Types
<1>1. e \in Evidence /\ row[e].status = "published"
  BY DEF DeliveryInv, EffectsInv
<1>2. Sequenced(e, row[e].sequence)
  BY <1>1 DEF DeliveryInv, TypeInv, RowsTyped
<1>3. Len(stream) \in Nat
  BY LenProperties DEF DeliveryInv, TypeInv
<1>4. RowStep(e)
  BY <1>1 DEF Delivered, RowsStep
<1>. QED
  BY <1>1, <1>2, <1>3, <1>4, EvidenceAssumption DEF Sequenced, RowStep

LEMMA ConsumptionKept ==
  ASSUME DeliveryInv, Delivered, UNCHANGED <<effects, staged>>
  PROVE  (EffectsInv /\ StagedInv /\ StagedIsNewest)'
<1>1. \A e \in effects : row'[e] = row[e]
  BY ConsumedStays
<1>2. EffectsInv'
  BY <1>1 DEF DeliveryInv, EffectsInv
<1>3. StagedInv'
  <2>1. \A e \in effects :
          Consumed(e) = [observed |-> Observed[e],
                         sequence |-> row'[e].sequence, evidence |-> e]
    BY <1>1 DEF Consumed
  <2>. SUFFICES ASSUME NEW t \in Types, staged[t] # NoStage
                PROVE  \E e \in effects :
                         /\ TypeOf[e] = t
                         /\ staged[t] =
                              [observed |-> Observed[e],
                               sequence |-> row'[e].sequence, evidence |-> e]
    BY DEF StagedInv, Consumed, NoStage
  <2>2. PICK e \in effects : TypeOf[e] = t /\ staged[t] = Consumed(e)
    BY DEF DeliveryInv, StagedInv
  <2>. QED
    BY <2>1, <2>2
<1>4. \A t \in Types :
        NewestOf(staged[t], t, {e \in effects : TypeOf[e] = t}, row)
  BY NewestIsStaged DEF DeliveryInv
<1>5. \A t \in Types :
        NewestOf(staged'[t], t, {e \in effects' : TypeOf[e] = t}, row')
  BY <1>1, <1>4 DEF NewestOf
<1>. QED
  BY <1>2, <1>3, <1>5, NewestIsStagedNext

(* A message has an effect once: afterwards it is a duplicate.             *)
Consumes(i, e) ==
  /\ e \in Evidence \ effects
  /\ row[e].status = "published" /\ row[e].sequence = i
  /\ effects' = effects \cup {e}
  /\ staged' = [staged EXCEPT ![TypeOf[e]] =
       IF Newer(Consumed(e), @) THEN Consumed(e) ELSE @]
  /\ state' # state =>
       /\ Newer(Consumed(e), staged[TypeOf[e]])
       /\ state'.version = state.version + 1
       /\ state'.references = References(staged')

LEMMA HandleConsumes ==
  ASSUME DeliveryInv, NEW i \in DOMAIN stream, Handle(i)
  PROVE  UNCHANGED consumption \/ Consumes(i, stream[i].evidence)
<1>. DEFINE e == stream[i].evidence
            t == TypeOf[e]
<1>1. e \in Evidence
  <2>1. stream[i] \in MessageType
    BY ElementOfSeq, LenProperties DEF DeliveryInv, TypeInv
  <2>. QED
    BY <2>1 DEF MessageType
<1>2. row[e].status = "published" /\ row[e].sequence = i
  BY DEF Handle, ConsumeOnce, Authoritative
<1>3. Observation(i) = Consumed(e)
  BY <1>2 DEF Observation, Consumed
<1>4. t \in Types /\ Observed[e] \in Nat
  BY <1>1, EvidenceAssumption
<1>5. Staged(i) = [staged EXCEPT ![t] =
                     IF Newer(Consumed(e), @) THEN Consumed(e) ELSE @]
  BY <1>3, <1>4 DEF Staged, DeliveryInv, TypeInv
<1>6. CASE Outcome(i) = "duplicate"
  BY <1>6 DEF Handle, ConsumeOnce
<1>7. CASE Outcome(i) # "duplicate"
  <2>1. ASSUME e \in effects PROVE FALSE
    <3>1. Outcome(i) = "duplicate"
      BY <2>1 DEF Outcome
    <3>. QED
      BY <1>7, <3>1
  <2>2. /\ effects' = effects \cup {e}
        /\ staged' = Staged(i)
        /\ IF Outcome(i) = "state_updated"
             THEN Store(state.version, References(Staged(i)))
             ELSE UNCHANGED state
    BY <1>7 DEF Handle, ConsumeOnce
  <2>3. ASSUME state' # state
        PROVE  /\ Newer(Consumed(e), staged[t])
               /\ state'.version = state.version + 1
               /\ state'.references = References(staged')
    <3>1. Outcome(i) = "state_updated"
      BY <2>2, <2>3
    <3>2. Staged(i) # staged
      BY <2>1, <3>1 DEF Outcome
    <3>3. Newer(Consumed(e), staged[t])
      BY <1>3, <3>2 DEF Staged
    <3>. QED
      BY <2>2, <3>1, <3>3 DEF Store
  <2>. QED
    BY <1>1, <1>2, <1>5, <2>1, <2>2, <2>3 DEF Consumes
<1>. QED
  BY <1>6, <1>7

(* A consumed event joins what its component is compared with.             *)
LEMMA ConsumingStep ==
  ASSUME DeliveryInv, Delivered, UNCHANGED row,
         NEW i, NEW e, Consumes(i, e)
  PROVE  (EffectsInv /\ StagedInv /\ StagedIsNewest)'
<1>. DEFINE t == TypeOf[e]
            new == Consumed(e)
<1>1. /\ e \in Evidence /\ e \notin effects
      /\ row[e].status = "published" /\ row[e].sequence = i
      /\ effects' = effects \cup {e}
      /\ staged' = [staged EXCEPT ![t] = IF Newer(new, @) THEN new ELSE @]
  BY DEF Consumes
<1>2. t \in Types /\ Observed[e] \in Nat /\ i \in Nat
  <2>1. Sequenced(e, row[e].sequence) /\ Len(stream) \in Nat
    BY <1>1, LenProperties DEF DeliveryInv, TypeInv, RowsTyped
  <2>. QED
    BY <1>1, <2>1, EvidenceAssumption DEF Sequenced
<1>3. /\ new.observed = Observed[e] /\ new.sequence = i
      /\ new = [observed |-> Observed[e], sequence |-> row'[e].sequence,
                evidence |-> e]
      /\ new # NoStage
  BY <1>1, <1>2 DEF Consumed, NoStage
<1>4. \A u \in Types :
        staged'[u] = IF u = t /\ Newer(new, staged[t]) THEN new ELSE staged[u]
  BY <1>1 DEF DeliveryInv, TypeInv
<1>. HIDE DEF t, new
<1>5. EffectsInv'
  BY <1>1 DEF DeliveryInv, EffectsInv
<1>6. StagedInv'
  <2>. SUFFICES ASSUME NEW u \in Types, staged'[u] # NoStage
                PROVE  \E d \in effects' :
                         /\ TypeOf[d] = u
                         /\ staged'[u] =
                              [observed |-> Observed[d],
                               sequence |-> row'[d].sequence, evidence |-> d]
    BY DEF StagedInv, Consumed, NoStage
  <2>1. CASE u = t /\ Newer(new, staged[t])
    BY <1>1, <1>3, <1>4, <2>1 DEF t
  <2>2. CASE ~(u = t /\ Newer(new, staged[t]))
    <3>1. staged'[u] = staged[u]
      BY <1>4, <2>2
    <3>2. PICK d \in effects : TypeOf[d] = u /\ staged[u] = Consumed(d)
      BY <3>1 DEF DeliveryInv, StagedInv
    <3>. QED
      BY <1>1, <3>1, <3>2 DEF Consumed
  <2>. QED
    BY <2>1, <2>2
<1>7. StagedIsNewest'
  <2>. SUFFICES ASSUME NEW u \in Types
                PROVE  NewestOf(staged'[u], u,
                                {d \in effects' : TypeOf[d] = u}, row')
    BY NewestIsStagedNext
  <2>1. NewestOf(staged[u], u, {d \in effects : TypeOf[d] = u}, row)
    BY NewestIsStaged DEF DeliveryInv
  <2>2. CASE u # t
    <3>1. staged'[u] = staged[u]
      BY <1>4, <2>2
    <3>2. {d \in effects' : TypeOf[d] = u} = {d \in effects : TypeOf[d] = u}
      BY <1>1, <2>2 DEF t
    <3>. QED
      BY <2>1, <3>1, <3>2 DEF NewestOf
  <2>3. CASE u = t
    <3>. DEFINE before == {d \in effects : TypeOf[d] = t}
    <3>1. {d \in effects' : TypeOf[d] = u} = before \cup {e}
      BY <1>1, <2>3 DEF t
    <3>2. \A d \in before : /\ Observed[d] \in Nat /\ row[d].sequence \in Nat
                            /\ staged[t].observed >= Observed[d]
                            /\ staged[t].observed = Observed[d] =>
                                 staged[t].sequence >= row[d].sequence
      BY <2>1, <2>3, ConsumedStays DEF NewestOf
    <3>3. /\ staged[t].observed \in Int /\ staged[t].sequence \in Int
          /\ staged[t] = NoStage => Newer(new, staged[t])
      <4>1. CASE staged[t] = NoStage
        BY <1>2, <1>3, <4>1 DEF NoStage, Newer
      <4>2. CASE staged[t] # NoStage
        <5>1. PICK d \in effects : TypeOf[d] = t /\ staged[t] = Consumed(d)
          BY <1>2, <4>2 DEF DeliveryInv, StagedInv
        <5>. QED
          BY <4>2, <5>1, ConsumedStays DEF Consumed
      <4>. QED
        BY <4>1, <4>2
    <3>. HIDE DEF before
    <3>4. CASE Newer(new, staged[t])
      <4>1. staged'[u] = new
        BY <1>4, <2>3, <3>4
      <4>2. /\ new.observed >= Observed[e] /\ new.sequence >= row[e].sequence
        BY <1>1, <1>2, <1>3
      <4>3. ASSUME NEW d \in before
            PROVE  /\ new.observed >= Observed[d]
                   /\ new.observed = Observed[d] =>
                        new.sequence >= row[d].sequence
        BY <1>2, <1>3, <3>2, <3>3, <3>4 DEF Newer
      <4>. QED
        BY <1>1, <1>3, <3>1, <4>1, <4>2, <4>3 DEF NewestOf
    <3>5. CASE ~Newer(new, staged[t])
      <4>1. staged'[u] = staged[t] /\ staged[t] # NoStage
        BY <1>4, <2>3, <3>3, <3>5
      <4>2. /\ staged[t].observed >= Observed[e]
            /\ staged[t].observed = Observed[e] =>
                 staged[t].sequence >= row[e].sequence
        BY <1>1, <1>2, <1>3, <3>3, <3>5 DEF Newer
      <4>. QED
        BY <1>1, <3>1, <3>2, <4>1, <4>2 DEF NewestOf
    <3>. QED
      BY <3>4, <3>5
  <2>. QED
    BY <2>2, <2>3
<1>. QED
  BY <1>5, <1>6, <1>7

----------------------------------------------------------------------------
(* The invariant holds *)

LEMMA DeliveryInit == Init => DeliveryInv
<1>. SUFFICES ASSUME Init PROVE DeliveryInv
  OBVIOUS
<1>1. /\ faults = 0 /\ row = [e \in Evidence |-> NoRow]
      /\ publisher = [w \in Publishers |-> Idle]
      /\ stream = <<>> /\ effects = {}
      /\ staged = [t \in Types |-> NoStage]
  BY DEF Init
<1>2. stream \in Seq(MessageType)
  BY <1>1, EmptySeq
<1>3. RowsTyped /\ PublishersTyped
  BY <1>1 DEF RowsTyped, PublishersTyped, NoRow, Idle, Statuses
<1>4. TypeInv
  BY <1>1, <1>2, <1>3, TimesAssumption DEF TypeInv
<1>5. EffectsInv /\ StagedInv
  BY <1>1 DEF EffectsInv, StagedInv
<1>6. StagedIsNewest
  BY <1>1 DEF StagedIsNewest
<1>. QED
  BY <1>4, <1>5, <1>6 DEF DeliveryInv

LEMMA TypeKept ==
  ASSUME TypeInv, Delivered, staged' = [t \in Types |-> staged'[t]]
  PROVE  TypeInv'
BY RowsKept DEF TypeInv, Delivered, RowsStep, StreamStep

LEMMA DeliveryStep ==
  ASSUME DeliveryInv, [Next]_vars
  PROVE  DeliveryInv'
<1>1. TypeInv
  BY DEF DeliveryInv
<1>2. Delivered
  BY <1>1, StepKinds
<1>3. CASE UNCHANGED <<effects, staged>>
  <2>1. TypeInv'
    BY <1>1, <1>2, <1>3, TypeKept DEF TypeInv
  <2>. QED
    BY <1>2, <1>3, <2>1, ConsumptionKept DEF DeliveryInv
<1>4. CASE ~UNCHANGED <<effects, staged>>
  <2>1. PICK i \in DOMAIN stream : Handle(i) /\ UNCHANGED row
    BY <1>1, <1>4, StepKinds DEF consumption
  <2>. DEFINE e == stream[i].evidence
  <2>2. Consumes(i, e)
    BY <1>4, <2>1, HandleConsumes DEF consumption
  <2>. HIDE DEF e
  <2>3. staged' = [t \in Types |-> staged'[t]]
    BY <1>1, <2>2 DEF Consumes, TypeInv
  <2>4. TypeInv'
    BY <1>1, <1>2, <2>3, TypeKept
  <2>. QED
    BY <1>2, <2>1, <2>2, <2>4, ConsumingStep DEF DeliveryInv
<1>. QED
  BY <1>3, <1>4

LEMMA DeliveryInvariant == Spec => []DeliveryInv
<1>1. Init => DeliveryInv
  BY DeliveryInit
<1>2. DeliveryInv /\ [Next]_vars => DeliveryInv'
  BY DeliveryStep
<1>. QED
  BY <1>1, <1>2, PTL DEF Spec

(* The outbox, its publishers and the stream keep values of their types,   *)
(* a message is delivered at most max_deliver times, and what is staged is *)
(* of evidence whose effect is recorded.                                   *)
THEOREM TypeCorrect == Spec => []TypeOK
<1>1. DeliveryInv => TypeOK
  <2>. SUFFICES ASSUME DeliveryInv PROVE TypeOK
    OBVIOUS
  <2>1. \A i \in DOMAIN stream : stream[i].delivered \in 0..MaxDeliver
    <3>1. \A i \in DOMAIN stream : stream[i] \in MessageType
      BY ElementOfSeq, LenProperties DEF DeliveryInv, TypeInv
    <3>. QED
      BY <3>1 DEF MessageType
  <2>2. \A t \in Types : staged[t].evidence \in effects \cup {"none"}
    <3>. SUFFICES ASSUME NEW t \in Types
                  PROVE  staged[t].evidence \in effects \cup {"none"}
      OBVIOUS
    <3>1. staged[t] = NoStage \/ \E e \in effects : staged[t] = Consumed(e)
      BY DEF DeliveryInv, StagedInv
    <3>2. NoStage.evidence = "none"
      BY DEF NoStage
    <3>3. \A e : Consumed(e).evidence = e
      BY DEF Consumed
    <3>. QED
      BY <3>1, <3>2, <3>3
  <2>. QED
    BY <2>1, <2>2
    DEF DeliveryInv, TypeInv, RowsTyped, PublishersTyped, EffectsInv, TypeOK,
        Statuses
<1>. QED
  BY <1>1, DeliveryInvariant, PTL

(* consume_validated_evidence_component moves a component's observation    *)
(* only to a newer one: whatever publishers, retries, duplicates and       *)
(* overlapping handlers do to the order of the events, the newest of those *)
(* that were consumed is the one that is left.                             *)
THEOREM StagedNewest == Spec => []StagedIsNewest
<1>1. DeliveryInv => StagedIsNewest
  BY DEF DeliveryInv
<1>. QED
  BY <1>1, DeliveryInvariant, PTL

(* The effect key and the expected version: a step that writes the trust   *)
(* state stores the successor of its version, either for evidence that is  *)
(* consumed for the first time and becomes the newest of its component, or *)
(* for a trust engine that read that version.                              *)
THEOREM VersionsEarned == Spec => VersionsAreEarned
<1>. DEFINE Earned ==
       state' # state =>
         /\ state'.version = state.version + 1
         /\ \/ \E e \in effects' \ effects :
                 /\ staged'[TypeOf[e]].evidence = e
                 /\ state'.references = References(staged')
            \/ \E refs \in ReferenceSets : StoreState(state.version, refs)
<1>1. DeliveryInv /\ [Next]_vars => [Earned]_vars
  <2>. SUFFICES ASSUME DeliveryInv, [Next]_vars, state' # state PROVE Earned
    OBVIOUS
  <2>1. \/ \E refs \in ReferenceSets : StoreState(state.version, refs)
        \/ \E i \in DOMAIN stream : Handle(i)
    BY StepKinds DEF DeliveryInv, consumption
  <2>2. CASE \E refs \in ReferenceSets : StoreState(state.version, refs)
    <3>1. state'.version = state.version + 1
      BY <2>2 DEF StoreState, Store
    <3>. QED
      BY <2>2, <3>1
  <2>3. ASSUME NEW i \in DOMAIN stream, Handle(i) PROVE Earned
    <3>. DEFINE e == stream[i].evidence
    <3>1. Consumes(i, e)
      BY <2>3, HandleConsumes DEF consumption
    <3>. HIDE DEF e
    <3>2. /\ e \in effects' \ effects /\ TypeOf[e] \in Types
          /\ Newer(Consumed(e), staged[TypeOf[e]])
          /\ state'.version = state.version + 1
          /\ state'.references = References(staged')
      BY <3>1, EvidenceAssumption DEF Consumes
    <3>3. staged'[TypeOf[e]] = Consumed(e)
      BY <3>1, <3>2 DEF Consumes, DeliveryInv, TypeInv
    <3>4. staged'[TypeOf[e]].evidence = e
      BY <3>3 DEF Consumed
    <3>. QED
      BY <3>2, <3>4
  <2>. QED
    BY <2>1, <2>2, <2>3
<1>2. VersionsAreEarned <=> [][Earned]_vars
  BY PTL DEF VersionsAreEarned
<1>. QED
  BY <1>1, <1>2, DeliveryInvariant, PTL DEF Spec

----------------------------------------------------------------------------
(* Ingestion: the invariant *)

KeyStates == {"none", "active", "rotated", "revoked"}
SourceStates == {"planned", "active", "suspended"}

SourceType ==
  [state : SourceStates, key : Keys \cup {NoKey}, quota : Quotas]

ReceiptType ==
  [event : Events, subject : Subjects, source : Sources, key : Keys,
   seq : Nat, nonce : {e.nonce : e \in Envelopes},
   content : {e.content : e \in Envelopes}, observed : Nat, expires : Nat,
   accepted : Nat]

KeysTyped ==
  /\ keys = [k \in Keys |-> keys[k]]
  /\ \A k \in Keys :
       /\ keys[k] = [state |-> keys[k].state, source |-> keys[k].source,
                     version |-> keys[k].version]
       /\ keys[k].state \in KeyStates
       /\ keys[k].state # "none" => keys[k].source \in Sources

RequestsTyped ==
  /\ req = [r \in Requests |-> req[r]]
  /\ \A r \in Requests :
       /\ req[r].pc \in {"idle", "guard"}
       /\ req[r].pc = "guard" =>
            req[r].envelope \in Envelopes /\ req[r].verified \in 0..now

TablesTyped ==
  /\ now \in 0..MaxTime
  /\ source \in [Sources -> SourceType]
  /\ KeysTyped
  /\ receipts \in Seq(ReceiptType)
  /\ RequestsTyped

(* A source is verified by its one active key, and by no other source's.   *)
KeysBound ==
  /\ \A s \in Sources : source[s].key # NoKey =>
       keys[source[s].key].state = "active" /\ keys[source[s].key].source = s
  /\ \A k \in Keys : keys[k].state = "active" =>
       source[keys[k].source].key = k

(* An accepted event's key was enrolled for the event's source.            *)
ReceiptsBound ==
  \A i \in DOMAIN receipts :
    /\ keys[receipts[i].key].state # "none"
    /\ keys[receipts[i].key].source = receipts[i].source

IngestionInv == TablesTyped /\ KeysBound /\ ReceiptsBound /\ OrderedEpochs

----------------------------------------------------------------------------
(* Ingestion: what an envelope is, and the newest receipt of an epoch *)

(* What a source sends has the fields of a receipt.                        *)
LEMMA EnvelopeFields ==
  ASSUME NEW e \in Envelopes
  PROVE  /\ e.event \in Events /\ e.subject \in Subjects
         /\ e.source \in Sources /\ e.key \in Keys
         /\ e.seq \in Nat /\ e.observed \in Nat /\ e.expires \in Nat
         /\ e.nonce \in {x.nonce : x \in Envelopes}
         /\ e.content \in {x.content : x \in Envelopes}
BY EnvelopesAssumption DEF Events

(* A set of numbers that is not empty has a smallest one.                  *)
LEMMA SmallestExists ==
  ASSUME NEW S, S \subseteq Nat, S # {}
  PROVE  \E i \in S : \A j \in S : i <= j
<1> DEFINE R == OpToRel(<, Nat)
<1>1. \A x, y \in Nat : x < y => <<x, y>> \in R
  BY DEF OpToRel
<1>2. PICK x \in S : \A y \in S : ~(<<y, x>> \in R)
  <2>1. IsWellFoundedOn(R, Nat)
    BY NatLessThanWellFounded
  <2> HIDE DEF R
  <2> QED
    BY <2>1, WFMin
<1> HIDE DEF R
<1>3. \A j \in S : ~(j < x)
  BY <1>1, <1>2
<1> QED
  BY <1>3

(* A set of positions that is not empty has a last one.                    *)
LEMMA GreatestExists ==
  ASSUME NEW n \in Nat, NEW S, S \subseteq 1..n, S # {}
  PROVE  \E i \in S : \A j \in S : j <= i
<1> DEFINE T == {n - i : i \in S}
<1>1. T \subseteq Nat
  OBVIOUS
<1>2. T # {}
  OBVIOUS
<1>3. PICK t \in T : \A u \in T : t <= u
  <2> HIDE DEF T
  <2> QED
    BY <1>1, <1>2, SmallestExists
<1>4. PICK i \in S : t = n - i
  OBVIOUS
<1>5. \A j \in S : t <= n - j
  BY <1>3
<1> QED
  BY <1>4, <1>5

(* The newest receipt of an epoch is one of it, after every other.         *)
LEMMA NewestOfEpoch ==
  ASSUME receipts \in Seq(ReceiptType),
         NEW S, S \subseteq DOMAIN receipts, S # {}
  PROVE  \E i \in S : Newest(S) = receipts[i] /\ \A j \in S : j <= i
<1>1. DOMAIN receipts = 1..Len(receipts) /\ Len(receipts) \in Nat
  OBVIOUS
<1>2. \E i \in S : \A j \in S : j <= i
  BY <1>1, GreatestExists
<1> DEFINE i == CHOOSE x \in S : \A y \in S : y <= x
<1>3. i \in S /\ \A j \in S : j <= i
  BY <1>2
<1>4. Newest(S) = receipts[i]
  BY DEF Newest
<1> QED
  BY <1>3, <1>4

----------------------------------------------------------------------------
(* Ingestion: initially, and the steps of the registry *)

LEMMA IngestionInitial == IngestionInit => IngestionInv
<1> SUFFICES ASSUME IngestionInit PROVE IngestionInv
  OBVIOUS
<1> USE DEF IngestionInit
<1>1. /\ now \in 0..MaxTime
      /\ receipts \in Seq(ReceiptType)
      /\ DOMAIN receipts = {}
  <2>1. now \in 0..MaxTime
    BY LimitsAssumption
  <2>2. receipts = << >>
    OBVIOUS
  <2> QED
    BY <2>1, <2>2
<1>2. source \in [Sources -> SourceType]
  BY DEF SourceType, SourceStates
<1>3. KeysTyped
  BY DEF KeysTyped, KeyStates
<1>4. RequestsTyped
  BY DEF RequestsTyped, NoRequest
<1>5. KeysBound
  BY DEF KeysBound
<1>6. ReceiptsBound /\ OrderedEpochs
  BY <1>1 DEF ReceiptsBound, OrderedEpochs
<1> QED
  BY <1>1, <1>2, <1>3, <1>4, <1>5, <1>6 DEF IngestionInv, TablesTyped

(* What an operation of the registry owes: its tables stay well-formed and *)
(* no key that was enrolled changes its source.                            *)
RegistryStep ==
  /\ source' \in [Sources -> SourceType]
  /\ KeysTyped' /\ KeysBound'
  /\ \A k \in Keys : keys[k].state # "none" =>
       keys'[k].state # "none" /\ keys'[k].source = keys[k].source
  /\ UNCHANGED <<now, receipts, req>>

LEMMA RegistryStepKeeps ==
  IngestionInv /\ RegistryStep => IngestionInv'
<1> SUFFICES ASSUME IngestionInv, RegistryStep PROVE IngestionInv'
  OBVIOUS
<1> USE DEF RegistryStep
<1>1. TablesTyped /\ KeysBound /\ ReceiptsBound /\ OrderedEpochs
  BY DEF IngestionInv
<1>2. RequestsTyped'
  BY <1>1 DEF TablesTyped, RequestsTyped
<1>3. TablesTyped'
  BY <1>1, <1>2 DEF TablesTyped
<1>4. \A i \in DOMAIN receipts : receipts[i].key \in Keys
  <2>1. receipts \in Seq(ReceiptType)
    BY <1>1 DEF TablesTyped
  <2>2. \A x \in ReceiptType : x.key \in Keys
    BY DEF ReceiptType
  <2>3. \A i \in DOMAIN receipts : receipts[i] \in ReceiptType
    BY <2>1
  <2> QED
    BY <2>2, <2>3
<1>5. ReceiptsBound'
  BY <1>1, <1>4 DEF ReceiptsBound
<1>6. OrderedEpochs'
  BY <1>1 DEF OrderedEpochs
<1> QED
  BY <1>3, <1>5, <1>6 DEF IngestionInv, RegistryStep

(* The key of a source is enrolled or rotated in: a new key becomes the    *)
(* source's, and those it had are not active any more.                     *)
LEMMA NewKeyStep ==
  ASSUME IngestionInv, NEW s \in Sources, NEW k \in Keys, NewKey(k),
         NEW v,
         keys' = [x \in Keys |->
           IF x = k THEN [state |-> "active", source |-> s, version |-> v]
           ELSE IF x \in ActiveKeys(s)
             THEN [keys[x] EXCEPT !.state = "rotated"] ELSE keys[x]],
         source' = [source EXCEPT ![s].state = "active", ![s].key = k],
         UNCHANGED <<now, receipts, req>>
  PROVE  RegistryStep
<1>1. source \in [Sources -> SourceType] /\ KeysTyped /\ KeysBound
  BY DEF IngestionInv, TablesTyped
<1>2. source' \in [Sources -> SourceType]
  BY <1>1 DEF SourceType, SourceStates
<1>3. \A x \in Keys : x \in ActiveKeys(s) <=> keys[x].state = "active" /\ keys[x].source = s
  BY DEF ActiveKeys, KeysOf
<1>4. /\ keys'[k].state = "active" /\ keys'[k].source = s
      /\ keys'[k] = [state |-> keys'[k].state, source |-> keys'[k].source,
                     version |-> keys'[k].version]
  OBVIOUS
<1>5. \A x \in Keys \ {k} :
        /\ keys'[x].source = keys[x].source
        /\ keys'[x].state = IF x \in ActiveKeys(s) THEN "rotated" ELSE keys[x].state
        /\ keys'[x] = [state |-> keys'[x].state, source |-> keys'[x].source,
                       version |-> keys'[x].version]
  BY <1>1 DEF KeysTyped
<1>6. keys[k].state = "none"
  BY DEF NewKey
<1>7. keys' = [x \in Keys |-> keys'[x]]
  OBVIOUS
<1>8. \A x \in Keys \ {k} : keys'[x].state \in KeyStates
         /\ (keys'[x].state # "none" => keys'[x].source \in Sources)
  BY <1>1, <1>3, <1>5 DEF KeysTyped, KeyStates
<1>9. KeysTyped'
  BY <1>4, <1>5, <1>7, <1>8 DEF KeysTyped, KeyStates
<1>10. source'[s].key = k /\ \A t \in Sources \ {s} : source'[t].key = source[t].key
  BY <1>1 DEF SourceType
<1>11. \A t \in Sources : source[t].key \in Keys \cup {NoKey}
  BY <1>1 DEF SourceType
<1>12. \A t \in Sources : source'[t].key # NoKey =>
         keys'[source'[t].key].state = "active" /\ keys'[source'[t].key].source = t
  <2> SUFFICES ASSUME NEW t \in Sources, source'[t].key # NoKey
               PROVE  /\ keys'[source'[t].key].state = "active"
                      /\ keys'[source'[t].key].source = t
    OBVIOUS
  <2>1. CASE t = s
    BY <2>1, <1>4, <1>10
  <2>2. CASE t # s
    <3>1. source'[t].key = source[t].key /\ source[t].key \in Keys
      BY <2>2, <1>10, <1>11
    <3>2. keys[source[t].key].state = "active" /\ keys[source[t].key].source = t
      BY <1>1, <3>1 DEF KeysBound
    <3>3. source[t].key # k /\ source[t].key \notin ActiveKeys(s)
      BY <3>1, <3>2, <1>3, <1>6, <2>2
    <3> QED
      BY <3>1, <3>2, <3>3, <1>5
  <2> QED
    BY <2>1, <2>2
<1>13. \A x \in Keys : keys'[x].state = "active" => source'[keys'[x].source].key = x
  <2> SUFFICES ASSUME NEW x \in Keys, keys'[x].state = "active", x # k
               PROVE  source'[keys'[x].source].key = x
    BY <1>4, <1>10
  <2>1. keys[x].state = "active" /\ x \notin ActiveKeys(s)
    BY <1>5
  <2>2. keys[x].source # s /\ keys[x].source \in Sources
    BY <2>1, <1>1, <1>3 DEF KeysTyped
  <2> QED
    BY <2>1, <2>2, <1>1, <1>5, <1>10 DEF KeysBound
<1>14. KeysBound'
  BY <1>12, <1>13 DEF KeysBound
<1>15. \A x \in Keys : keys[x].state # "none" =>
         keys'[x].state # "none" /\ keys'[x].source = keys[x].source
  BY <1>5, <1>6
<1> QED
  BY <1>2, <1>9, <1>14, <1>15 DEF RegistryStep

(* A key is revoked: if it was the source's active one, the source has     *)
(* none any more.                                                          *)
LEMMA RevokeStep ==
  ASSUME IngestionInv, NEW s \in Sources, NEW k \in Keys, Revocable(s, k),
         keys' = [keys EXCEPT ![k].state = "revoked"],
         source' = IF keys[k].state = "active"
           THEN [source EXCEPT ![s].state = "suspended", ![s].key = NoKey]
           ELSE source,
         UNCHANGED <<now, receipts, req>>
  PROVE  RegistryStep
<1>1. source \in [Sources -> SourceType] /\ KeysTyped /\ KeysBound
  BY DEF IngestionInv, TablesTyped
<1>2. source' \in [Sources -> SourceType]
  BY <1>1 DEF SourceType, SourceStates
<1>3. keys[k].source = s /\ keys[k].state \in {"active", "rotated"}
  BY DEF Revocable
<1>4. /\ keys'[k].state = "revoked" /\ keys'[k].source = s
      /\ keys'[k] = [state |-> keys'[k].state, source |-> keys'[k].source,
                     version |-> keys'[k].version]
      /\ keys' = [x \in Keys |-> keys'[x]]
  BY <1>1, <1>3 DEF KeysTyped
<1>5. \A x \in Keys \ {k} : keys'[x] = keys[x]
  BY <1>1 DEF KeysTyped
<1>6. KeysTyped'
  BY <1>1, <1>4, <1>5 DEF KeysTyped, KeyStates
<1>7. /\ keys[k].state = "active" => source'[s].key = NoKey
      /\ keys[k].state # "active" => source'[s].key = source[s].key
      /\ \A t \in Sources \ {s} : source'[t].key = source[t].key
  BY <1>1 DEF SourceType
<1>8. \A t \in Sources : source[t].key \in Keys \cup {NoKey}
  BY <1>1 DEF SourceType
<1>9. \A t \in Sources : source'[t].key # NoKey =>
        keys'[source'[t].key].state = "active" /\ keys'[source'[t].key].source = t
  <2> SUFFICES ASSUME NEW t \in Sources, source'[t].key # NoKey
               PROVE  /\ keys'[source'[t].key].state = "active"
                      /\ keys'[source'[t].key].source = t
    OBVIOUS
  <2>1. source'[t].key = source[t].key /\ source[t].key \in Keys
    BY <1>7, <1>8
  <2>2. keys[source[t].key].state = "active" /\ keys[source[t].key].source = t
    BY <1>1, <2>1 DEF KeysBound
  <2>3. source[t].key # k
    BY <2>1, <2>2, <1>3, <1>7
  <2> QED
    BY <2>1, <2>2, <2>3, <1>5
<1>10. \A x \in Keys : keys'[x].state = "active" => source'[keys'[x].source].key = x
  <2> SUFFICES ASSUME NEW x \in Keys, keys'[x].state = "active"
               PROVE  source'[keys'[x].source].key = x
    OBVIOUS
  <2>1. x # k /\ keys'[x] = keys[x]
    BY <1>4, <1>5
  <2>2. source[keys[x].source].key = x /\ keys[x].source \in Sources
    BY <2>1, <1>1 DEF KeysBound, KeysTyped
  <2>3. keys[k].state = "active" => source[s].key = k
    BY <1>1, <1>3 DEF KeysBound
  <2> QED
    BY <2>1, <2>2, <2>3, <1>7
<1>11. KeysBound'
  BY <1>9, <1>10 DEF KeysBound
<1>12. \A x \in Keys : keys[x].state # "none" =>
         keys'[x].state # "none" /\ keys'[x].source = keys[x].source
  BY <1>3, <1>4, <1>5
<1> QED
  BY <1>2, <1>6, <1>11, <1>12 DEF RegistryStep

(* A source changes its state or its quota: its keys are not concerned.    *)
LEMMA SourceStep ==
  ASSUME IngestionInv, source' \in [Sources -> SourceType],
         \A s \in Sources : source'[s].key = source[s].key,
         UNCHANGED <<now, keys, receipts, req>>
  PROVE  RegistryStep
<1>1. source \in [Sources -> SourceType] /\ KeysTyped /\ KeysBound
  BY DEF IngestionInv, TablesTyped
<1>2. KeysTyped'
  BY <1>1 DEF KeysTyped
<1>3. KeysBound'
  BY <1>1 DEF KeysBound, KeysTyped
<1> QED
  BY <1>2, <1>3 DEF RegistryStep

(* Neither the registry nor the receipts change.                           *)
LEMMA OutsideStep ==
  ASSUME IngestionInv, UNCHANGED <<source, keys, receipts>>,
         now' \in 0..MaxTime, RequestsTyped'
  PROVE  IngestionInv'
<1>1. TablesTyped /\ KeysBound /\ ReceiptsBound /\ OrderedEpochs
  BY DEF IngestionInv
<1>2. TablesTyped'
  BY <1>1 DEF TablesTyped, KeysTyped
<1>3. KeysBound' /\ ReceiptsBound' /\ OrderedEpochs'
  BY <1>1 DEF KeysBound, ReceiptsBound, OrderedEpochs
<1> QED
  BY <1>2, <1>3 DEF IngestionInv

LEMMA AdministerStep == IngestionInv /\ Administer => IngestionInv'
<1> SUFFICES ASSUME IngestionInv, NEW a \in Subjects, 
                    \/ \E s \in Sources, k \in Keys :
                         Enroll(a, s, k) \/ RotateKey(a, s, k) \/ RevokeKey(a, s, k)
                    \/ \E s \in Sources :
                         \/ Suspend(a, s)
                         \/ Resume(a, s)
                         \/ \E quota \in Quotas : ConfigureSafeguards(a, s, quota)
                    \/ \E ev \in Events : DeleteEvidence(a, ev)
                    \/ PurgeExpired(a)
             PROVE  IngestionInv'
  BY DEF Administer
<1>1. source \in [Sources -> SourceType] /\ KeysTyped /\ now \in 0..MaxTime /\ RequestsTyped
  BY DEF IngestionInv, TablesTyped
<1>2. ASSUME NEW s \in Sources, NEW k \in Keys, Enroll(a, s, k) PROVE RegistryStep
  <2>1. NewKey(k) /\ KeysOf(s) = {}
    BY <1>2 DEF Enroll, Enrollable
  <2>2. source' = [source EXCEPT ![s].state = "active", ![s].key = k]
    BY <1>2 DEF Enroll
  <2>3. UNCHANGED <<now, receipts, req>>
    BY <1>2 DEF Enroll
  <2>4. keys' = [keys EXCEPT ![k] = [state |-> "active", source |-> s, version |-> 1]]
    BY <1>2 DEF Enroll
  <2>5. keys' = [x \in Keys |->
           IF x = k THEN [state |-> "active", source |-> s, version |-> 1]
           ELSE IF x \in ActiveKeys(s)
             THEN [keys[x] EXCEPT !.state = "rotated"] ELSE keys[x]]
    BY <2>1, <2>4, <1>1 DEF ActiveKeys, KeysTyped
  <2> HIDE <1>2
  <2> QED
    BY <2>1, <2>2, <2>3, <2>5, NewKeyStep
<1>3. ASSUME NEW s \in Sources, NEW k \in Keys, RotateKey(a, s, k) PROVE RegistryStep
  BY <1>3, NewKeyStep DEF RotateKey, Rotated
<1>4. ASSUME NEW s \in Sources, NEW k \in Keys, RevokeKey(a, s, k) PROVE RegistryStep
  BY <1>4, RevokeStep DEF RevokeKey
<1>5. ASSUME NEW s \in Sources, NEW status \in SourceStates, SetSuspension(s, status)
      PROVE  RegistryStep
  <2>1. source' \in [Sources -> SourceType]
    BY <1>1, <1>5 DEF SetSuspension, SourceType
  <2>2. \A t \in Sources : source'[t].key = source[t].key
    BY <1>1, <1>5 DEF SetSuspension, SourceType
  <2> QED
    BY <2>1, <2>2, <1>5, SourceStep DEF SetSuspension
<1>6. ASSUME NEW s \in Sources, Suspend(a, s) \/ Resume(a, s) PROVE RegistryStep
  BY <1>5, <1>6 DEF Suspend, Resume, SourceStates
<1>7. ASSUME NEW s \in Sources, NEW quota \in Quotas, ConfigureSafeguards(a, s, quota)
      PROVE  RegistryStep
  <2>1. source' \in [Sources -> SourceType]
    BY <1>1, <1>7 DEF ConfigureSafeguards, SourceType
  <2>2. \A t \in Sources : source'[t].key = source[t].key
    BY <1>1, <1>7 DEF ConfigureSafeguards, SourceType
  <2> QED
    BY <2>1, <2>2, <1>7, SourceStep DEF ConfigureSafeguards
<1>8. ASSUME UNCHANGED <<now, source, keys, receipts, req>> PROVE IngestionInv'
  BY <1>1, <1>8, OutsideStep DEF RequestsTyped
<1>9. ASSUME NEW ev \in Events, DeleteEvidence(a, ev) PROVE IngestionInv'
  BY <1>8, <1>9 DEF DeleteEvidence
<1>10. ASSUME PurgeExpired(a) PROVE IngestionInv'
  BY <1>8, <1>10 DEF PurgeExpired
<1> QED
  BY <1>2, <1>3, <1>4, <1>6, <1>7, <1>9, <1>10, RegistryStepKeeps

----------------------------------------------------------------------------
(* Ingestion: the guard *)

(* The key of an active context was enrolled for the envelope's source.    *)
LEMMA ContextBound ==
  ASSUME IngestionInv, NEW e \in Envelopes, ContextActive(e)
  PROVE  keys[e.key].state = "active" /\ keys[e.key].source = e.source
<1>1. KeysBound /\ e.source \in Sources /\ e.key \in Keys
  BY EnvelopeFields DEF IngestionInv
<1>2. source[e.source].key = e.key /\ e.key # NoKey
  BY <1>1, KeysAssumption DEF ContextActive
<1> QED
  BY <1>1, <1>2 DEF KeysBound

(* A key belongs to one source, so an epoch is what its key signed.        *)
LEMMA EpochOfKey ==
  ASSUME IngestionInv, NEW e \in Envelopes, ContextActive(e)
  PROVE  Epoch(e) = {i \in DOMAIN receipts : receipts[i].key = e.key}
<1>1. keys[e.key].source = e.source
  BY ContextBound
<1>2. \A i \in DOMAIN receipts : keys[receipts[i].key].source = receipts[i].source
  BY DEF IngestionInv, ReceiptsBound
<1> QED
  BY <1>1, <1>2 DEF Epoch

(* What an accepted receipt says.                                          *)
LEMMA ReceiptFields ==
  ASSUME IngestionInv, NEW e \in Envelopes
  PROVE  /\ Receipt(e) \in ReceiptType
         /\ Receipt(e).event = e.event /\ Receipt(e).key = e.key
         /\ Receipt(e).source = e.source /\ Receipt(e).nonce = e.nonce
         /\ Receipt(e).seq = e.seq /\ Receipt(e).observed = e.observed
         /\ Receipt(e).subject = e.subject /\ Receipt(e).content = e.content
         /\ Receipt(e).accepted = now
<1>1. now \in Nat
  BY LimitsAssumption DEF IngestionInv, TablesTyped
<1> QED
  BY <1>1, EnvelopeFields DEF Receipt, ReceiptType

(* The positions of what is accepted next.                                 *)
LEMMA Appended ==
  ASSUME IngestionInv, NEW x \in ReceiptType, receipts' = Append(receipts, x)
  PROVE  /\ receipts' \in Seq(ReceiptType)
         /\ Len(receipts) \in Nat /\ Len(receipts') = Len(receipts) + 1
         /\ DOMAIN receipts = 1..Len(receipts)
         /\ DOMAIN receipts' = 1..(Len(receipts) + 1)
         /\ receipts'[Len(receipts) + 1] = x
         /\ \A i \in DOMAIN receipts : receipts'[i] = receipts[i]
                                         /\ receipts[i] \in ReceiptType
BY DEF IngestionInv, TablesTyped

(* An event that the guard lets pass is new, and comes after everything    *)
(* its key signed before.                                                  *)
LEMMA GuardOrders ==
  ASSUME IngestionInv, NEW e \in Envelopes, ContextActive(e),
         ReplayReason(e) = "none", NEW i \in DOMAIN receipts
  PROVE  /\ receipts[i].event # e.event
         /\ receipts[i].key = e.key =>
              /\ receipts[i].nonce # e.nonce
              /\ receipts[i].seq < e.seq
              /\ receipts[i].observed <= e.observed
<1>1. receipts \in Seq(ReceiptType) /\ OrderedEpochs
  BY DEF IngestionInv, TablesTyped
<1>2. \A j \in DOMAIN receipts : receipts[j].seq \in Nat /\ receipts[j].observed \in Nat
  <2>1. \A x \in ReceiptType : x.seq \in Nat /\ x.observed \in Nat
    BY DEF ReceiptType
  <2> QED
    BY <1>1, <2>1
<1>3. receipts[i].event # e.event
  BY DEF ReplayReason
<1>4. ASSUME receipts[i].key = e.key
      PROVE  /\ receipts[i].nonce # e.nonce
             /\ receipts[i].seq < e.seq
             /\ receipts[i].observed <= e.observed
  <2>1. i \in Epoch(e)
    BY <1>4, EpochOfKey
  <2>2. Epoch(e) \subseteq DOMAIN receipts /\ Epoch(e) # {}
    BY <2>1 DEF Epoch
  <2>3. PICK m \in Epoch(e) : /\ Newest(Epoch(e)) = receipts[m]
                              /\ \A j \in Epoch(e) : j <= m
    BY <1>1, <2>2, NewestOfEpoch
  <2>4. receipts[i].nonce # e.nonce
    BY <2>1 DEF ReplayReason
  <2>5. /\ e.seq # receipts[m].seq /\ ~(e.seq < receipts[m].seq)
        /\ ~(e.observed < receipts[m].observed)
    BY <2>2, <2>3 DEF ReplayReason
  <2>6. m \in DOMAIN receipts /\ receipts[m].key = receipts[i].key
    BY <2>3, <1>4 DEF Epoch
  <2>7. i = m \/ i < m
    <3>1. i \in Int /\ m \in Int /\ i <= m
      BY <2>1, <2>3, <2>6, <1>1
    <3> QED
      BY <3>1
  <2>8. /\ receipts[i].seq <= receipts[m].seq
        /\ receipts[i].observed <= receipts[m].observed
    BY <2>6, <2>7, <1>1, <1>2 DEF OrderedEpochs
  <2>9. e.seq \in Nat /\ e.observed \in Nat
    BY EnvelopeFields
  <2>10. /\ receipts[i].seq \in Nat /\ receipts[m].seq \in Nat
         /\ receipts[i].observed \in Nat /\ receipts[m].observed \in Nat
    BY <1>2, <2>6
  <2> QED
    BY <2>4, <2>5, <2>8, <2>9, <2>10
<1> QED
  BY <1>3, <1>4

LEMMA AcceptStep ==
  ASSUME IngestionInv, NEW e \in Envelopes, ContextActive(e),
         ReplayReason(e) = "none", receipts' = Append(receipts, Receipt(e)),
         UNCHANGED <<now, source, keys>>, RequestsTyped'
  PROVE  IngestionInv'
<1>1. Receipt(e) \in ReceiptType
  BY ReceiptFields
<1> DEFINE n == Len(receipts) + 1
<1>2. /\ receipts' \in Seq(ReceiptType) /\ Len(receipts) \in Nat
      /\ DOMAIN receipts = 1..Len(receipts) /\ DOMAIN receipts' = 1..n
      /\ receipts'[n] = Receipt(e)
      /\ \A i \in DOMAIN receipts : receipts'[i] = receipts[i]
  BY <1>1, Appended
<1>3. TablesTyped /\ KeysBound /\ ReceiptsBound /\ OrderedEpochs
  BY DEF IngestionInv
<1>4. TablesTyped' /\ KeysBound'
  BY <1>2, <1>3 DEF TablesTyped, KeysTyped, KeysBound
<1>5. keys[e.key].state = "active" /\ keys[e.key].source = e.source
  BY ContextBound
<1>6. \A i \in DOMAIN receipts' : i = n \/ i \in DOMAIN receipts
  BY <1>2
<1>7. ReceiptsBound'
  BY <1>2, <1>3, <1>5, <1>6, ReceiptFields DEF ReceiptsBound
<1>8. OrderedEpochs'
  <2> SUFFICES ASSUME NEW i \in DOMAIN receipts', NEW j \in DOMAIN receipts', i < j
               PROVE  /\ receipts'[i].event # receipts'[j].event
                      /\ receipts'[i].key = receipts'[j].key =>
                           /\ receipts'[i].nonce # receipts'[j].nonce
                           /\ receipts'[i].seq < receipts'[j].seq
                           /\ receipts'[i].observed <= receipts'[j].observed
    BY DEF OrderedEpochs
  <2>1. i \in DOMAIN receipts
    BY <1>2
  <2>2. CASE j = n
    BY <2>1, <2>2, <1>2, GuardOrders, ReceiptFields
  <2>3. CASE j \in DOMAIN receipts
    BY <2>1, <2>3, <1>2, <1>3 DEF OrderedEpochs
  <2> QED
    BY <2>2, <2>3, <1>6
<1> QED
  BY <1>4, <1>7, <1>8 DEF IngestionInv

(* The guard answers that an event is accepted only when its context is    *)
(* active, the source is within its quota and nothing speaks against it.   *)
LEMMA GuardAccepts ==
  ASSUME NEW e, NEW begun, GuardOutcome(e, begun) = "accepted"
  PROVE  /\ ContextActive(e)
         /\ ~(CurrentRate(e.source, begun).accepted >= source[e.source].quota)
         /\ FreshnessReason(e, now) = "none" /\ ReplayReason(e) = "none"
<1>1. FreshnessReason(e, now) # "accepted"
  BY DEF FreshnessReason
<1>2. ReplayReason(e) # "accepted"
  BY DEF ReplayReason
<1>3. GuardReason(e, now) # "accepted"
  BY <1>1, <1>2 DEF GuardReason
<1>4. ContextActive(e) /\ GuardReason(e, now) = "none"
  BY <1>3 DEF GuardOutcome
<1>5. ~(CurrentRate(e.source, begun).accepted >= source[e.source].quota)
  BY <1>4 DEF GuardOutcome
<1> QED
  BY <1>4, <1>5 DEF GuardReason

(* The effects of a guard's outcome.                                       *)
LEMMA GuardEffects ==
  ASSUME NEW r \in Requests, NEW begun, ApplyGuard(r, begun)
  PROVE  LET e       == req[r].envelope
             held    == CurrentRate(e.source, begun)
             outcome == GuardOutcome(e, begun)
         IN  /\ outcome = "accepted" => Accept(e, held)
             /\ outcome = "RATE_LIMITED" => Limit(e, held)
             /\ outcome = "CONTEXT_NOT_FOUND" =>
                  UNCHANGED <<source, rate, receipts, stored>>
             /\ outcome \notin {"accepted", "RATE_LIMITED", "CONTEXT_NOT_FOUND"} =>
                  /\ rate' = [rate EXCEPT ![e.source] = held]
                  /\ UNCHANGED <<source, receipts, stored>>
BY DEF ApplyGuard

LEMMA GuardStep ==
  ASSUME IngestionInv, NEW r \in Requests, NEW begun, ApplyGuard(r, begun)
  PROVE  IngestionInv'
<1> DEFINE e == req[r].envelope
           outcome == GuardOutcome(e, begun)
           held == CurrentRate(e.source, begun)
<1>1. /\ source \in [Sources -> SourceType] /\ now \in 0..MaxTime
      /\ RequestsTyped
  BY DEF IngestionInv, TablesTyped
<1>2. req[r].pc = "guard" /\ Answered(r) /\ UNCHANGED <<now, member, keys>>
  BY DEF ApplyGuard
<1>3. e \in Envelopes
  BY <1>1, <1>2 DEF RequestsTyped
<1>4. RequestsTyped'
  BY <1>1, <1>2 DEF RequestsTyped, Answered, NoRequest
<1>5. /\ outcome = "accepted" => Accept(e, held)
      /\ outcome = "RATE_LIMITED" => Limit(e, held)
      /\ outcome \notin {"accepted", "RATE_LIMITED"} => UNCHANGED <<source, receipts>>
  BY GuardEffects
<1> HIDE DEF e, outcome, held
<1>6. CASE outcome = "accepted"
  <2>1. ContextActive(e) /\ ReplayReason(e) = "none"
    BY <1>6, GuardAccepts DEF outcome
  <2>2. receipts' = Append(receipts, Receipt(e)) /\ UNCHANGED source
    BY <1>5, <1>6 DEF Accept
  <2> QED
    BY <1>2, <1>3, <1>4, <2>1, <2>2, AcceptStep
<1>7. CASE outcome = "RATE_LIMITED"
  <2>1. UNCHANGED receipts
    BY <1>5, <1>7 DEF Limit
  <2>2. \/ UNCHANGED source
        \/ source' = [source EXCEPT ![e.source].state = "suspended"]
    BY <1>5, <1>7 DEF Limit
  <2>3. source' \in [Sources -> SourceType]
    BY <1>1, <2>2 DEF SourceType, SourceStates
  <2>4. \A s \in Sources : source'[s].key = source[s].key
    BY <1>1, <2>2 DEF SourceType
  <2>5. KeysTyped' /\ KeysBound'
    BY <1>2, <2>4 DEF IngestionInv, TablesTyped, KeysTyped, KeysBound
  <2>6. TablesTyped'
    BY <1>1, <1>2, <1>4, <2>1, <2>3, <2>5 DEF IngestionInv, TablesTyped
  <2>7. ReceiptsBound' /\ OrderedEpochs'
    BY <1>2, <2>1 DEF IngestionInv, ReceiptsBound, OrderedEpochs
  <2> QED
    BY <2>5, <2>6, <2>7 DEF IngestionInv
<1>8. CASE outcome \notin {"accepted", "RATE_LIMITED"}
  BY <1>1, <1>2, <1>4, <1>5, <1>8, OutsideStep
<1> QED
  BY <1>6, <1>7, <1>8

LEMMA IngestionStep == IngestionInv /\ [IngestionNext]_ingestionVars => IngestionInv'
<1> SUFFICES ASSUME IngestionInv, [IngestionNext]_ingestionVars PROVE IngestionInv'
  OBVIOUS
<1>1. now \in 0..MaxTime /\ RequestsTyped
  BY DEF IngestionInv, TablesTyped
<1>2. CASE Administer
  BY <1>2, AdministerStep
<1>3. ASSUME NEW r \in Requests, NEW e \in Envelopes, Verify(r, e) PROVE IngestionInv'
  <2>1. UNCHANGED <<now, source, keys, receipts>>
    BY <1>3 DEF Verify
  <2>2. RequestsTyped'
    BY <1>1, <1>3, LimitsAssumption DEF Verify, RequestsTyped, NoRequest
  <2> QED
    BY <1>1, <2>1, <2>2, OutsideStep
<1>4. ASSUME NEW r \in Requests, NEW begun \in 0..now, ApplyGuard(r, begun)
      PROVE  IngestionInv'
  BY <1>4, GuardStep
<1>5. ASSUME NEW r \in Requests, Unavailable(r) PROVE IngestionInv'
  <2>1. UNCHANGED <<now, source, keys, receipts>>
    BY <1>5 DEF Unavailable
  <2>2. RequestsTyped'
    BY <1>1, <1>5 DEF Unavailable, Answered, RequestsTyped, NoRequest
  <2> QED
    BY <1>1, <2>1, <2>2, OutsideStep
<1>6. CASE IngestionTick
  <2>1. UNCHANGED <<source, keys, receipts, req>> /\ now' \in 0..MaxTime /\ now <= now'
    BY <1>1, <1>6, LimitsAssumption DEF IngestionTick
  <2>2. RequestsTyped'
    BY <1>1, <2>1, LimitsAssumption DEF RequestsTyped
  <2> QED
    BY <2>1, <2>2, OutsideStep
<1>7. ASSUME NEW u \in Subjects, SetMembership(u) PROVE IngestionInv'
  <2>1. UNCHANGED <<now, source, keys, receipts, req>>
    BY <1>7 DEF SetMembership
  <2> QED
    BY <1>1, <2>1, OutsideStep DEF RequestsTyped
<1>8. CASE UNCHANGED ingestionVars
  <2>1. UNCHANGED <<now, source, keys, receipts, req>>
    BY <1>8 DEF ingestionVars
  <2> QED
    BY <1>1, <2>1, OutsideStep DEF RequestsTyped
<1> QED
  BY <1>2, <1>3, <1>4, <1>5, <1>6, <1>7, <1>8 DEF IngestionNext, Ingest

----------------------------------------------------------------------------
(* Ingestion: the theorems *)

(* The invariant holds in every behaviour.                                 *)
THEOREM IngestionInvariant == IngestionSpec => []IngestionInv
<1>1. IngestionInit => IngestionInv
  BY IngestionInitial
<1>2. IngestionInv /\ [IngestionNext]_ingestionVars => IngestionInv'
  BY IngestionStep
<1> QED
  BY <1>1, <1>2, PTL DEF IngestionSpec

(* Over however many requests, rotations and suspensions: an event is      *)
(* accepted once in the tenant, and within a key epoch nonces are fresh,   *)
(* sequences rise and observations never go back (the checks of the guard  *)
(* under the source's row).                                                *)
THEOREM EpochsOrdered == IngestionSpec => []OrderedEpochs
<1>1. IngestionInv => OrderedEpochs
  BY DEF IngestionInv
<1> QED
  BY <1>1, IngestionInvariant, PTL

(* Only the guard accepts.                                                 *)
LEMMA OnlyTheGuardAccepts ==
  ASSUME IngestionNext, receipts' # receipts
  PROVE  \E r \in Requests, begun \in 0..now :
           /\ ApplyGuard(r, begun)
           /\ GuardOutcome(req[r].envelope, begun) = "accepted"
<1>1. ~Administer
  BY DEF Administer, Enroll, RotateKey, RevokeKey, Suspend, Resume,
         SetSuspension, ConfigureSafeguards, DeleteEvidence, PurgeExpired
<1>2. ~IngestionTick /\ ~(\E u \in Subjects : SetMembership(u))
  BY DEF IngestionTick, SetMembership
<1>3. PICK r \in Requests :
        \/ \E e \in Envelopes : Verify(r, e)
        \/ \E begun \in 0..now : ApplyGuard(r, begun)
        \/ Unavailable(r)
  BY <1>1, <1>2 DEF IngestionNext, Ingest
<1>4. PICK begun \in 0..now : ApplyGuard(r, begun)
  BY <1>3 DEF Verify, Unavailable
<1>5. GuardOutcome(req[r].envelope, begun) = "accepted"
  <2> SUFFICES ASSUME GuardOutcome(req[r].envelope, begun) # "accepted"
               PROVE  UNCHANGED receipts
    OBVIOUS
  <2> QED
    BY <1>4, GuardEffects DEF Limit
<1> QED
  BY <1>4, <1>5

(* Evidence is accepted only while its source, its key and its subject are *)
(* active, although the service verified it under a context it read before *)
(* (the guard reads the context again).                                    *)
THEOREM AcceptanceIsActive == IngestionSpec => AcceptedWhileActive
<1> DEFINE Accepting ==
      receipts' # receipts =>
        LET e == receipts'[Len(receipts')]
        IN  /\ member[e.subject]
            /\ source[e.source].state = "active"
            /\ ActiveKeys(e.source) = {e.key}
<1>1. IngestionInv /\ [IngestionNext]_ingestionVars => [Accepting]_ingestionVars
  <2> SUFFICES ASSUME IngestionInv, IngestionNext, receipts' # receipts
               PROVE  LET x == receipts'[Len(receipts')]
                      IN  /\ member[x.subject]
                          /\ source[x.source].state = "active"
                          /\ ActiveKeys(x.source) = {x.key}
    OBVIOUS
  <2>1. PICK r \in Requests, begun \in 0..now :
          /\ ApplyGuard(r, begun)
          /\ GuardOutcome(req[r].envelope, begun) = "accepted"
    BY OnlyTheGuardAccepts
  <2> DEFINE e == req[r].envelope
  <2>2. e \in Envelopes
    BY <2>1 DEF ApplyGuard, IngestionInv, TablesTyped, RequestsTyped
  <2>3. receipts' = Append(receipts, Receipt(e)) /\ ContextActive(e)
    <3>1. Accept(e, CurrentRate(e.source, begun))
      BY <2>1, GuardEffects
    <3> HIDE DEF e
    <3>2. GuardOutcome(e, begun) = "accepted"
      BY <2>1 DEF e
    <3>3. ContextActive(e)
      BY <3>2, GuardAccepts
    <3> QED
      BY <3>1, <3>3 DEF Accept
  <2> HIDE DEF e
  <2>4. receipts'[Len(receipts')] = Receipt(e)
    BY <2>2, <2>3, ReceiptFields, Appended
  <2>5. keys[e.key].state = "active" /\ keys[e.key].source = e.source
    BY <2>2, <2>3, ContextBound
  <2>6. \A k \in ActiveKeys(e.source) : k = e.key
    BY <2>3 DEF ActiveKeys, KeysOf, ContextActive, IngestionInv, KeysBound
  <2>7. ActiveKeys(e.source) = {e.key}
    BY <2>2, <2>5, <2>6, EnvelopeFields DEF ActiveKeys, KeysOf
  <2>8. Receipt(e).subject = e.subject /\ Receipt(e).source = e.source /\ Receipt(e).key = e.key
    BY <2>2, ReceiptFields
  <2> QED
    BY <2>3, <2>4, <2>7, <2>8 DEF ContextActive
<1> QED
  BY <1>1, IngestionInvariant, PTL DEF IngestionSpec, AcceptedWhileActive

----------------------------------------------------------------------------
(* Ingestion: the in-memory guard *)

KeyEpoch(k) == {i \in DOMAIN receipts : receipts[i].key = k}

(* What the in-memory guard keeps of a key's epoch.                        *)
MemoryEpoch(k) ==
  [latest |-> IF KeyEpoch(k) = {} THEN <<>>
              ELSE <<Newest(KeyEpoch(k)).seq, Newest(KeyEpoch(k)).observed>>,
   nonces |-> {receipts[i].nonce : i \in KeyEpoch(k)}]

View(suspended, rates, epochs, events) ==
  [suspended |-> suspended, rates |-> rates, epochs |-> epochs, events |-> events]

SuspendedSources == {s \in Sources : source[s].state = "suspended"}
EventsAccepted == {receipts[i].event : i \in DOMAIN receipts}

LEMMA MemoryViewFields ==
  MemoryView = View(SuspendedSources, rate, [k \in Keys |-> MemoryEpoch(k)],
                    EventsAccepted)
BY DEF MemoryView, View, SuspendedSources, EventsAccepted, MemoryEpoch, KeyEpoch

(* The two guards take a new window at the same moments.                   *)
LEMMA RatesAgree ==
  ASSUME NEW s, NEW t
  PROVE  MemoryRate(MemoryView, s, t) = CurrentRate(s, t)
<1>1. MemoryView.rates = rate
  BY DEF MemoryView
<1> QED
  BY <1>1 DEF MemoryRate, CurrentRate

(* They check in the same order and give the same reason.                  *)
LEMMA ReasonsAgree ==
  ASSUME IngestionInv, NEW e \in Envelopes, ContextActive(e)
  PROVE  MemoryReason(MemoryView, e, now) = GuardOutcome(e, now)
<1> DEFINE epoch == Epoch(e)
           latest == MemoryView.epochs[e.key].latest
<1>1. e.source \notin MemoryView.suspended
  BY DEF MemoryView, ContextActive
<1>2. epoch = KeyEpoch(e.key) /\ e.key \in Keys
  BY EpochOfKey, EnvelopeFields DEF KeyEpoch
<1>3. MemoryView.epochs[e.key] = MemoryEpoch(e.key)
  BY <1>2, MemoryViewFields DEF View
<1>4. /\ latest = IF epoch = {} THEN <<>> ELSE <<Newest(epoch).seq, Newest(epoch).observed>>
      /\ MemoryView.epochs[e.key].nonces = {receipts[i].nonce : i \in epoch}
  BY <1>2, <1>3 DEF MemoryEpoch
<1>5. MemoryView.events = {receipts[i].event : i \in DOMAIN receipts}
  BY DEF MemoryView
<1>6. latest # <<>> <=> epoch # {}
  BY <1>4
<1>7. epoch # {} => latest[1] = Newest(epoch).seq /\ latest[2] = Newest(epoch).observed
  BY <1>4
<1> DEFINE replay ==
      IF e.event \in MemoryView.events THEN "EVENT_REPLAYED"
      ELSE IF e.nonce \in MemoryView.epochs[e.key].nonces THEN "NONCE_REPLAYED"
      ELSE IF latest # <<>> /\ e.seq = latest[1] THEN "SEQUENCE_REPLAYED"
      ELSE IF latest # <<>> /\ e.seq < latest[1] THEN "SEQUENCE_REORDERED"
      ELSE IF latest # <<>> /\ e.observed < latest[2] THEN "OBSERVATION_REORDERED"
      ELSE "accepted"
<1>8. replay = IF ReplayReason(e) = "none" THEN "accepted" ELSE ReplayReason(e)
  <2> HIDE DEF latest
  <2>1. e.event \in MemoryView.events <=> \E i \in DOMAIN receipts : receipts[i].event = e.event
    BY <1>5
  <2>2. e.nonce \in MemoryView.epochs[e.key].nonces
          <=> \E i \in epoch : receipts[i].nonce = e.nonce
    BY <1>4
  <2> QED
    BY <2>1, <2>2, <1>6, <1>7 DEF ReplayReason
<1>9. FreshnessReason(e, now) # "accepted"
  BY DEF FreshnessReason
<1>10. MemoryReason(MemoryView, e, now) =
         IF CurrentRate(e.source, now).accepted >= source[e.source].quota THEN "RATE_LIMITED"
         ELSE IF FreshnessReason(e, now) # "none" THEN FreshnessReason(e, now)
         ELSE replay
  BY <1>1, RatesAgree DEF MemoryReason
<1> HIDE DEF replay
<1>11. GuardReason(e, now) = IF FreshnessReason(e, now) # "none"
         THEN FreshnessReason(e, now) ELSE ReplayReason(e)
  BY DEF GuardReason
<1> QED
  BY <1>8, <1>10, <1>11 DEF GuardOutcome

Kept(rates, e, held) == [rates EXCEPT ![e.source] = held]
CountAccepted(rates, e) == [rates EXCEPT ![e.source].accepted = @ + 1]
CountLimited(rates, e) == [rates EXCEPT ![e.source].limited = @ + 1]
Suspending(suspended, e, held) ==
  IF held.limited + 1 >= Threshold THEN suspended \cup {e.source} ELSE suspended
Advance(epochs, e) ==
  [epochs EXCEPT ![e.key] = [latest |-> <<e.seq, e.observed>>,
                             nonces |-> @.nonces \cup {e.nonce}]]
WithEvent(events, e) == events \cup {e.event}

(* What the in-memory guard keeps after each outcome.                      *)
LEMMA NextView ==
  ASSUME NEW suspended, NEW rates, NEW epochs, NEW events, NEW e, NEW t,
         NEW view, NEW held, NEW kept,
         view = View(suspended, rates, epochs, events),
         held = MemoryRate(view, e.source, t),
         kept = Kept(rates, e, held)
  PROVE  /\ MemoryReason(view, e, t) = "accepted" =>
              MemoryNext(view, e, t) =
                View(suspended, CountAccepted(kept, e),
                     Advance(epochs, e), WithEvent(events, e))
         /\ MemoryReason(view, e, t) = "RATE_LIMITED" =>
              MemoryNext(view, e, t) =
                View(Suspending(suspended, e, held),
                     CountLimited(kept, e), epochs, events)
         /\ MemoryReason(view, e, t) \notin {"accepted", "RATE_LIMITED"} =>
              MemoryNext(view, e, t) = View(suspended, kept, epochs, events)
<1> DEFINE reason == MemoryReason(view, e, t)
<1>1. CASE reason = "accepted"
  BY <1>1 DEF MemoryNext, View, Kept, CountAccepted, Advance, WithEvent
<1>2. CASE reason = "RATE_LIMITED"
  BY <1>2 DEF MemoryNext, View, Kept, CountLimited, Suspending
<1>3. CASE reason \notin {"accepted", "RATE_LIMITED"}
  BY <1>3 DEF MemoryNext, View, Kept
<1> QED
  BY <1>1, <1>2, <1>3

Last(S) == CHOOSE i \in S : \A j \in S : j <= i

LEMMA LastOf ==
  ASSUME NEW n \in Nat, NEW S, S \subseteq 1..n
  PROVE  /\ S # {} => Last(S) \in S /\ \A j \in S : j <= Last(S)
         /\ Last(S \cup {n + 1}) = n + 1
<1>1. ASSUME S # {} PROVE Last(S) \in S /\ \A j \in S : j <= Last(S)
  <2>1. \E i \in S : \A j \in S : j <= i
    BY <1>1, GreatestExists
  <2> QED
    BY <2>1 DEF Last
<1>2. Last(S \cup {n + 1}) = n + 1
  <2> DEFINE T == S \cup {n + 1}
  <2>1. n + 1 \in T /\ \A j \in T : j \in Int /\ j <= n + 1
    OBVIOUS
  <2>2. \A i \in T : (\A j \in T : j <= i) => i = n + 1
    BY <2>1
  <2> HIDE DEF T
  <2>3. Last(T) = n + 1
    BY <2>1, <2>2 DEF Last
  <2> QED
    BY <2>3 DEF T
<1> QED
  BY <1>1, <1>2

(* An accepted event is the newest of its key's epoch, and of no other's.  *)
LEMMA AcceptedView ==
  ASSUME IngestionInv, NEW e \in Envelopes,
         receipts' = Append(receipts, Receipt(e))
  PROVE  /\ \A k \in Keys : MemoryEpoch(k)' =
              IF k = e.key
              THEN [latest |-> <<e.seq, e.observed>>,
                    nonces |-> MemoryEpoch(k).nonces \cup {e.nonce}]
              ELSE MemoryEpoch(k)
         /\ EventsAccepted' = EventsAccepted \cup {e.event}
<1> DEFINE n == Len(receipts)
<1>1. /\ n \in Nat /\ DOMAIN receipts = 1..n /\ DOMAIN receipts' = 1..(n + 1)
      /\ receipts'[n + 1] = Receipt(e)
      /\ \A i \in DOMAIN receipts : receipts'[i] = receipts[i]
  BY ReceiptFields, Appended
<1> HIDE DEF n
<1>2. n + 1 \notin 1..n /\ 1..(n + 1) = (1..n) \cup {n + 1}
  BY <1>1
<1>3. /\ Receipt(e).event = e.event /\ Receipt(e).key = e.key
      /\ Receipt(e).nonce = e.nonce /\ Receipt(e).seq = e.seq
      /\ Receipt(e).observed = e.observed
  BY ReceiptFields
<1>4. EventsAccepted' = EventsAccepted \cup {e.event}
  BY <1>1, <1>2, <1>3 DEF EventsAccepted
<1>5. ASSUME NEW k \in Keys
      PROVE  MemoryEpoch(k)' =
               IF k = e.key
               THEN [latest |-> <<e.seq, e.observed>>,
                     nonces |-> MemoryEpoch(k).nonces \cup {e.nonce}]
               ELSE MemoryEpoch(k)
  <2> DEFINE S == KeyEpoch(k)
             T == KeyEpoch(k)'
  <2>1. T = IF k = e.key THEN S \cup {n + 1} ELSE S
    BY <1>1, <1>2, <1>3 DEF KeyEpoch
  <2>2. S \subseteq 1..n
    BY <1>1 DEF KeyEpoch
  <2>3. MemoryEpoch(k)' =
          [latest |-> IF T = {} THEN <<>>
                      ELSE <<receipts'[Last(T)].seq, receipts'[Last(T)].observed>>,
           nonces |-> {receipts'[i].nonce : i \in T}]
    BY DEF MemoryEpoch, Newest, Last
  <2>4. MemoryEpoch(k) =
          [latest |-> IF S = {} THEN <<>>
                      ELSE <<receipts[Last(S)].seq, receipts[Last(S)].observed>>,
           nonces |-> {receipts[i].nonce : i \in S}]
    BY DEF MemoryEpoch, Newest, Last
  <2> HIDE DEF S, T
  <2>5. S # {} => Last(S) \in S
    BY <1>1, <2>2, LastOf
  <2>6. Last(S \cup {n + 1}) = n + 1
    BY <1>1, <2>2, LastOf
  <2>7. \A i \in S : receipts'[i] = receipts[i]
    BY <1>1, <2>2
  <2>8. CASE k = e.key
    <3>1. T = S \cup {n + 1} /\ T # {}
      BY <2>1, <2>8
    <3>2. receipts'[Last(T)] = Receipt(e)
      BY <3>1, <2>6, <1>1
    <3>3. {receipts'[i].nonce : i \in T} = {receipts[i].nonce : i \in S} \cup {e.nonce}
      BY <3>1, <2>7, <1>1, <1>3
    <3>4. MemoryEpoch(k).nonces = {receipts[i].nonce : i \in S}
      BY <2>4
    <3>5. <<receipts'[Last(T)].seq, receipts'[Last(T)].observed>> = <<e.seq, e.observed>>
      BY <3>2, <1>3
    <3>6. MemoryEpoch(k)' =
            [latest |-> <<e.seq, e.observed>>,
             nonces |-> MemoryEpoch(k).nonces \cup {e.nonce}]
      BY <2>3, <3>1, <3>3, <3>4, <3>5
    <3> QED
      BY <2>8, <3>6
  <2>9. CASE k # e.key
    <3>1. T = S
      BY <2>1, <2>9
    <3>2. {receipts'[i].nonce : i \in T} = {receipts[i].nonce : i \in S}
      BY <3>1, <2>7
    <3>3. S # {} => receipts'[Last(T)] = receipts[Last(S)]
      BY <3>1, <2>5, <2>7
    <3> QED
      BY <2>3, <2>4, <2>9, <3>1, <3>2, <3>3
  <2> QED
    BY <2>8, <2>9
<1> QED
  BY <1>4, <1>5

LEMMA RowCounted ==
  ASSUME NEW f, NEW e, NEW held
  PROVE  /\ [f EXCEPT ![e.source] = [held EXCEPT !.accepted = @ + 1]]
              = CountAccepted(Kept(f, e, held), e)
         /\ [f EXCEPT ![e.source] = [held EXCEPT !.limited = @ + 1]]
              = CountLimited(Kept(f, e, held), e)
BY DEF Kept, CountAccepted, CountLimited

(* The answer of the database guard and what it leaves behind are those of *)
(* the in-memory guard.                                                    *)
LEMMA GuardsAgreeStep ==
  ASSUME IngestionInv, NEW r \in Requests, ApplyGuard(r, now),
         ContextActive(req[r].envelope)
  PROVE  /\ GuardOutcome(req[r].envelope, now)
              = MemoryReason(MemoryView, req[r].envelope, now)
         /\ MemoryView' = MemoryNext(MemoryView, req[r].envelope, now)
<1> DEFINE e == req[r].envelope
           outcome == GuardOutcome(e, now)
           held == CurrentRate(e.source, now)
           kept == Kept(rate, e, held)
           epochs == [k \in Keys |-> MemoryEpoch(k)]
<1>1. e \in Envelopes /\ source \in [Sources -> SourceType]
  BY DEF ApplyGuard, IngestionInv, TablesTyped, RequestsTyped
<1>2. outcome = MemoryReason(MemoryView, e, now)
  BY <1>1, ReasonsAgree
<1>3. /\ outcome = "accepted" => Accept(e, held)
      /\ outcome = "RATE_LIMITED" => Limit(e, held)
      /\ outcome \notin {"accepted", "RATE_LIMITED", "CONTEXT_NOT_FOUND"} =>
           /\ rate' = kept
           /\ UNCHANGED <<source, receipts, stored>>
  BY GuardEffects DEF Kept
<1>4. outcome # "CONTEXT_NOT_FOUND"
  <2>1. FreshnessReason(e, now) # "CONTEXT_NOT_FOUND"
    BY DEF FreshnessReason
  <2>2. ReplayReason(e) # "CONTEXT_NOT_FOUND"
    BY DEF ReplayReason
  <2>3. GuardReason(e, now) # "CONTEXT_NOT_FOUND"
    BY <2>1, <2>2 DEF GuardReason
  <2> QED
    BY <2>3 DEF GuardOutcome
<1>5. MemoryView = View(SuspendedSources, rate, epochs, EventsAccepted)
  BY MemoryViewFields
<1>6. MemoryView' = View(SuspendedSources', rate', [k \in Keys |-> MemoryEpoch(k)'],
                         EventsAccepted')
  BY DEF MemoryView, View, SuspendedSources, EventsAccepted, MemoryEpoch, KeyEpoch
<1>7. held = MemoryRate(MemoryView, e.source, now)
  BY RatesAgree
<1>8. e.source \in Sources /\ e.key \in Keys
  BY <1>1, EnvelopeFields
<1> HIDE DEF e, outcome, held
<1>9. /\ outcome = "accepted" =>
           MemoryNext(MemoryView, e, now) =
             View(SuspendedSources, CountAccepted(kept, e),
                  Advance(epochs, e), WithEvent(EventsAccepted, e))
      /\ outcome = "RATE_LIMITED" =>
           MemoryNext(MemoryView, e, now) =
             View(Suspending(SuspendedSources, e, held),
                  CountLimited(kept, e), epochs, EventsAccepted)
      /\ outcome \notin {"accepted", "RATE_LIMITED"} =>
           MemoryNext(MemoryView, e, now)
             = View(SuspendedSources, kept, epochs, EventsAccepted)
  <2> HIDE DEF epochs
  <2>1. kept = Kept(rate, e, held)
    OBVIOUS
  <2> HIDE DEF kept
  <2>2. MemoryReason(MemoryView, e, now) = "accepted" =>
           MemoryNext(MemoryView, e, now) =
             View(SuspendedSources, CountAccepted(kept, e),
                  Advance(epochs, e), WithEvent(EventsAccepted, e))
    BY <1>5, <1>7, <2>1, NextView
  <2>3. MemoryReason(MemoryView, e, now) = "RATE_LIMITED" =>
           MemoryNext(MemoryView, e, now) =
             View(Suspending(SuspendedSources, e, held),
                  CountLimited(kept, e), epochs, EventsAccepted)
    BY <1>5, <1>7, <2>1, NextView
  <2>4. MemoryReason(MemoryView, e, now) \notin {"accepted", "RATE_LIMITED"} =>
           MemoryNext(MemoryView, e, now)
             = View(SuspendedSources, kept, epochs, EventsAccepted)
    BY <1>5, <1>7, <2>1, NextView
  <2> QED
    BY <1>2, <2>2, <2>3, <2>4
<1>10. UNCHANGED receipts =>
         [k \in Keys |-> MemoryEpoch(k)'] = epochs /\ EventsAccepted' = EventsAccepted
  BY DEF MemoryEpoch, KeyEpoch, Newest, EventsAccepted
<1>11. UNCHANGED source => SuspendedSources' = SuspendedSources
  BY DEF SuspendedSources
<1>12. MemoryView' = MemoryNext(MemoryView, e, now)
  <2>1. CASE outcome = "accepted"
    <3>1. /\ receipts' = Append(receipts, Receipt(e)) /\ UNCHANGED source
          /\ rate' = [rate EXCEPT ![e.source] = [held EXCEPT !.accepted = @ + 1]]
      BY <1>3, <2>1 DEF Accept
    <3>2. \A k \in Keys : MemoryEpoch(k)' =
            IF k = e.key
            THEN [latest |-> <<e.seq, e.observed>>,
                  nonces |-> MemoryEpoch(k).nonces \cup {e.nonce}]
            ELSE MemoryEpoch(k)
      BY <1>1, <3>1, AcceptedView
    <3>3. EventsAccepted' = WithEvent(EventsAccepted, e)
      BY <1>1, <3>1, AcceptedView DEF WithEvent
    <3>4. [k \in Keys |-> MemoryEpoch(k)'] = Advance(epochs, e)
      BY <3>2, <1>8 DEF Advance
    <3>5. rate' = CountAccepted(kept, e)
      BY <3>1, RowCounted
    <3> QED
      BY <1>6, <1>9, <1>11, <2>1, <3>1, <3>3, <3>4, <3>5
  <2>2. CASE outcome = "RATE_LIMITED"
    <3>1. UNCHANGED receipts
      BY <1>3, <2>2 DEF Limit
    <3>2. rate' = CountLimited(kept, e)
      BY <1>3, <2>2, RowCounted DEF Limit
    <3>3. SuspendedSources' = Suspending(SuspendedSources, e, held)
      <4>1. source' = IF held.limited + 1 >= Threshold
              THEN [source EXCEPT ![e.source].state = "suspended"] ELSE source
        BY <1>3, <2>2 DEF Limit
      <4>2. \A s \in Sources :
              source'[s].state = IF held.limited + 1 >= Threshold /\ s = e.source
                                 THEN "suspended" ELSE source[s].state
        BY <4>1, <1>1, <1>8 DEF SourceType
      <4> QED
        BY <4>2, <1>8 DEF SuspendedSources, Suspending
    <3> QED
      BY <1>6, <1>9, <1>10, <2>2, <3>1, <3>2, <3>3
  <2>3. CASE outcome \notin {"accepted", "RATE_LIMITED"}
    BY <1>3, <1>4, <1>6, <1>9, <1>10, <1>11, <2>3
  <2> QED
    BY <2>1, <2>2, <2>3
<1> QED
  BY <1>2, <1>12 DEF e, outcome

(* The database guard decides and moves as the in-memory guard of the same *)
(* interface does: same answer, same reason, same rates, epochs and        *)
(* suspension, in every reachable state, for a call that did not wait      *)
(* (migrations 016 and 018, createInMemoryEvidenceReplayGuard).            *)
THEOREM GuardsAlwaysAgree == IngestionSpec => GuardsAgree
<1>1. IngestionInv =>
        \A r \in Requests :
          LET e == req[r].envelope
          IN  ApplyGuard(r, now) /\ ContextActive(e) =>
                /\ GuardOutcome(e, now) = MemoryReason(MemoryView, e, now)
                /\ MemoryView' = MemoryNext(MemoryView, e, now)
  BY GuardsAgreeStep
<1> QED
  BY <1>1, IngestionInvariant, PTL DEF IngestionSpec, GuardsAgree

----------------------------------------------------------------------------
(* Ingestion: the encrypted copies *)

(* The copy of an accepted event is the one its receipt was given, until   *)
(* an administrator erases it; nothing else is stored.                     *)
CopiesKept ==
  /\ stored = [ev \in Events |-> stored[ev]]
  /\ \A ev \in Events : stored[ev].state \in {"none", "active", "deleted"}
  /\ \A ev \in Events :
       (stored[ev].state # "none") <=>
         (\E i \in DOMAIN receipts : receipts[i].event = ev)
  /\ \A i \in DOMAIN receipts :
       LET copy == stored[receipts[i].event]
       IN  /\ copy.until = receipts[i].accepted + Retention
           /\ copy.state = "active" =>
                copy.evidence = [event |-> receipts[i].event,
                                 subject |-> receipts[i].subject,
                                 source |-> receipts[i].source,
                                 content |-> receipts[i].content]

LEMMA CopiesInitial == IngestionInit => CopiesKept
<1> SUFFICES ASSUME IngestionInit PROVE CopiesKept
  OBVIOUS
<1>1. stored = [ev \in Events |-> NoEvidence] /\ receipts = << >>
  BY DEF IngestionInit
<1>2. DOMAIN receipts = {} /\ NoEvidence.state = "none"
  BY <1>1 DEF NoEvidence
<1> QED
  BY <1>1, <1>2 DEF CopiesKept

(* Some copies are erased.                                                 *)
LEMMA ErasedStep ==
  ASSUME IngestionInv, CopiesKept, UNCHANGED receipts,
         NEW S, \A ev \in S : ev \in Events /\ stored[ev].state = "active",
         stored' = [ev \in Events |-> IF ev \in S THEN Erased(ev) ELSE stored[ev]]
  PROVE  CopiesKept'
<1>1. \A i \in DOMAIN receipts : receipts[i].event \in Events
  <2>1. \A x \in ReceiptType : x.event \in Events
    BY DEF ReceiptType
  <2> QED
    BY <2>1 DEF IngestionInv, TablesTyped
<1>2. \A ev \in Events :
        /\ stored'[ev].until = stored[ev].until
        /\ stored'[ev].state = IF ev \in S THEN "deleted" ELSE stored[ev].state
        /\ ev \notin S => stored'[ev] = stored[ev]
  BY DEF Erased
<1>3. stored' = [ev \in Events |-> stored'[ev]]
  OBVIOUS
<1>4. \A ev \in Events : stored'[ev].state # "none" <=> stored[ev].state # "none"
  BY <1>2
<1> QED
  BY <1>1, <1>2, <1>3, <1>4 DEF CopiesKept

(* The receipt and its copy are written in one transaction.                *)
LEMMA StoredStep ==
  ASSUME IngestionInv, CopiesKept, NEW e \in Envelopes, ReplayReason(e) = "none",
         receipts' = Append(receipts, Receipt(e)),
         stored' = [stored EXCEPT ![e.event] = StoredEvidence(e)]
  PROVE  CopiesKept'
<1> DEFINE n == Len(receipts) + 1
<1>1. /\ DOMAIN receipts = 1..Len(receipts) /\ DOMAIN receipts' = 1..n
      /\ receipts'[n] = Receipt(e) /\ Len(receipts) \in Nat
      /\ \A i \in DOMAIN receipts : receipts'[i] = receipts[i]
                                      /\ receipts[i] \in ReceiptType
  BY ReceiptFields, Appended
<1>2. \A i \in DOMAIN receipts' : i = n \/ i \in DOMAIN receipts
  BY <1>1
<1>3. DOMAIN receipts \subseteq DOMAIN receipts' /\ n \in DOMAIN receipts'
  BY <1>1
<1> HIDE DEF n
<1>4. e.event \in Events
  BY EnvelopeFields
<1>5. stored' = [ev \in Events |-> IF ev = e.event THEN StoredEvidence(e) ELSE stored[ev]]
  BY DEF CopiesKept
<1>6. \A i \in DOMAIN receipts : receipts[i].event \in Events /\ receipts[i].event # e.event
  BY <1>1 DEF ReplayReason, ReceiptType
<1>7. /\ StoredEvidence(e).state = "active" /\ StoredEvidence(e).until = now + Retention
      /\ StoredEvidence(e).evidence = [event |-> e.event, subject |-> e.subject,
                                       source |-> e.source, content |-> e.content]
  BY DEF StoredEvidence, Protect
<1>8. /\ Receipt(e).event = e.event /\ Receipt(e).subject = e.subject
      /\ Receipt(e).source = e.source /\ Receipt(e).content = e.content
      /\ Receipt(e).accepted = now
  BY ReceiptFields
<1>9. \A ev \in Events :
        (stored'[ev].state # "none") <=>
          (\E i \in DOMAIN receipts' : receipts'[i].event = ev)
  <2> SUFFICES ASSUME NEW ev \in Events
               PROVE  (stored'[ev].state # "none") <=>
                        (\E i \in DOMAIN receipts' : receipts'[i].event = ev)
    OBVIOUS
  <2>1. CASE ev = e.event
    BY <2>1, <1>1, <1>3, <1>5, <1>7, <1>8
  <2>2. CASE ev # e.event
    <3>1. stored'[ev] = stored[ev]
      BY <2>2, <1>5
    <3>2. (\E i \in DOMAIN receipts' : receipts'[i].event = ev)
            <=> (\E i \in DOMAIN receipts : receipts[i].event = ev)
      BY <2>2, <1>1, <1>2, <1>3, <1>8
    <3> QED
      BY <3>1, <3>2 DEF CopiesKept
  <2> QED
    BY <2>1, <2>2
<1>10. ASSUME NEW i \in DOMAIN receipts'
       PROVE  LET copy == stored'[receipts'[i].event]
              IN  /\ copy.until = receipts'[i].accepted + Retention
                  /\ copy.state = "active" =>
                       copy.evidence = [event |-> receipts'[i].event,
                                        subject |-> receipts'[i].subject,
                                        source |-> receipts'[i].source,
                                        content |-> receipts'[i].content]
  <2>1. CASE i = n
    <3>1. receipts'[i] = Receipt(e)
      BY <2>1, <1>1
    <3>2. stored'[receipts'[i].event] = StoredEvidence(e)
      BY <3>1, <1>4, <1>5, <1>8
    <3> QED
      BY <3>1, <3>2, <1>7, <1>8
  <2>2. CASE i \in DOMAIN receipts
    <3>1. receipts'[i] = receipts[i]
      BY <2>2, <1>1
    <3>2. stored'[receipts'[i].event] = stored[receipts[i].event]
      BY <2>2, <3>1, <1>5, <1>6
    <3> QED
      BY <2>2, <3>1, <3>2 DEF CopiesKept
  <2> QED
    BY <2>1, <2>2, <1>2
<1>11. stored' = [ev \in Events |-> stored'[ev]]
  BY <1>5
<1>12. \A ev \in Events : stored'[ev].state \in {"none", "active", "deleted"}
  BY <1>5, <1>7 DEF CopiesKept
<1> QED
  BY <1>9, <1>10, <1>11, <1>12 DEF CopiesKept

LEMMA CopiesStep ==
  IngestionInv /\ CopiesKept /\ [IngestionNext]_ingestionVars => CopiesKept'
<1> SUFFICES ASSUME IngestionInv, CopiesKept, [IngestionNext]_ingestionVars
             PROVE  CopiesKept'
  OBVIOUS
<1>1. ASSUME UNCHANGED <<receipts, stored>> PROVE CopiesKept'
  BY <1>1 DEF CopiesKept
<1>2. ASSUME NEW a \in Subjects, NEW ev \in Events, DeleteEvidence(a, ev)
      PROVE  CopiesKept'
  <2> DEFINE S == {ev}
  <2>1. stored' = [x \in Events |-> IF x \in S THEN Erased(x) ELSE stored[x]]
    BY <1>2 DEF DeleteEvidence, CopiesKept
  <2>2. UNCHANGED receipts
    BY <1>2 DEF DeleteEvidence
  <2>3. \A x \in S : x \in Events /\ stored[x].state = "active"
    BY <1>2 DEF DeleteEvidence
  <2> HIDE DEF S
  <2> QED
    BY <2>1, <2>2, <2>3, ErasedStep
<1>3. ASSUME NEW a \in Subjects, PurgeExpired(a) PROVE CopiesKept'
  <2>1. /\ stored' = [ev \in Events |-> IF ev \in Expired THEN Erased(ev) ELSE stored[ev]]
        /\ UNCHANGED receipts
    BY <1>3 DEF PurgeExpired
  <2>2. \A ev \in Expired : ev \in Events /\ stored[ev].state = "active"
    BY DEF Expired
  <2> QED
    BY <2>1, <2>2, ErasedStep
<1>4. CASE Administer
  BY <1>1, <1>2, <1>3, <1>4
     DEF Administer, Enroll, RotateKey, RevokeKey, Suspend, Resume, SetSuspension,
         ConfigureSafeguards
<1>5. ASSUME NEW r \in Requests, NEW begun \in 0..now, ApplyGuard(r, begun)
      PROVE  CopiesKept'
  <2> DEFINE e == req[r].envelope
  <2>1. e \in Envelopes
    BY <1>5 DEF ApplyGuard, IngestionInv, TablesTyped, RequestsTyped
  <2>2. CASE GuardOutcome(e, begun) = "accepted"
    <3>1. Accept(e, CurrentRate(e.source, begun))
      BY <1>5, <2>2, GuardEffects
    <3>2. ReplayReason(e) = "none"
      BY <2>2, GuardAccepts
    <3> HIDE DEF e
    <3> QED
      BY <2>1, <3>1, <3>2, StoredStep DEF Accept
  <2>3. CASE GuardOutcome(e, begun) # "accepted"
    BY <1>1, <1>5, <2>3, GuardEffects DEF Limit
  <2> QED
    BY <2>2, <2>3
<1>6. CASE Ingest
  BY <1>1, <1>5, <1>6 DEF Ingest, Verify, Unavailable
<1>7. CASE IngestionTick \/ (\E u \in Subjects : SetMembership(u)) \/ UNCHANGED ingestionVars
  BY <1>1, <1>7 DEF IngestionTick, SetMembership, ingestionVars
<1> QED
  BY <1>4, <1>6, <1>7 DEF IngestionNext

(* Accepted evidence and its encrypted copy appear together: a receipt's   *)
(* content can be read by its subject until its retention ends, unless an  *)
(* administrator erased it, and nothing else is stored (the guard and the  *)
(* storage share a transaction; migrations 016 and 017).                   *)
THEOREM AcceptedEvidenceIsKept == IngestionSpec => []AcceptedIsKept
<1>1. IngestionInv /\ CopiesKept => AcceptedIsKept
  <2> SUFFICES ASSUME IngestionInv, CopiesKept PROVE AcceptedIsKept
    OBVIOUS
  <2>1. ASSUME NEW i \in DOMAIN receipts,
               stored[receipts[i].event].state = "active",
               now < stored[receipts[i].event].until,
               member[receipts[i].subject]
        PROVE  Retrieve(receipts[i].subject, receipts[i].event) = receipts[i].content
    <3>1. stored[receipts[i].event].evidence =
            [event |-> receipts[i].event, subject |-> receipts[i].subject,
             source |-> receipts[i].source, content |-> receipts[i].content]
      BY <2>1 DEF CopiesKept
    <3>2. receipts[i].accepted \in Nat
      <4>1. \A x \in ReceiptType : x.accepted \in Nat
        BY DEF ReceiptType
      <4> QED
        BY <4>1 DEF IngestionInv, TablesTyped
    <3>3. stored[receipts[i].event].until = receipts[i].accepted + Retention
      BY DEF CopiesKept
    <3>4. now \in Nat /\ stored[receipts[i].event].until \in Nat
      BY <3>2, <3>3, LimitsAssumption DEF IngestionInv, TablesTyped
    <3>5. Readable(receipts[i].subject, receipts[i].event)
      BY <2>1, <3>1, <3>4 DEF Readable, ActorContext
    <3> QED
      BY <3>1, <3>5 DEF Retrieve, Unprotect
  <2> QED
    BY <2>1 DEF AcceptedIsKept, CopiesKept
<1> QED
  BY <1>1, CopiesInitial, CopiesStep, IngestionInvariant, PTL DEF IngestionSpec

(* The tables and the requests keep the values of their columns, and a     *)
(* source has at most one active key (migrations 014 to 018).              *)
THEOREM IngestionTypeCorrect == IngestionSpec => []IngestionTypeOK
<1>1. IngestionInv /\ CopiesKept => IngestionTypeOK
  <2> SUFFICES ASSUME IngestionInv, CopiesKept PROVE IngestionTypeOK
    OBVIOUS
  <2>1. TablesTyped /\ KeysBound
    BY DEF IngestionInv
  <2>2. ASSUME NEW s \in Sources PROVE Cardinality(ActiveKeys(s)) <= 1
    <3>1. \A k \in ActiveKeys(s) : k = source[s].key
      BY <2>1 DEF ActiveKeys, KeysOf, KeysBound
    <3>2. ActiveKeys(s) = {} \/ ActiveKeys(s) = {source[s].key}
      BY <3>1
    <3>3. Cardinality({}) = 0 /\ Cardinality({source[s].key}) = 1
      BY FS_EmptySet, FS_Singleton
    <3> QED
      BY <3>2, <3>3
  <2>3. \A s \in Sources :
          /\ source[s].state \in SourceStates
          /\ source[s].key \in Keys \cup {NoKey}
          /\ source[s].quota \in Quotas
    BY <2>1 DEF TablesTyped, SourceType
  <2>4. \A ev \in Events : stored[ev].state \in {"none", "active", "deleted"}
    BY DEF CopiesKept
  <2> QED
    BY <2>1, <2>2, <2>3, <2>4
       DEF IngestionTypeOK, TablesTyped, KeysTyped, KeyStates, SourceStates, RequestsTyped
<1> QED
  BY <1>1, CopiesInitial, CopiesStep, IngestionInvariant, PTL DEF IngestionSpec
=============================================================================
