---------------------------- MODULE TrustProofs ----------------------------
(***************************************************************************)
(* Proofs about what a subject's trust may do to it: about TrustTransitions,*)
(* for every configuration, every set of engines and observations, and     *)
(* every bound; about WeightedScore, for all values and weights that the   *)
(* columns can hold; and about StateInvalidation, for every set of         *)
(* subjects, actions, entries and workers, every clock offset and every    *)
(* bound.                                                                  *)
(***************************************************************************)
EXTENDS MCTrustTransitions, StateInvalidation, SequenceTheorems,
        FiniteSetTheorems, WellFoundedInduction, TLAPS

----------------------------------------------------------------------------
(* The operators of TrustControls *)

Highest == Points(100)

LEMMA ScoreRange ==
  /\ Highest \in Nat
  /\ \A s : s \in Scores <=> s \in Int /\ 0 <= s /\ s <= Highest
<1>1. Points(0) = 0 /\ Highest \in Nat
  BY SMT DEF Points, Highest
<1>2. Scores = Points(0)..Highest
  BY DEF Scores, Highest
<1>3. Scores = 0..Highest
  BY <1>1, <1>2, Zenon
<1>. QED
  BY <1>1, <1>3

LEMMA ProductMonotone ==
  ASSUME NEW a \in Nat, NEW x \in Nat, NEW y \in Nat, x <= y
  PROVE  a * x \in Nat /\ a * x <= a * y
BY SMT

(* An average of two scores, rounded half up, is a score.                  *)
LEMMA SmoothedType ==
  ASSUME NEW prior \in Scores, NEW observed \in Scores
  PROVE  Smoothed(prior, observed) \in Scores
<1>1. /\ prior \in Nat /\ prior <= Highest
      /\ observed \in Nat /\ observed <= Highest
  BY SMT, ScoreRange
<1>2. PICK a \in 1..100 : a = AlphaPercent
  BY ConfigurationAssumption
<1>3. a * observed \in Nat /\ a * observed <= a * Highest
  BY SMT, <1>1, ScoreRange, ProductMonotone
<1>4. (100 - a) * prior \in Nat /\ (100 - a) * prior <= (100 - a) * Highest
  BY SMT, <1>1, ScoreRange, ProductMonotone
<1>5. a * Highest + (100 - a) * Highest = 100 * Highest
  BY SMT, ScoreRange
<1>. DEFINE sum == a * observed + (100 - a) * prior + 50
<1>6. sum \in Int /\ sum >= 50 /\ sum <= 100 * Highest + 50
  BY SMT, <1>3, <1>4, <1>5, ScoreRange
<1>7. Smoothed(prior, observed) = sum \div 100
  BY <1>2 DEF Smoothed
<1>. HIDE DEF sum
<1>8. sum \div 100 \in Int /\ sum \div 100 >= 0 /\ sum \div 100 <= Highest
  BY SMT, <1>6, ScoreRange
<1>. QED
  BY SMT, <1>7, <1>8, ScoreRange

LEMMA DecayedType ==
  ASSUME NEW state \in Temporal, NEW elapsed \in Nat
  PROVE  Decayed(state, elapsed) \subseteq Scores
<1>1. state.anchor \in Scores /\ InitialScore \in Scores
  BY ConfigurationAssumption DEF Temporal
<1>. DEFINE baseline == Smaller(InitialScore, state.anchor)
<1>2. baseline \in Scores
  BY <1>1 DEF Smaller
<1>3. ASSUME NEW s \in baseline..state.anchor
      PROVE  s \in Scores
  <2>. HIDE DEF baseline
  <2>1. /\ baseline \in Int /\ 0 <= baseline
        /\ state.anchor \in Int /\ state.anchor <= Highest
    BY SMT, <1>1, <1>2, ScoreRange
  <2>. QED
    BY SMT, <2>1, ScoreRange
<1>. QED
  BY <1>3 DEF Decayed

LEMMA NextTemporalsType ==
  ASSUME NEW state \in Temporal, NEW observed \in Scores,
         NEW observedAt \in Nat, NEW time \in Nat
  PROVE  NextTemporals(state, observed, observedAt, time) \subseteq Temporal
<1>1. /\ state.score \in Scores /\ state.anchor \in Scores
      /\ state.lastFresh \in Nat \cup {Never}
      /\ InitialScore \in Scores /\ StaleAfter \in Nat
  BY ConfigurationAssumption DEF Temporal
<1>2. CASE IsFresh(observedAt, time)
  BY <1>1, <1>2, SmoothedType DEF NextTemporals, Temporal
<1>3. CASE ~IsFresh(observedAt, time)
  <2>. DEFINE elapsed == time - state.lastFresh - StaleAfter
              scores  == IF state.lastFresh = Never THEN {InitialScore}
                         ELSE IF elapsed <= 0 THEN {state.score}
                         ELSE Decayed(state, elapsed)
  <2>1. elapsed \in Int
    BY <1>1 DEF Never
  <2>2. scores \subseteq Scores
    BY <1>1, <2>1, DecayedType
  <2>3. NextTemporals(state, observed, observedAt, time) =
          {[state EXCEPT !.score = s, !.lastEvaluated = time] : s \in scores}
    BY <1>3 DEF NextTemporals
  <2>4. \A s \in Scores :
          [state EXCEPT !.score = s, !.lastEvaluated = time] \in Temporal
    BY DEF Temporal
  <2>. QED
    BY <2>2, <2>3, <2>4
<1>. QED
  BY <1>2, <1>3

(* What an evaluation computes.                                            *)
Result == [score : Scores, band : Bands, kind : Kinds,
           streak : 0..(RequiredStreak - 1), eligible : BOOLEAN]

LEMMA BoundedScoreType ==
  ASSUME NEW score \in Scores, NEW candidate \in Scores, NEW cap \in 1..100
  PROVE  /\ BoundedScore(score, candidate, cap) \in Scores
         /\ BoundedScore(score, candidate, cap) - score
              \in -Points(cap)..Points(cap)
BY DEF BoundedScore, Larger, Smaller, Scores, Points

LEMMA NextStreakType ==
  ASSUME NEW streak \in 0..(RequiredStreak - 1), NEW qualifies \in BOOLEAN
  PROVE  NextStreak(streak, qualifies) \in 0..(RequiredStreak - 1)
BY DEF NextStreak, RequiredStreak

LEMMA BandTypes ==
  ASSUME NEW band \in Bands, NEW score \in Scores, NEW sources \in Nat
  PROVE  /\ LowerBand(band, score) \in Bands
         /\ NextBand(band) \in Bands
         /\ Qualifies(band, score, sources) \in BOOLEAN
BY DEF LowerBand, NextBand, Qualifies, Bands

LEMMA ControlledType ==
  ASSUME NEW c \in Control, NEW candidate \in Scores, NEW evidence \in Evidence
  PROVE  Controlled(c, candidate, evidence) \in Result
<1>1. /\ c.score \in Scores /\ c.band \in Bands
      /\ c.streak \in 0..(RequiredStreak - 1)
      /\ evidence.cap \in 1..100 /\ evidence.sources \in Nat
      /\ evidence.critical \in CriticalKinds \cup {"none"}
  BY DEF Control, Evidence
<1>2. CASE evidence.critical # "none"
  <2>1. ScoreCeiling(evidence.critical) \in Scores
    BY DEF ScoreCeiling, Scores, Points
  <2>2. Smaller(Smaller(c.score, candidate), ScoreCeiling(evidence.critical))
          \in Scores
    BY <1>1, <2>1 DEF Smaller
  <2>3. Controlled(c, candidate, evidence)
          = Overridden(c, candidate, evidence.critical)
    BY <1>2 DEF Controlled
  <2>. QED
    BY <2>2, <2>3 DEF Overridden, Result, Bands, Kinds, RequiredStreak
<1>3. CASE evidence.critical = "none"
  <2>. DEFINE score     == BoundedScore(c.score, candidate, evidence.cap)
              qualifies == Qualifies(c.band, score, evidence.sources)
  <2>1. score \in Scores
    BY <1>1, BoundedScoreType
  <2>2. /\ LowerBand(c.band, score) \in Bands /\ NextBand(c.band) \in Bands
        /\ qualifies \in BOOLEAN
    BY <1>1, <2>1, BandTypes
  <2>3. NextStreak(c.streak, qualifies) \in 0..(RequiredStreak - 1)
    BY <1>1, <2>2, NextStreakType
  <2>4. Controlled(c, candidate, evidence) = Ordinary(c, candidate, evidence)
    BY <1>3 DEF Controlled
  <2>5. 0 \in 0..(RequiredStreak - 1)
    BY DEF RequiredStreak
  <2>. QED
    BY <1>1, <2>1, <2>2, <2>3, <2>4, <2>5 DEF Ordinary, Result, Kinds
<1>. QED
  BY <1>2, <1>3

LEMMA InitialControlType == InitialControl \in Control
BY ConfigurationAssumption
   DEF InitialControl, Control, Bands, RequiredStreak, Scores, Points

LEMMA ColdTemporalType == ColdTemporal \in Temporal
BY ConfigurationAssumption DEF ColdTemporal, Temporal

----------------------------------------------------------------------------
(* Type correctness *)

(* An engine holds places of what is stored.                               *)
HeldStored ==
  \A e \in Engines :
    engine[e].phase # "idle" =>
      /\ engine[e] \in Reading \cup Ready
      /\ engine[e].version \in 1..Len(versions)
      /\ engine[e].phase = "ready"
           => engine[e] \in Ready /\ engine[e].previous \in 0..Current

TypeInv == TypeOK /\ HeldStored

Outcome(t) ==
  [score |-> t.after.score, band |-> t.after.band, kind |-> t.kind,
   streak |-> t.after.streak, eligible |-> t.eligible]

(* The transition controls explain a transition.                           *)
Explains(t) ==
  \E candidate \in Scores :
    Outcome(t) = Controlled(t.before, candidate, t.evidence)

LEMMA ControlBeforeType ==
  ASSUME TypeInv, NEW previous \in 0..Current
  PROVE  ControlBefore(previous) \in Control
<1>1. CASE previous = 0
  BY <1>1, InitialControlType DEF ControlBefore
<1>2. CASE previous # 0
  <2>1. transitions[previous] \in Transition
    BY <1>2, ElementOfSeq DEF TypeInv, TypeOK, Current
  <2>. QED
    BY <1>2, <2>1 DEF ControlBefore, Transition
<1>. QED
  BY <1>1, <1>2

LEMMA ReadyType ==
  ASSUME TypeInv, NEW e \in Engines, engine[e].phase = "ready"
  PROVE  /\ engine[e] \in Ready
         /\ engine[e].version \in 1..Len(versions)
         /\ engine[e].version \in Nat \ {0}
         /\ engine[e].previous \in 0..Current
         /\ engine[e].previous \in Nat
         /\ versions[engine[e].version] \in Version
<1>1. /\ engine[e] \in Ready
      /\ engine[e].version \in 1..Len(versions)
      /\ engine[e].previous \in 0..Current
  BY DEF TypeInv, HeldStored
<1>2. versions[engine[e].version] \in Version
  BY <1>1, ElementOfSeq DEF TypeInv, TypeOK
<1>. QED
  BY <1>1, <1>2 DEF Ready

LEMMA TemporalBeforeType ==
  ASSUME TypeInv, NEW e \in Engines, engine[e].phase = "ready"
  PROVE  TemporalBefore(e) \in Temporal
<1>1. CASE engine[e].previous = 0
  BY <1>1, ColdTemporalType DEF TemporalBefore
<1>2. CASE engine[e].previous # 0
  <2>1. engine[e].previous \in 1..Len(transitions)
    BY <1>2, ReadyType DEF Current
  <2>. DEFINE before == transitions[engine[e].previous]
  <2>2. before \in Transition
    BY <2>1, ElementOfSeq DEF TypeInv, TypeOK
  <2>3. before.temporal \in Temporal /\ before.after.score \in Scores
    BY <2>2 DEF Transition, Control
  <2>4. [before.temporal EXCEPT !.score = before.after.score] \in Temporal
    BY <2>3 DEF Temporal
  <2>. QED
    BY <1>2, <2>3, <2>4 DEF TemporalBefore
<1>. QED
  BY <1>1, <1>2

(* What an engine builds is a transition from the one it holds, for the    *)
(* state version it holds, and the transition controls explain it.         *)
LEMMA BuiltType ==
  ASSUME TypeInv, NEW e \in Engines, engine[e].phase = "ready",
         NEW t \in Built(e)
  PROVE  /\ t \in Transition
         /\ t.version = engine[e].version
         /\ t.previous = engine[e].previous
         /\ t.before = ControlBefore(t.previous)
         /\ Explains(t)
<1>. DEFINE observed == versions[engine[e].version]
            before   == ControlBefore(engine[e].previous)
<1>1. /\ observed.score \in Scores /\ observed.observedAt \in Nat
      /\ observed.evidence \in Evidence
  BY ReadyType DEF Version
<1>2. before \in Control /\ now \in Nat
  BY ReadyType, ControlBeforeType, BoundsAssumption DEF TypeInv, TypeOK
<1>3. PICK temporal \in NextTemporals(TemporalBefore(e), observed.score,
                                      observed.observedAt, now) :
        LET result == Controlled(before, temporal.score, observed.evidence)
        IN  t = [version     |-> engine[e].version,
                 previous    |-> engine[e].previous,
                 before      |-> before,
                 after       |-> [score  |-> result.score,
                                  band   |-> result.band,
                                  streak |-> result.streak],
                 kind        |-> result.kind,
                 eligible    |-> result.eligible,
                 evidence    |-> observed.evidence,
                 temporal    |-> temporal,
                 evaluatedAt |-> now]
  BY DEF Built
<1>4. temporal \in Temporal
  BY <1>1, <1>2, TemporalBeforeType, NextTemporalsType
<1>5. temporal.score \in Scores
  BY <1>4 DEF Temporal
<1>6. PICK result \in Result :
        result = Controlled(before, temporal.score, observed.evidence)
  BY <1>1, <1>2, <1>5, ControlledType
<1>. HIDE DEF observed, before
<1>7. /\ t.version = engine[e].version
      /\ t.previous = engine[e].previous
      /\ t.before = before
      /\ t.after = [score  |-> result.score, band |-> result.band,
                    streak |-> result.streak]
      /\ t.kind = result.kind /\ t.eligible = result.eligible
      /\ t.evidence = observed.evidence
  BY <1>3, <1>6
<1>8. t \in Transition
  <2>1. [score |-> result.score, band |-> result.band,
         streak |-> result.streak] \in Control
    BY DEF Result, Control
  <2>2. result.kind \in Kinds /\ result.eligible \in BOOLEAN
    BY DEF Result
  <2>. QED
    BY <1>1, <1>2, <1>3, <1>4, <1>6, <2>1, <2>2, ReadyType DEF Transition
<1>9. Outcome(t) = result
  BY <1>7 DEF Outcome, Result
<1>10. Explains(t)
  BY <1>5, <1>6, <1>7, <1>9 DEF Explains
<1>. QED
  BY <1>7, <1>8, <1>10 DEF before

(* What a recording appends.                                               *)
Recorded(t) ==
  /\ t \in Transition
  /\ t.version \in 1..Len(versions)
  /\ t.previous = Current
  /\ t.before = ControlBefore(Current)
  /\ Current # 0 => transitions[Current].version < t.version
  /\ Explains(t)

LEMMA RecordAppends ==
  ASSUME TypeInv, NEW e \in Engines, Record(e)
  PROVE  \E t : Recorded(t) /\ transitions' = Append(transitions, t)
<1>1. PICK t \in Built(e) :
        OrderAccepted(t) /\ transitions' = Append(transitions, t)
  BY DEF Record
<1>2. Recorded(t)
  BY <1>1, BuiltType, ReadyType DEF Record, OrderAccepted, Recorded
<1>. QED
  BY <1>1, <1>2

(* A step of one engine that leaves it idle or with places that are stored.*)
LEMMA EngineStep ==
  ASSUME TypeInv, NEW e \in Engines, NEW value,
         engine' = [engine EXCEPT ![e] = value],
         versions' = versions, Current' \in {Current, Current + 1},
         \/ value = Idle
         \/ /\ value \in Reading \cup Ready
            /\ value.version \in 1..Len(versions)
            /\ value.phase = "ready"
                 => value \in Ready /\ value.previous \in 0..Current
  PROVE  /\ engine' \in [Engines -> {Idle} \cup Reading \cup Ready]
         /\ HeldStored'
<1>1. engine \in [Engines -> {Idle} \cup Reading \cup Ready]
  BY DEF TypeInv, TypeOK
<1>2. engine' \in [Engines -> {Idle} \cup Reading \cup Ready]
  BY <1>1
<1>3. Current \in Nat
  BY LenProperties DEF TypeInv, TypeOK, Current
<1>4. ASSUME NEW v \in Engines, engine'[v].phase # "idle"
      PROVE  /\ engine'[v] \in Reading \cup Ready
             /\ engine'[v].version \in 1..Len(versions)
             /\ engine'[v].phase = "ready"
                  => engine'[v] \in Ready /\ engine'[v].previous \in 0..Current
  <2>1. CASE v = e
    BY <1>1, <1>4, <2>1 DEF Idle
  <2>2. CASE v # e
    <3>1. engine'[v] = engine[v]
      BY <1>1, <2>2
    <3>. QED
      BY <1>4, <3>1 DEF TypeInv, HeldStored
  <2>. QED
    BY <2>1, <2>2
<1>5. \A n \in 0..Current : n \in 0..Current'
  BY <1>3
<1>6. HeldStored'
  BY <1>4, <1>5 DEF HeldStored
<1>. QED
  BY <1>2, <1>6

LEMMA IdleStep ==
  ASSUME TypeInv, NEW e \in Engines, engine' = [engine EXCEPT ![e] = Idle],
         versions' = versions, Current' \in {Current, Current + 1}
  PROVE  /\ engine' \in [Engines -> {Idle} \cup Reading \cup Ready]
         /\ HeldStored'
<1>1. PICK value : value = Idle
  OBVIOUS
<1>. QED
  BY <1>1, EngineStep, Zenon

LEMMA TypeInit == Init => TypeInv
<1>. SUFFICES ASSUME Init PROVE TypeInv
  OBVIOUS
<1>1. TypeOK
  BY BoundsAssumption, EmptySeq DEF Init, TypeOK
<1>2. HeldStored
  BY DEF Init, HeldStored, Idle
<1>. QED
  BY <1>1, <1>2 DEF TypeInv

LEMMA TypeStep == TypeInv /\ [Next]_vars => TypeInv'
<1>. SUFFICES ASSUME TypeInv, [Next]_vars PROVE TypeInv'
  OBVIOUS
<1>1. /\ now \in 0..MaxTime /\ lost \in 0..MaxLost
      /\ versions \in Seq(Version) /\ transitions \in Seq(Transition)
      /\ MaxTime \in Nat /\ MaxLost \in Nat
      /\ Len(versions) \in Nat /\ Current \in Nat
  BY BoundsAssumption, LenProperties DEF TypeInv, TypeOK, Current
<1>2. CASE StoreState
  <2>1. PICK observed \in Observations, age \in 0..MaxAge, cap \in Caps,
             sources \in SourceCounts, critical \in Criticals :
          /\ age <= now
          /\ versions' = Append(versions,
               [score |-> observed, observedAt |-> now - age,
                evidence |-> [cap |-> cap, sources |-> sources,
                              critical |-> critical]])
    BY <1>2 DEF StoreState
  <2>2. now - age \in Nat
    BY <1>1, <2>1, BoundsAssumption
  <2>. DEFINE new == [score |-> observed, observedAt |-> now - age,
                      evidence |-> [cap |-> cap, sources |-> sources,
                                    critical |-> critical]]
  <2>3. new \in Version
    BY <2>2, EvidenceAssumption DEF Version, Evidence
  <2>. HIDE DEF new
  <2>4. versions' \in Seq(Version) /\ Len(versions') = Len(versions) + 1
    BY <1>1, <2>1, <2>3, AppendProperties DEF new
  <2>5. UNCHANGED <<now, lost, transitions, engine>>
    BY <1>2 DEF StoreState
  <2>6. TypeOK'
    BY <2>4, <2>5 DEF TypeInv, TypeOK
  <2>7. \A n \in 1..Len(versions) : n \in 1..Len(versions')
    BY <1>1, <2>4
  <2>8. HeldStored'
    BY <2>5, <2>7 DEF TypeInv, HeldStored, Current
  <2>. QED
    BY <2>6, <2>8 DEF TypeInv
<1>3. CASE Tick
  <2>1. now' \in 0..MaxTime
    BY <1>1, <1>3 DEF Tick
  <2>. QED
    BY <1>3, <2>1 DEF Tick, TypeInv, TypeOK, HeldStored, Current
<1>4. ASSUME NEW e \in Engines, ReadState(e)
      PROVE  TypeInv'
  <2>. PICK value : value = [phase |-> "reading", version |-> Len(versions)]
    OBVIOUS
  <2>1. Len(versions) \in 1..Len(versions)
    BY <1>1, <1>4, EmptySeq DEF ReadState
  <2>2. value \in Reading
    BY <2>1 DEF Reading
  <2>3. /\ engine' = [engine EXCEPT ![e] = value]
        /\ UNCHANGED <<now, lost, versions, transitions>>
    BY <1>4 DEF ReadState
  <2>4. versions' = versions /\ Current' \in {Current, Current + 1}
    BY <2>3 DEF Current
  <2>5. value.version \in 1..Len(versions) /\ value.phase # "ready"
    BY <2>1
  <2>6. /\ engine' \in [Engines -> {Idle} \cup Reading \cup Ready]
        /\ HeldStored'
    BY <2>2, <2>3, <2>4, <2>5, EngineStep, Zenon
  <2>. QED
    BY <2>3, <2>6 DEF TypeInv, TypeOK
<1>5. ASSUME NEW e \in Engines, ReadTransition(e)
      PROVE  TypeInv'
  <2>1. PICK rebased \in {FALSE, Rebase} :
          engine' = [engine EXCEPT ![e] =
                       [phase |-> "ready", version |-> engine[e].version,
                        previous |-> Current, rebased |-> rebased]]
    BY <1>5 DEF ReadTransition
  <2>. PICK value :
         value = [phase |-> "ready", version |-> engine[e].version,
                  previous |-> Current, rebased |-> rebased]
    OBVIOUS
  <2>2. engine[e].version \in 1..Len(versions)
    BY <1>5 DEF ReadTransition, TypeInv, HeldStored
  <2>3. rebased \in BOOLEAN
    BY EvidenceAssumption
  <2>4. value \in Ready
    BY <1>1, <2>2, <2>3 DEF Ready
  <2>5. UNCHANGED <<now, lost, versions, transitions>>
    BY <1>5 DEF ReadTransition
  <2>6. versions' = versions /\ Current' \in {Current, Current + 1}
    BY <2>5 DEF Current
  <2>7. value.version \in 1..Len(versions) /\ value.previous \in 0..Current
    BY <1>1, <2>2
  <2>8. engine' = [engine EXCEPT ![e] = value]
    BY <2>1
  <2>9. /\ engine' \in [Engines -> {Idle} \cup Reading \cup Ready]
        /\ HeldStored'
    BY <2>4, <2>6, <2>7, <2>8, EngineStep, Zenon
  <2>. QED
    BY <2>5, <2>9 DEF TypeInv, TypeOK
<1>6. ASSUME NEW e \in Engines, Record(e)
      PROVE  TypeInv'
  <2>1. PICK t : Recorded(t) /\ transitions' = Append(transitions, t)
    BY <1>6, RecordAppends
  <2>2. transitions' \in Seq(Transition) /\ Current' = Current + 1
    BY <1>1, <2>1, AppendProperties DEF Recorded, Current
  <2>3. UNCHANGED <<now, versions>>
    BY <1>6 DEF Record
  <2>4. lost' \in 0..MaxLost
    BY <1>1, <1>6 DEF Record
  <2>5. CASE engine' = [engine EXCEPT ![e] = Idle]
    <3>1. /\ engine' \in [Engines -> {Idle} \cup Reading \cup Ready]
          /\ HeldStored'
      BY <2>2, <2>3, <2>5, IdleStep
    <3>. QED
      BY <2>2, <2>3, <2>4, <3>1 DEF TypeInv, TypeOK
  <2>6. CASE UNCHANGED engine
    <3>1. \A n \in 0..Current : n \in 0..Current'
      BY <1>1, <2>2
    <3>2. HeldStored'
      BY <2>3, <2>6, <3>1 DEF TypeInv, HeldStored
    <3>. QED
      BY <2>2, <2>3, <2>4, <2>6, <3>2 DEF TypeInv, TypeOK
  <2>. QED
    BY <1>6, <2>5, <2>6 DEF Record
<1>7. ASSUME NEW e \in Engines, Refuse(e)
      PROVE  TypeInv'
  <2>1. /\ engine' = [engine EXCEPT ![e] = Idle]
        /\ UNCHANGED <<now, lost, versions, transitions>>
    BY <1>7 DEF Refuse
  <2>2. versions' = versions /\ Current' \in {Current, Current + 1}
    BY <2>1 DEF Current
  <2>3. /\ engine' \in [Engines -> {Idle} \cup Reading \cup Ready]
        /\ HeldStored'
    BY <2>1, <2>2, IdleStep
  <2>. QED
    BY <2>1, <2>3 DEF TypeInv, TypeOK
<1>8. CASE UNCHANGED vars
  BY <1>8 DEF vars, TypeInv, TypeOK, HeldStored, Current
<1>. QED
  BY <1>2, <1>3, <1>4, <1>5, <1>6, <1>7, <1>8 DEF Next, Work

(* The state of every reachable behaviour of the trust engines and their   *)
(* tables has the types the migrations give it.                            *)
THEOREM TypeCorrect == Spec => []TypeOK
<1>1. Spec => []TypeInv
  BY TypeInit, TypeStep, PTL DEF Spec
<1>2. TypeInv => TypeOK
  BY DEF TypeInv
<1>. QED
  BY <1>1, <1>2, PTL

----------------------------------------------------------------------------
(* The history of a subject *)

AllExplained == \A i \in 1..Current : Explains(transitions[i])

HistoryInv == TypeInv /\ ChainedHistory /\ AllExplained

LEMMA HistoryInit == Init => HistoryInv
<1>. SUFFICES ASSUME Init PROVE HistoryInv
  OBVIOUS
<1>1. Current = 0
  BY EmptySeq DEF Init, Current
<1>2. 1..Current = {}
  BY <1>1
<1>. QED
  BY <1>2, TypeInit DEF HistoryInv, ChainedHistory, AllExplained

(* Only a recording changes the history.                                   *)
LEMMA OthersKeepHistory ==
  ASSUME HistoryInv, UNCHANGED transitions
  PROVE  ChainedHistory' /\ AllExplained'
BY DEF HistoryInv, ChainedHistory, AllExplained, Explains, Outcome,
       ControlBefore, Current

LEMMA RecordKeepsHistory ==
  ASSUME HistoryInv, NEW e \in Engines, Record(e)
  PROVE  ChainedHistory' /\ AllExplained'
<1>1. PICK t : Recorded(t) /\ transitions' = Append(transitions, t)
  BY RecordAppends DEF HistoryInv
<1>2. transitions \in Seq(Transition) /\ Current \in Nat
  BY LenProperties DEF HistoryInv, TypeInv, TypeOK, Current
<1>3. /\ Current' = Current + 1
      /\ \A i \in 1..Current : transitions'[i] = transitions[i]
      /\ transitions'[Current + 1] = t
  BY <1>1, <1>2, AppendProperties DEF Recorded, Current
<1>4. \A i \in 0..Current : ControlBefore(i)' = ControlBefore(i)
  BY <1>2, <1>3 DEF ControlBefore
<1>5. ASSUME NEW i \in 1..Current'
      PROVE  /\ transitions'[i].previous = i - 1
             /\ transitions'[i].before = ControlBefore(i - 1)'
             /\ i > 1 => transitions'[i - 1].version < transitions'[i].version
             /\ Explains(transitions'[i])
  <2>1. CASE i \in 1..Current
    <3>1. transitions'[i] = transitions[i]
      BY <1>3, <2>1
    <3>2. i > 1 => transitions'[i - 1] = transitions[i - 1]
      BY <1>2, <1>3, <2>1
    <3>3. ControlBefore(i - 1)' = ControlBefore(i - 1)
      BY <1>2, <1>4, <2>1
    <3>. QED
      BY <2>1, <3>1, <3>2, <3>3 DEF HistoryInv, ChainedHistory, AllExplained
  <2>2. CASE i = Current + 1
    <3>1. transitions'[i] = t /\ i - 1 = Current
      BY <1>2, <1>3, <2>2
    <3>2. i > 1 => transitions'[i - 1] = transitions[Current] /\ Current # 0
      BY <1>2, <1>3, <2>2
    <3>3. ControlBefore(i - 1)' = ControlBefore(Current)
      BY <1>2, <1>4, <3>1
    <3>. QED
      BY <1>1, <3>1, <3>2, <3>3 DEF Recorded
  <2>. QED
    BY <1>2, <1>3, <2>1, <2>2
<1>6. ChainedHistory'
  BY <1>5 DEF ChainedHistory
<1>7. AllExplained'
  BY <1>5 DEF AllExplained, Explains, Outcome
<1>. QED
  BY <1>6, <1>7

LEMMA HistoryStep == HistoryInv /\ [Next]_vars => HistoryInv'
<1>. SUFFICES ASSUME HistoryInv, [Next]_vars PROVE HistoryInv'
  OBVIOUS
<1>1. TypeInv'
  BY TypeStep DEF HistoryInv
<1>2. CASE UNCHANGED transitions
  BY <1>1, <1>2, OthersKeepHistory DEF HistoryInv
<1>3. CASE \E e \in Engines : Record(e)
  BY <1>1, <1>3, RecordKeepsHistory DEF HistoryInv
<1>4. UNCHANGED transitions \/ \E e \in Engines : Record(e)
  BY DEF Next, Work, StoreState, Tick, ReadState, ReadTransition, Refuse, vars
<1>. QED
  BY <1>2, <1>3, <1>4

LEMMA HistoryInvariant == Spec => []HistoryInv
BY HistoryInit, HistoryStep, PTL DEF Spec

(* However many engines read, evaluate and record, each transition of a    *)
(* subject was computed from the one recorded before it, for a later state *)
(* version (the order checks of record_subject_trust_transition).          *)
THEOREM OneChain == Spec => []ChainedHistory
<1>1. HistoryInv => ChainedHistory
  BY DEF HistoryInv
<1>. QED
  BY <1>1, HistoryInvariant, PTL

(* What the controls make of a transition, restated for its fields.        *)
LEMMA TransitionExplained ==
  ASSUME HistoryInv, NEW i \in 1..Current
  PROVE  /\ transitions[i] \in Transition
         /\ ControlBefore(i - 1) \in Control
         /\ \E candidate \in Scores :
              Outcome(transitions[i]) =
                Controlled(ControlBefore(i - 1), candidate,
                           transitions[i].evidence)
<1>1. transitions[i] \in Transition
  BY ElementOfSeq DEF HistoryInv, TypeInv, TypeOK, Current
<1>2. i - 1 \in 0..Current
  BY LenProperties DEF HistoryInv, TypeInv, TypeOK, Current
<1>3. ControlBefore(i - 1) \in Control
  BY <1>2, ControlBeforeType DEF HistoryInv
<1>4. transitions[i].before = ControlBefore(i - 1)
  BY DEF HistoryInv, ChainedHistory
<1>. QED
  BY <1>1, <1>3, <1>4 DEF HistoryInv, AllExplained, Explains

LEMMA ControlledCap ==
  ASSUME NEW c \in Control, NEW candidate \in Scores, NEW evidence \in Evidence
  PROVE  LET moved == Controlled(c, candidate, evidence).score - c.score
             cap   == Points(evidence.cap)
         IN  IF evidence.critical = "none" THEN moved \in -cap..cap
             ELSE moved <= 0
<1>1. c.score \in Scores /\ evidence.cap \in 1..100
  BY DEF Control, Evidence
<1>2. c.score \in Int
  BY <1>1, ScoreRange
<1>3. CASE evidence.critical = "none"
  <2>1. Controlled(c, candidate, evidence).score
          = BoundedScore(c.score, candidate, evidence.cap)
    BY <1>3 DEF Controlled, Ordinary
  <2>. QED
    BY <1>1, <1>3, <2>1, BoundedScoreType
<1>4. CASE evidence.critical # "none"
  <2>1. Controlled(c, candidate, evidence).score
          = Smaller(Smaller(c.score, candidate),
                    ScoreCeiling(evidence.critical))
    BY <1>4 DEF Controlled, Overridden
  <2>2. ScoreCeiling(evidence.critical) \in Int /\ candidate \in Int
    BY ScoreRange DEF ScoreCeiling, Points
  <2>3. Controlled(c, candidate, evidence).score - c.score <= 0
    BY <1>2, <2>1, <2>2 DEF Smaller
  <2>. QED
    BY <1>4, <2>3
<1>. QED
  BY <1>3, <1>4

(* Whatever is observed and in whatever order it is evaluated, a receipt   *)
(* moves the recorded score by at most its influence cap, and critical     *)
(* evidence only lowers it (applyTrustTransitionControls).                 *)
THEOREM InfluenceCapped == Spec => []CapHolds
<1>1. ASSUME HistoryInv PROVE CapHolds
  <2>1. ASSUME NEW i \in 1..Current
        PROVE  LET moved == transitions[i].after.score - ScoreBefore(i)
                   cap   == Points(transitions[i].evidence.cap)
               IN  IF transitions[i].evidence.critical = "none"
                   THEN moved \in -cap..cap
                   ELSE moved <= 0
    <3>1. PICK candidate \in Scores :
            Outcome(transitions[i]) =
              Controlled(ControlBefore(i - 1), candidate,
                         transitions[i].evidence)
      BY <1>1, TransitionExplained
    <3>2. /\ transitions[i].evidence \in Evidence
          /\ ControlBefore(i - 1) \in Control
      BY <1>1, TransitionExplained DEF Transition
    <3>3. transitions[i].after.score =
            Controlled(ControlBefore(i - 1), candidate,
                       transitions[i].evidence).score
      BY <3>1 DEF Outcome
    <3>. QED
      BY <3>2, <3>3, ControlledCap DEF ScoreBefore
  <2>. QED
    BY <2>1 DEF CapHolds
<1>. QED
  BY <1>1, HistoryInvariant, PTL

(* The controls of an evaluation that qualifies, recovers or does neither. *)
LEMMA ControlledStreak ==
  ASSUME NEW c \in Control, NEW candidate \in Scores, NEW evidence \in Evidence
  PROVE  LET result == Controlled(c, candidate, evidence)
         IN  \/ BandRank[result.band] > BandRank[c.band] \/ result.streak > 0
             => /\ evidence.critical = "none"
                /\ evidence.sources >= RequiredSources
                /\ result.score >= RecoveryThreshold(c.band)
                /\ IF result.streak > 0 THEN result.band = c.band
                   ELSE result.band = NextBand(c.band) /\ c.streak > 0
<1>. DEFINE result == Controlled(c, candidate, evidence)
            score  == BoundedScore(c.score, candidate, evidence.cap)
            rises  == BandRank[result.band] > BandRank[c.band]
            qualifies == Qualifies(c.band, score, evidence.sources)
            recovered == qualifies /\ c.streak + 1 >= RequiredStreak
<1>1. /\ c.band \in Bands /\ c.streak \in {0, 1} /\ score \in Scores
      /\ evidence.sources \in Nat
  BY BoundedScoreType DEF Control, Evidence, RequiredStreak
<1>2. CASE evidence.critical # "none"
  <2>1. result.band = "low" /\ result.streak = 0
    BY <1>2 DEF Controlled, Overridden
  <2>2. ~rises
    BY <1>1, <2>1 DEF BandRank, Bands
  <2>. QED
    BY <2>1, <2>2
<1>3. CASE evidence.critical = "none" /\ LowerBand(c.band, score) # c.band
  <2>1. result.band = LowerBand(c.band, score) /\ result.streak = 0
    BY <1>3 DEF Controlled, Ordinary
  <2>2. \/ result.band = "low"
        \/ result.band = "medium" /\ c.band = "high"
    BY <1>3, <2>1 DEF LowerBand
  <2>3. ~rises
    BY <1>1, <2>2 DEF BandRank, Bands
  <2>. QED
    BY <2>1, <2>3
<1>4. CASE evidence.critical = "none" /\ LowerBand(c.band, score) = c.band
  <2>1. /\ result.score = score
        /\ result.band = IF recovered THEN NextBand(c.band) ELSE c.band
        /\ result.streak = NextStreak(c.streak, qualifies)
    BY <1>4 DEF Controlled, Ordinary
  <2>. HIDE DEF result, score
  <2>2. CASE ~qualifies
    <3>1. result.band = c.band /\ result.streak = 0
      BY <2>1, <2>2 DEF NextStreak
    <3>. QED
      BY <1>1, <3>1 DEF BandRank, Bands, result, score
  <2>3. CASE qualifies
    <3>1. /\ evidence.sources >= RequiredSources
          /\ result.score >= RecoveryThreshold(c.band)
      BY <2>1, <2>3 DEF Qualifies
    <3>2. CASE c.streak = 0
      <4>1. result.band = c.band /\ result.streak = 1
        BY <2>1, <2>3, <3>2 DEF NextStreak, RequiredStreak
      <4>. QED
        BY <1>4, <3>1, <4>1 DEF result
    <3>3. CASE c.streak = 1
      <4>1. result.band = NextBand(c.band) /\ result.streak = 0
        BY <2>1, <2>3, <3>3 DEF NextStreak, RequiredStreak
      <4>. QED
        BY <1>4, <3>1, <3>3, <4>1 DEF result
    <3>. QED
      BY <1>1, <3>2, <3>3
  <2>. QED
    BY <2>2, <2>3
<1>. QED
  BY <1>2, <1>3, <1>4

LEMMA TransitionStreak ==
  ASSUME HistoryInv, NEW i \in 1..Current,
         \/ BandRank[transitions[i].after.band] > BandRank[BandBefore(i)]
         \/ transitions[i].after.streak > 0
  PROVE  /\ transitions[i].evidence.critical = "none"
         /\ transitions[i].evidence.sources >= RequiredSources
         /\ transitions[i].after.score >= RecoveryThreshold(BandBefore(i))
         /\ IF transitions[i].after.streak > 0
            THEN transitions[i].after.band = BandBefore(i)
            ELSE /\ transitions[i].after.band = NextBand(BandBefore(i))
                 /\ ControlBefore(i - 1).streak > 0
<1>1. PICK candidate \in Scores :
        Outcome(transitions[i]) =
          Controlled(ControlBefore(i - 1), candidate, transitions[i].evidence)
  BY TransitionExplained
<1>2. /\ transitions[i].evidence \in Evidence
      /\ ControlBefore(i - 1) \in Control
  BY TransitionExplained DEF Transition
<1>. DEFINE result == Controlled(ControlBefore(i - 1), candidate,
                                 transitions[i].evidence)
<1>3. /\ result.score = transitions[i].after.score
      /\ result.band = transitions[i].after.band
      /\ result.streak = transitions[i].after.streak
  BY <1>1 DEF Outcome
<1>4. \/ BandRank[result.band] > BandRank[ControlBefore(i - 1).band]
      \/ result.streak > 0
      => /\ transitions[i].evidence.critical = "none"
         /\ transitions[i].evidence.sources >= RequiredSources
         /\ result.score >= RecoveryThreshold(ControlBefore(i - 1).band)
         /\ IF result.streak > 0 THEN result.band = ControlBefore(i - 1).band
            ELSE /\ result.band = NextBand(ControlBefore(i - 1).band)
                 /\ ControlBefore(i - 1).streak > 0
  BY <1>2, ControlledStreak
<1>. HIDE DEF result
<1>. QED
  BY <1>3, <1>4 DEF BandBefore

(* A rise has a streak before it, which the transition before it left.     *)
LEMMA StreakBefore ==
  ASSUME HistoryInv, NEW i \in 1..Current, ControlBefore(i - 1).streak > 0
  PROVE  /\ i > 1 /\ i - 1 \in 1..Current
         /\ ControlBefore(i - 1) = transitions[i - 1].after
<1>1. Current \in Nat
  BY LenProperties DEF HistoryInv, TypeInv, TypeOK, Current
<1>2. i # 1
  BY DEF ControlBefore, InitialControl
<1>. QED
  BY <1>1, <1>2 DEF ControlBefore

(* A band is only ever left upward, by one, because of two corroborated    *)
(* evaluations in a row at the threshold of the band they started in (the  *)
(* hysteresis of applyTrustTransitionControls).                            *)
THEOREM CorroboratedRise == Spec => []RiseIsCorroborated
<1>1. ASSUME HistoryInv PROVE RiseIsCorroborated
  <2>1. ASSUME NEW i \in 1..Current,
               BandRank[transitions[i].after.band] > BandRank[BandBefore(i)]
        PROVE  /\ transitions[i].after.band = NextBand(BandBefore(i))
               /\ i > 1
               /\ BandBefore(i - 1) = BandBefore(i)
               /\ \A j \in {i - 1, i} :
                    /\ transitions[j].after.score
                         >= RecoveryThreshold(BandBefore(i))
                    /\ transitions[j].evidence.sources >= RequiredSources
                    /\ transitions[j].evidence.critical = "none"
    <3>1. /\ transitions[i].evidence.critical = "none"
          /\ transitions[i].evidence.sources >= RequiredSources
          /\ transitions[i].after.score >= RecoveryThreshold(BandBefore(i))
      BY <1>1, <2>1, TransitionStreak
    <3>2. transitions[i].after.band # BandBefore(i)
      <4>1. transitions[i].after.band \in Bands
        BY <1>1, TransitionExplained DEF Transition, Control
      <4>. QED
        BY <2>1, <4>1 DEF BandRank, Bands
    <3>3. /\ transitions[i].after.band = NextBand(BandBefore(i))
          /\ ControlBefore(i - 1).streak > 0
      BY <1>1, <2>1, <3>2, TransitionStreak
    <3>4. /\ i > 1 /\ i - 1 \in 1..Current
          /\ ControlBefore(i - 1) = transitions[i - 1].after
      BY <1>1, <3>3, StreakBefore
    <3>5. transitions[i - 1].after.streak > 0
      BY <3>3, <3>4
    <3>6. /\ transitions[i - 1].evidence.critical = "none"
          /\ transitions[i - 1].evidence.sources >= RequiredSources
          /\ transitions[i - 1].after.score
               >= RecoveryThreshold(BandBefore(i - 1))
          /\ transitions[i - 1].after.band = BandBefore(i - 1)
      BY <1>1, <3>4, <3>5, TransitionStreak
    <3>7. BandBefore(i - 1) = BandBefore(i)
      BY <3>4, <3>6 DEF BandBefore
    <3>. QED
      BY <3>1, <3>3, <3>4, <3>6, <3>7
  <2>. QED
    BY <2>1 DEF RiseIsCorroborated
<1>. QED
  BY <1>1, HistoryInvariant, PTL

----------------------------------------------------------------------------
(* The rules in JavaScript and in SQL *)

LEMMA ControlledConsistent ==
  ASSUME NEW c \in Control, NEW candidate \in Scores, NEW evidence \in Evidence
  PROVE  LET result == Controlled(c, candidate, evidence)
         IN  /\ result.kind = "held" => result.band = c.band
             /\ result.kind = "deteriorated"
                  => BandRank[result.band] < BandRank[c.band]
             /\ result.kind = "recovered"
                  => BandRank[result.band] = BandRank[c.band] + 1
             /\ result.kind = "critical-override"
                  => result.band = "low" /\ result.score <= c.score
<1>. DEFINE result == Controlled(c, candidate, evidence)
            score  == BoundedScore(c.score, candidate, evidence.cap)
<1>1. c.band \in Bands
  BY DEF Control
<1>2. CASE evidence.critical # "none"
  <2>1. result.score <= c.score
    <3>1. result.score \in Int /\ c.score \in Int
      BY ControlledType, ScoreRange DEF Result, Control
    <3>2. result.score - c.score <= 0
      BY <1>2, ControlledCap
    <3>. QED
      BY <3>1, <3>2
  <2>2. result.kind = "critical-override" /\ result.band = "low"
    BY <1>2 DEF Controlled, Overridden
  <2>. QED
    BY <2>1, <2>2
<1>3. CASE evidence.critical = "none" /\ LowerBand(c.band, score) # c.band
  <2>1. result.band = LowerBand(c.band, score) /\ result.kind = "deteriorated"
    BY <1>3 DEF Controlled, Ordinary
  <2>2. \/ result.band = "low" /\ c.band # "low"
        \/ result.band = "medium" /\ c.band = "high"
    BY <1>3, <2>1 DEF LowerBand
  <2>3. BandRank[result.band] < BandRank[c.band]
    BY <1>1, <2>2 DEF BandRank, Bands
  <2>. QED
    BY <2>1, <2>3
<1>4. CASE evidence.critical = "none" /\ LowerBand(c.band, score) = c.band
  <2>. DEFINE recovered == /\ Qualifies(c.band, score, evidence.sources)
                           /\ c.streak + 1 >= RequiredStreak
  <2>1. /\ result.band = IF recovered THEN NextBand(c.band) ELSE c.band
        /\ result.kind = IF recovered THEN "recovered" ELSE "held"
    BY <1>4 DEF Controlled, Ordinary
  <2>2. recovered => c.band # "high"
    BY DEF Qualifies
  <2>. HIDE DEF result, recovered
  <2>3. CASE recovered
    <3>1. BandRank[result.band] = BandRank[c.band] + 1
      BY <1>1, <2>1, <2>2, <2>3 DEF NextBand, BandRank, Bands
    <3>. QED
      BY <2>1, <2>3, <3>1 DEF result
  <2>4. CASE ~recovered
    BY <2>1, <2>4 DEF result
  <2>. QED
    BY <2>3, <2>4
<1>. QED
  BY <1>2, <1>3, <1>4

(* No transition an engine builds fails the consistency checks of the      *)
(* database (record_subject_trust_transition, "Trust transition state      *)
(* change is inconsistent.").                                              *)
THEOREM ChangesAccepted == Spec => []DatabaseAgrees
<1>1. ASSUME TypeInv PROVE DatabaseAgrees
  <2>1. ASSUME NEW e \in Engines, engine[e].phase = "ready",
               NEW t \in Built(e)
        PROVE  ChangeAccepted(t)
    <3>1. /\ t.before \in Control /\ t.evidence \in Evidence
          /\ Explains(t)
      BY <1>1, <2>1, BuiltType DEF Transition
    <3>2. PICK candidate \in Scores :
            Outcome(t) = Controlled(t.before, candidate, t.evidence)
      BY <3>1 DEF Explains
    <3>. DEFINE result == Controlled(t.before, candidate, t.evidence)
    <3>3. /\ result.score = t.after.score /\ result.band = t.after.band
          /\ result.kind = t.kind
      BY <3>2 DEF Outcome
    <3>4. /\ result.kind = "held" => result.band = t.before.band
          /\ result.kind = "deteriorated"
               => BandRank[result.band] < BandRank[t.before.band]
          /\ result.kind = "recovered"
               => BandRank[result.band] = BandRank[t.before.band] + 1
          /\ result.kind = "critical-override"
               => result.band = "low" /\ result.score <= t.before.score
      BY <3>1, ControlledConsistent
    <3>. HIDE DEF result
    <3>. QED
      BY <3>3, <3>4 DEF ChangeAccepted
  <2>. QED
    BY <2>1 DEF DatabaseAgrees
<1>2. Spec => []TypeInv
  BY TypeInit, TypeStep, PTL DEF Spec
<1>. QED
  BY <1>1, <1>2, PTL

----------------------------------------------------------------------------
(* Observations *)

(* A temporal state that rests on a newer observation than another, or on  *)
(* the same one with the same anchor.                                      *)
Extends(temporal, before) ==
  \/ temporal.lastFresh > before.lastFresh
  \/ /\ temporal.lastFresh = before.lastFresh
     /\ temporal.anchor = before.anchor

LEMMA NextTemporalsExtend ==
  ASSUME NEW state \in Temporal, NEW observed \in Scores,
         NEW observedAt \in Nat, NEW time \in Nat,
         SmoothingDefined(state, observedAt, time),
         NEW temporal \in NextTemporals(state, observed, observedAt, time)
  PROVE  Extends(temporal, state)
<1>1. CASE IsFresh(observedAt, time)
  <2>1. temporal.lastFresh = observedAt
    BY <1>1 DEF NextTemporals
  <2>2. observedAt > state.lastFresh
    BY <1>1 DEF SmoothingDefined
  <2>. QED
    BY <2>1, <2>2 DEF Extends
<1>2. CASE ~IsFresh(observedAt, time)
  <2>1. PICK s : temporal = [state EXCEPT !.score = s, !.lastEvaluated = time]
    BY <1>2 DEF NextTemporals
  <2>. QED
    BY <2>1 DEF Extends, Temporal
<1>. QED
  BY <1>1, <1>2

LEMMA RecordExtends ==
  ASSUME TypeInv, NEW e \in Engines, Record(e), Current # 0
  PROVE  \E t \in Transition :
           /\ transitions' = Append(transitions, t)
           /\ Extends(t.temporal, transitions[Current].temporal)
<1>1. PICK t \in Built(e) :
        OrderAccepted(t) /\ transitions' = Append(transitions, t)
  BY DEF Record
<1>2. engine[e].phase = "ready" /\ Evaluable(e)
  BY DEF Record
<1>3. t \in Transition /\ engine[e].previous = Current
  BY <1>1, <1>2, BuiltType DEF OrderAccepted
<1>. DEFINE observed == versions[engine[e].version]
            before   == transitions[Current].temporal
<1>4. t.temporal \in NextTemporals(TemporalBefore(e), observed.score,
                                   observed.observedAt, now)
  BY DEF Built
<1>5. /\ observed.score \in Scores /\ observed.observedAt \in Nat
      /\ now \in Nat /\ TemporalBefore(e) \in Temporal
      /\ SmoothingDefined(TemporalBefore(e), observed.observedAt, now)
  BY <1>2, ReadyType, TemporalBeforeType, BoundsAssumption
     DEF Version, Evaluable, TypeInv, TypeOK
<1>. HIDE DEF observed
<1>6. Extends(t.temporal, TemporalBefore(e))
  BY <1>4, <1>5, NextTemporalsExtend
<1>7. before \in Temporal
  <2>1. Current \in 1..Len(transitions)
    BY LenProperties DEF TypeInv, TypeOK, Current
  <2>2. transitions[Current] \in Transition
    BY <2>1, ElementOfSeq DEF TypeInv, TypeOK
  <2>. QED
    BY <2>2 DEF Transition
<1>8. /\ TemporalBefore(e).lastFresh = before.lastFresh
      /\ TemporalBefore(e).anchor = before.anchor
  BY <1>3, <1>7 DEF TemporalBefore, Temporal
<1>9. Extends(t.temporal, before)
  BY <1>6, <1>8 DEF Extends
<1>. QED
  BY <1>1, <1>3, <1>9

ObservationInv == TypeInv /\ ObservationsCountOnce

LEMMA RecordKeepsObservations ==
  ASSUME ObservationInv, NEW e \in Engines, Record(e)
  PROVE  ObservationsCountOnce'
<1>. DEFINE T(i) == transitions[i].temporal
<1>1. PICK t \in Transition :
        /\ transitions' = Append(transitions, t)
        /\ Current # 0 => Extends(t.temporal, T(Current))
  <2>1. CASE Current = 0
    BY <2>1, RecordAppends DEF ObservationInv, Recorded
  <2>2. CASE Current # 0
    BY <2>2, RecordExtends DEF ObservationInv
  <2>. QED
    BY <2>1, <2>2
<1>2. transitions \in Seq(Transition) /\ Current \in Nat
  BY LenProperties DEF ObservationInv, TypeInv, TypeOK, Current
<1>3. /\ Current' = Current + 1
      /\ \A i \in 1..Current : transitions'[i] = transitions[i]
      /\ transitions'[Current + 1] = t
  BY <1>1, <1>2, AppendProperties DEF Current
<1>4. ASSUME NEW i \in 1..Current PROVE T(i).lastFresh \in Int
  <2>1. transitions[i] \in Transition
    BY <1>2, ElementOfSeq DEF Current
  <2>. QED
    BY <2>1 DEF Transition, Temporal, Never
<1>5. t.temporal.lastFresh \in Int
  BY DEF Transition, Temporal, Never
<1>6. ASSUME NEW i \in 1..Current', NEW j \in 1..Current', i < j
      PROVE  /\ transitions'[i].temporal.lastFresh
                  <= transitions'[j].temporal.lastFresh
             /\ transitions'[i].temporal.lastFresh
                  = transitions'[j].temporal.lastFresh
                => transitions'[i].temporal.anchor
                     = transitions'[j].temporal.anchor
  <2>1. i \in 1..Current /\ transitions'[i] = transitions[i]
    BY <1>2, <1>3, <1>6
  <2>2. CASE j \in 1..Current
    BY <1>3, <1>6, <2>1, <2>2 DEF ObservationInv, ObservationsCountOnce
  <2>3. CASE j = Current + 1
    <3>1. transitions'[j] = t /\ Current # 0 /\ Current \in 1..Current
      BY <1>2, <1>3, <2>1, <2>3
    <3>2. /\ T(i).lastFresh <= T(Current).lastFresh
          /\ T(i).lastFresh = T(Current).lastFresh
               => T(i).anchor = T(Current).anchor
      <4>1. CASE i = Current
        BY <1>4, <2>1, <4>1
      <4>2. CASE i < Current
        BY <2>1, <3>1, <4>2 DEF ObservationInv, ObservationsCountOnce
      <4>. QED
        BY <1>2, <2>1, <4>1, <4>2
    <3>3. T(i).lastFresh \in Int /\ T(Current).lastFresh \in Int
      BY <1>4, <2>1, <3>1
    <3>4. \/ t.temporal.lastFresh > T(Current).lastFresh
          \/ /\ t.temporal.lastFresh = T(Current).lastFresh
             /\ t.temporal.anchor = T(Current).anchor
      BY <1>1, <3>1 DEF Extends
    <3>. QED
      BY <1>5, <2>1, <3>1, <3>2, <3>3, <3>4
  <2>. QED
    BY <1>2, <1>3, <2>2, <2>3
<1>. QED
  BY <1>6 DEF ObservationsCountOnce

(* Each observation enters the smoothed score of a subject once, in        *)
(* whatever order state versions are observed, stored and evaluated        *)
(* (advanceSmoothedTrustScore, TRUST_OBSERVATION_NOT_NEWER).               *)
THEOREM EachObservationOnce == Spec => []ObservationsCountOnce
<1>1. ASSUME Init PROVE ObservationInv
  <2>1. 1..Current = {}
    BY <1>1, EmptySeq DEF Init, Current
  <2>. QED
    BY <1>1, <2>1, TypeInit DEF ObservationInv, ObservationsCountOnce
<1>2. ASSUME ObservationInv, [Next]_vars PROVE ObservationInv'
  <2>1. TypeInv'
    BY <1>2, TypeStep DEF ObservationInv
  <2>2. CASE UNCHANGED transitions
    BY <1>2, <2>1, <2>2
       DEF ObservationInv, ObservationsCountOnce, Current
  <2>3. CASE \E e \in Engines : Record(e)
    BY <1>2, <2>1, <2>3, RecordKeepsObservations DEF ObservationInv
  <2>4. UNCHANGED transitions \/ \E e \in Engines : Record(e)
    BY <1>2
       DEF Next, Work, StoreState, Tick, ReadState, ReadTransition, Refuse,
           vars
  <2>. QED
    BY <2>2, <2>3, <2>4
<1>3. ObservationInv => ObservationsCountOnce
  BY DEF ObservationInv
<1>. QED
  BY <1>1, <1>2, <1>3, PTL DEF Spec

----------------------------------------------------------------------------
(* WeightedScore: sums over the components *)

Five(f) == f["identity"] + f["device"] + f["behaviour"] + f["certificate"] + f["compliance"]

(* The sum over the components of a part                                   *)
Part(f, s) == Five([c \in Components |-> IF c \in s THEN f[c] ELSE 0])

LEMMA PartOf ==
  ASSUME NEW f \in [Components -> Int]
  PROVE  /\ Part(f, {}) = 0 /\ Part(f, Components) = Five(f) /\ Five(f) \in Int
         /\ \A s \in SUBSET Components : Part(f, s) \in Int
         /\ \A s \in SUBSET Components : \A x \in s : Part(f, s) = f[x] + Part(f, s \ {x})
<1>1. \A s : Part(f, s) = (IF "identity" \in s THEN f["identity"] ELSE 0)
                        + (IF "device" \in s THEN f["device"] ELSE 0)
                        + (IF "behaviour" \in s THEN f["behaviour"] ELSE 0)
                        + (IF "certificate" \in s THEN f["certificate"] ELSE 0)
                        + (IF "compliance" \in s THEN f["compliance"] ELSE 0)
  BY DEF Part, Five, Components
<1>2. /\ f["identity"] \in Int /\ f["device"] \in Int /\ f["behaviour"] \in Int
      /\ f["certificate"] \in Int /\ f["compliance"] \in Int
  BY DEF Components
<1>3. /\ Part(f, {}) = 0 /\ Part(f, Components) = Five(f) /\ Five(f) \in Int
      /\ \A s \in SUBSET Components : Part(f, s) \in Int
  BY <1>1, <1>2 DEF Five, Components
<1>4. ASSUME NEW s \in SUBSET Components, NEW x \in s
      PROVE  Part(f, s) = f[x] + Part(f, s \ {x})
  <2>1. x \in Components
    OBVIOUS
  <2>2. CASE x = "identity"
    BY <1>1, <1>2, <2>2
  <2>3. CASE x = "device"
    BY <1>1, <1>2, <2>3
  <2>4. CASE x = "behaviour"
    BY <1>1, <1>2, <2>4
  <2>5. CASE x = "certificate"
    BY <1>1, <1>2, <2>5
  <2>6. CASE x = "compliance"
    BY <1>1, <1>2, <2>6
  <2>. QED
    BY <2>1, <2>2, <2>3, <2>4, <2>5, <2>6 DEF Components
<1>. QED
  BY <1>3, <1>4

LEMMA ComponentsFinite == IsFiniteSet(Components) /\ Cardinality(Components) = 5
<1>1. IsFiniteSet({"identity"}) /\ Cardinality({"identity"}) = 1
  BY FS_Singleton
<1>2. PICK a : a = {"identity"}
  OBVIOUS
<1>3. PICK b : b = a \cup {"device"}
  OBVIOUS
<1>4. PICK c : c = b \cup {"behaviour"}
  OBVIOUS
<1>5. PICK d : d = c \cup {"certificate"}
  OBVIOUS
<1>6. Components = d \cup {"compliance"}
  BY <1>2, <1>3, <1>4, <1>5 DEF Components
<1>7. IsFiniteSet(b) /\ Cardinality(b) = 2
  BY <1>1, <1>2, <1>3, FS_AddElement
<1>8. IsFiniteSet(c) /\ Cardinality(c) = 3
  BY <1>2, <1>3, <1>4, <1>7, FS_AddElement
<1>9. IsFiniteSet(d) /\ Cardinality(d) = 4
  BY <1>2, <1>3, <1>4, <1>5, <1>8, FS_AddElement
<1>. QED
  BY <1>2, <1>3, <1>4, <1>5, <1>6, <1>9, FS_AddElement

(* There is one such function, and it adds them all up.                    *)
LEMMA AddsUp ==
  ASSUME NEW f \in [Components -> Int], NEW iter,
         iter = [s \in SUBSET Components |->
                   IF s = {} THEN 0
                   ELSE f[CHOOSE x \in s : TRUE] + iter[s \ {CHOOSE x \in s : TRUE}]]
  PROVE  iter[Components] = Five(f)
<1>. DEFINE Wrong == {n \in Nat : \E s \in SUBSET Components :
                                    Cardinality(s) = n /\ iter[s] # Part(f, s)}
<1>1. \A s \in SUBSET Components : IsFiniteSet(s) /\ Cardinality(s) \in Nat
  BY ComponentsFinite, FS_Subset, FS_CardinalityType
<1>. DEFINE R == OpToRel(<, Nat)
<1>2. Wrong = {}
  <2>. SUFFICES ASSUME Wrong # {} PROVE FALSE
    OBVIOUS
  <2>1. PICK n \in Wrong : \A m \in Wrong : ~(<<m, n>> \in R)
    <3>1. IsWellFoundedOn(R, Nat)
      BY NatLessThanWellFounded
    <3>. HIDE DEF R
    <3>2. Wrong \subseteq Nat /\ Wrong # {}
      OBVIOUS
    <3>. HIDE DEF Wrong
    <3>. QED
      BY <3>1, <3>2, WFMin
  <2>2. PICK s \in SUBSET Components : Cardinality(s) = n /\ iter[s] # Part(f, s)
    OBVIOUS
  <2>3. CASE s = {}
    BY <2>2, <2>3, PartOf
  <2>4. CASE s # {}
    <3>1. PICK x \in s : x = CHOOSE y \in s : TRUE
      BY <2>4
    <3>2. iter[s] = f[x] + iter[s \ {x}]
      BY <2>4, <3>1
    <3>3. s \ {x} \in SUBSET Components /\ Cardinality(s \ {x}) = n - 1 /\ n \in Nat /\ n > 0
      <4>1. IsFiniteSet(s) /\ Cardinality(s) = n /\ n \in Nat
        BY <1>1, <2>2
      <4>2. n # 0
        BY <2>4, <4>1, FS_EmptySet
      <4>3. Cardinality(s \ {x}) = n - 1
        BY <3>1, <4>1, FS_RemoveElement
      <4>. QED
        BY <4>1, <4>2, <4>3
    <3>4. iter[s \ {x}] = Part(f, s \ {x})
      <4>1. n - 1 \in Nat /\ <<n - 1, n>> \in OpToRel(<, Nat)
        BY <3>3 DEF OpToRel
      <4>2. n - 1 \notin Wrong
        BY <2>1, <4>1
      <4>. QED
        BY <3>3, <4>1, <4>2
    <3>. QED
      BY <2>2, <3>2, <3>4, PartOf
  <2>. QED
    BY <2>3, <2>4
<1>3. iter[Components] = Part(f, Components)
  BY <1>1, <1>2
<1>. QED
  BY <1>3, PartOf

LEMMA AdderExists ==
  ASSUME NEW f \in [Components -> Int]
  PROVE  \E iter : iter = [s \in SUBSET Components |->
                             IF s = {} THEN 0
                             ELSE f[CHOOSE x \in s : TRUE] + iter[s \ {CHOOSE x \in s : TRUE}]]
<1>. DEFINE sums == [s \in SUBSET Components |-> Part(f, s)]
<1>1. ASSUME NEW s \in SUBSET Components
      PROVE  sums[s] = IF s = {} THEN 0
                       ELSE f[CHOOSE x \in s : TRUE] + sums[s \ {CHOOSE x \in s : TRUE}]
  <2>1. CASE s = {}
    BY <2>1, PartOf
  <2>2. CASE s # {}
    <3>1. PICK x \in s : x = CHOOSE y \in s : TRUE
      BY <2>2
    <3>2. Part(f, s) = f[x] + Part(f, s \ {x})
      BY PartOf
    <3>. QED
      BY <2>2, <3>1, <3>2
  <2>. QED
    BY <2>1, <2>2
<1>. HIDE DEF sums
<1>2. sums = [s \in SUBSET Components |-> sums[s]]
  BY DEF sums
<1>3. sums = [s \in SUBSET Components |->
                IF s = {} THEN 0
                ELSE f[CHOOSE x \in s : TRUE] + sums[s \ {CHOOSE x \in s : TRUE}]]
  BY <1>1, <1>2
<1>. QED
  BY <1>3

LEMMA TotalOfFive ==
  ASSUME NEW decimals, DOMAIN decimals = Components, NEW scale,
         \A c \in Components : Digits(decimals[c], scale) \in Int
  PROVE  FoldFunction(LAMBDA d, total : Digits(d, scale) + total, 0, decimals)
           = Five([c \in Components |-> Digits(decimals[c], scale)])
<1>. DEFINE f == [c \in Components |-> Digits(decimals[c], scale)]
            Iterates(iter) ==
              iter = [s \in SUBSET Components |->
                        IF s = {} THEN 0
                        ELSE Digits(decimals[CHOOSE x \in s : TRUE], scale)
                               + iter[s \ {CHOOSE x \in s : TRUE}]]
<1>1. FoldFunction(LAMBDA d, total : Digits(d, scale) + total, 0, decimals)
        = (CHOOSE iter : Iterates(iter))[Components]
  BY DEF FoldFunction, FoldFunctionOnSet, MapThenFoldSet
<1>2. ASSUME NEW iter
      PROVE  Iterates(iter) <=>
               iter = [s \in SUBSET Components |->
                         IF s = {} THEN 0
                         ELSE f[CHOOSE x \in s : TRUE] + iter[s \ {CHOOSE x \in s : TRUE}]]
  <2>1. \A s \in SUBSET Components :
          s # {} => Digits(decimals[CHOOSE x \in s : TRUE], scale) = f[CHOOSE x \in s : TRUE]
    <3>. SUFFICES ASSUME NEW s \in SUBSET Components, s # {}
                  PROVE  Digits(decimals[CHOOSE x \in s : TRUE], scale)
                           = f[CHOOSE x \in s : TRUE]
      OBVIOUS
    <3>1. PICK x \in s : x = CHOOSE y \in s : TRUE
      OBVIOUS
    <3>2. f[x] = Digits(decimals[x], scale)
      OBVIOUS
    <3>. QED
      BY <3>1, <3>2
  <2>2. [s \in SUBSET Components |->
           IF s = {} THEN 0
           ELSE Digits(decimals[CHOOSE x \in s : TRUE], scale)
                  + iter[s \ {CHOOSE x \in s : TRUE}]]
        = [s \in SUBSET Components |->
             IF s = {} THEN 0
             ELSE f[CHOOSE x \in s : TRUE] + iter[s \ {CHOOSE x \in s : TRUE}]]
    BY <2>1
  <2>. QED
    BY <2>2
<1>3. f \in [Components -> Int]
  OBVIOUS
<1>. HIDE DEF f
<1>4. \E iter : Iterates(iter)
  <2>1. PICK iter :
          iter = [s \in SUBSET Components |->
                    IF s = {} THEN 0
                    ELSE f[CHOOSE x \in s : TRUE] + iter[s \ {CHOOSE x \in s : TRUE}]]
    BY <1>3, AdderExists
  <2>2. Iterates(iter)
    BY <1>2, <2>1
  <2>. QED
    BY <2>2
<1>. HIDE DEF Iterates
<1>5. Iterates(CHOOSE iter : Iterates(iter))
  BY <1>4
<1>6. PICK iter : iter = CHOOSE it : Iterates(it)
  OBVIOUS
<1>7. iter[Components] = Five(f)
  BY <1>2, <1>3, <1>5, <1>6, AddsUp
<1>. QED
  BY <1>1, <1>6, <1>7 DEF f

----------------------------------------------------------------------------
(* WeightedScore: decimals *)

Ten(k) == 10 ^ k

LEMMA Powers ==
  /\ Ten(0) = 1 /\ Ten(1) = 10 /\ Ten(2) = 100 /\ Ten(3) = 1000
  /\ Ten(4) = 10000 /\ Ten(5) = 100000 /\ Ten(6) = 1000000
BY DEF Ten

LEMMA PowerOf == \A k \in 0..6 : Ten(k) \in Nat /\ Ten(k) > 0
<1>. SUFFICES ASSUME NEW k \in 0..6 PROVE Ten(k) \in Nat /\ Ten(k) > 0
  OBVIOUS
<1>1. k = 0 \/ k = 1 \/ k = 2 \/ k = 3 \/ k = 4 \/ k = 5 \/ k = 6
  OBVIOUS
<1>. QED
  BY <1>1, Powers

LEMMA PowerSum ==
  ASSUME NEW a \in 0..6, NEW b \in 0..6, a + b <= 6
  PROVE  Ten(a + b) = Ten(a) * Ten(b)
<1>1. a = 0 \/ a = 1 \/ a = 2 \/ a = 3 \/ a = 4 \/ a = 5 \/ a = 6
  OBVIOUS
<1>2. b = 0 \/ b = 1 \/ b = 2 \/ b = 3 \/ b = 4 \/ b = 5 \/ b = 6
  OBVIOUS
<1>. QED
  BY <1>1, <1>2, Powers

LEMMA DigitsFiner ==
  ASSUME NEW d, d.integer \in Int, NEW m \in 0..6, d.scale \in 0..m
  PROVE  /\ Digits(d, m) \in Int /\ Digits(d, 6) = Digits(d, m) * Ten(6 - m)
         /\ d.integer \in Nat => Digits(d, m) \in Nat
<1>1. PICK n \in Int, s \in 0..m : n = d.integer /\ s = d.scale
  OBVIOUS
<1>2. PICK a \in 0..6, b \in 0..6 : a = m - s /\ b = 6 - m
  BY <1>1
<1>3. a + b = 6 - s /\ a + b <= 6
  BY <1>2
<1>4. PICK p \in Nat, q \in Nat : p = Ten(a) /\ q = Ten(b)
  BY PowerOf
<1>5. Ten(6 - s) = p * q
  BY <1>3, <1>4, PowerSum
<1>6. n * (p * q) = (n * p) * q /\ n * p \in Int /\ (n \in Nat => n * p \in Nat)
  OBVIOUS
<1>. QED
  BY <1>1, <1>2, <1>4, <1>5, <1>6 DEF Digits, Ten

LEMMA LargestOfFive ==
  ASSUME NEW f, \A c \in Components : f[c] \in Nat
  PROVE  \E m \in Components : \A c \in Components : f[c] <= f[m]
<1>1. /\ f["identity"] \in Nat /\ f["device"] \in Nat /\ f["behaviour"] \in Nat
      /\ f["certificate"] \in Nat /\ f["compliance"] \in Nat
  BY DEF Components
<1>. DEFINE Largest(m) == /\ f["identity"] <= m /\ f["device"] <= m /\ f["behaviour"] <= m
                          /\ f["certificate"] <= m /\ f["compliance"] <= m
<1>2. \/ Largest(f["identity"]) \/ Largest(f["device"]) \/ Largest(f["behaviour"])
      \/ Largest(f["certificate"]) \/ Largest(f["compliance"])
  BY <1>1
<1>. QED
  BY <1>2 DEF Components

LEMMA SumOfFive ==
  ASSUME NEW decimals, DOMAIN decimals = Components, NEW places \in 0..6,
         \A c \in Components : decimals[c].scale \in 0..places /\ decimals[c].integer \in Int
  PROVE  \E m \in 0..places :
           /\ \A c \in Components : decimals[c].scale \in 0..m
           /\ SumOf(decimals) = Decimal(Five([c \in Components |-> Digits(decimals[c], m)]), m)
<1>. DEFINE S == {decimals[c].scale : c \in DOMAIN decimals}
            f == [c \in Components |-> decimals[c].scale]
<1>1. PICK x \in Components : \A c \in Components : f[c] <= f[x]
  <2>1. \A c \in Components : f[c] \in Nat
    OBVIOUS
  <2>. HIDE DEF f
  <2>. QED
    BY <2>1, LargestOfFive
<1>2. PICK m : m = Max(S)
  OBVIOUS
<1>3. m \in S /\ \A s \in S : s <= m
  <2>1. \E s \in S : \A t \in S : s >= t
    BY <1>1
  <2>. QED
    BY <1>2, <2>1 DEF Max
<1>4. m \in 0..places /\ m \in 0..6 /\ \A c \in Components : decimals[c].scale \in 0..m
  BY <1>3
<1>5. \A c \in Components : Digits(decimals[c], m) \in Int
  BY <1>4, DigitsFiner
<1>6. FoldFunction(LAMBDA d, total : Digits(d, m) + total, 0, decimals)
        = Five([c \in Components |-> Digits(decimals[c], m)])
  BY <1>5, TotalOfFive
<1>7. SumOf(decimals) =
        Decimal(FoldFunction(LAMBDA d, total : Digits(d, m) + total, 0, decimals), m)
  BY <1>2 DEF SumOf, FoldFunction, FoldFunctionOnSet, MapThenFoldSet
<1>. QED
  BY <1>4, <1>6, <1>7

(* A sum at its own scale and at six decimals                              *)
LEMMA SumAtSix ==
  ASSUME NEW decimals, DOMAIN decimals = Components,
         \A c \in Components : decimals[c].scale \in 0..6 /\ decimals[c].integer \in Nat
  PROVE  \E m \in 0..6, total \in Nat :
           /\ SumOf(decimals) = Decimal(total, m)
           /\ Five([c \in Components |-> Digits(decimals[c], 6)]) = total * Ten(6 - m)
<1>1. PICK m \in 0..6 :
        /\ \A c \in Components : decimals[c].scale \in 0..m
        /\ SumOf(decimals) = Decimal(Five([c \in Components |-> Digits(decimals[c], m)]), m)
  <2>1. \A c \in Components : decimals[c].scale \in 0..6 /\ decimals[c].integer \in Int
    OBVIOUS
  <2>2. 6 \in 0..6
    OBVIOUS
  <2>. QED
    BY <2>1, <2>2, SumOfFive
<1>2. PICK f, g, q : /\ f = [c \in Components |-> Digits(decimals[c], m)]
                     /\ g = [c \in Components |-> Digits(decimals[c], 6)]
                     /\ q = Ten(6 - m)
  OBVIOUS
<1>3. q \in Nat
  BY <1>2, PowerOf
<1>4. \A c \in Components : f[c] \in Nat /\ g[c] = f[c] * q
  BY <1>1, <1>2, DigitsFiner
<1>5. Five(f) \in Nat /\ Five(g) = Five(f) * q
  <2>1. /\ f["identity"] \in Nat /\ f["device"] \in Nat /\ f["behaviour"] \in Nat
        /\ f["certificate"] \in Nat /\ f["compliance"] \in Nat
        /\ g["identity"] = f["identity"] * q /\ g["device"] = f["device"] * q
        /\ g["behaviour"] = f["behaviour"] * q /\ g["certificate"] = f["certificate"] * q
        /\ g["compliance"] = f["compliance"] * q
    BY <1>4 DEF Components
  <2>. QED
    BY <1>3, <2>1 DEF Five
<1>. QED
  BY <1>1, <1>2, <1>5

(* Rounding to two decimals is the same from any scale at which the number *)
(* is exact.                                                               *)
RoundedSix(n) == Decimal(n \div 10000 + (IF 2 * (n % 10000) >= 10000 THEN 1 ELSE 0), 2)

LEMMA RoundedAtSix ==
  ASSUME NEW m \in 0..6, NEW total \in Nat
  PROVE  Rounded(Decimal(total, m), 2) = RoundedSix(total * Ten(6 - m))
<1>1. m = 0 \/ m = 1 \/ m = 2 \/ m = 3 \/ m = 4 \/ m = 5 \/ m = 6
  OBVIOUS
<1>2. CASE m <= 2
  <2>1. Rounded(Decimal(total, m), 2) = Decimal(total * Ten(2 - m), 2)
    BY <1>2 DEF Rounded, Decimal, Digits, Ten
  <2>2. PICK n \in Nat : n = total * Ten(2 - m)
    BY <1>1, <1>2, PowerOf
  <2>3. total * Ten(6 - m) = n * 10000
    BY <1>1, <1>2, <2>2, Powers
  <2>4. (n * 10000) \div 10000 = n /\ (n * 10000) % 10000 = 0
    OBVIOUS
  <2>. QED
    BY <2>1, <2>2, <2>3, <2>4 DEF RoundedSix
<1>3. ASSUME NEW k \in {10, 100, 1000, 10000}, NEW j \in Nat, k * j = 10000
      PROVE  /\ (total * j) \div 10000 = total \div k
             /\ 2 * ((total * j) % 10000) >= 10000 <=> 2 * (total % k) >= k
  <2>1. PICK q \in Nat, r \in 0..(k - 1) :
          total = q * k + r /\ q = total \div k /\ r = total % k
    BY <1>3
  <2>2. \/ k = 10 /\ j = 1000
        \/ k = 100 /\ j = 100
        \/ k = 1000 /\ j = 10
        \/ k = 10000 /\ j = 1
    BY <1>3
  <2>3. total * j = q * 10000 + r * j /\ r * j \in 0..9999
    <3>. DEFINE Split == total * j = q * 10000 + r * j /\ r * j \in 0..9999
    <3>1. k = 10 /\ j = 1000 => Split
      BY <2>1
    <3>2. k = 100 /\ j = 100 => Split
      BY <2>1
    <3>3. k = 1000 /\ j = 10 => Split
      BY <2>1
    <3>4. k = 10000 /\ j = 1 => Split
      BY <2>1
    <3>5. Split
      <4>. HIDE DEF Split
      <4>. QED
        BY <2>2, <3>1, <3>2, <3>3, <3>4
    <3>. QED
      BY <3>5
  <2>4. (total * j) \div 10000 = q /\ (total * j) % 10000 = r * j
    BY <2>3
  <2>. QED
    BY <2>1, <2>2, <2>4
<1>4. CASE m > 2
  <2>1. PICK k, j : k = Ten(m - 2) /\ j = Ten(6 - m)
    OBVIOUS
  <2>2. k \in {10, 100, 1000, 10000} /\ j \in Nat /\ k * j = 10000
    BY <1>1, <1>4, <2>1, Powers
  <2>3. Rounded(Decimal(total, m), 2) =
          Decimal(total \div k + (IF 2 * (total % k) >= k THEN 1 ELSE 0), 2)
    BY <1>4, <2>1 DEF Rounded, Decimal, Ten
  <2>. QED
    BY <1>3, <2>1, <2>2, <2>3 DEF RoundedSix
<1>. QED
  BY <1>1, <1>2, <1>4

LEMMA StoredIs ==
  ASSUME NEW places \in Nat, NEW d \in StoredDecimals(places)
  PROVE  d.integer \in Nat /\ d.scale \in 0..places
BY DEF StoredDecimals

(* The sum of exact numbers, rounded to two decimals                       *)
LEMMA RoundedSum ==
  ASSUME NEW decimals, DOMAIN decimals = Components,
         \A c \in Components : decimals[c].scale \in 0..6 /\ decimals[c].integer \in Nat
  PROVE  Rounded(SumOf(decimals), 2)
           = RoundedSix(Five([c \in Components |-> Digits(decimals[c], 6)]))
<1>1. PICK m \in 0..6, total \in Nat :
        /\ SumOf(decimals) = Decimal(total, m)
        /\ Five([c \in Components |-> Digits(decimals[c], 6)]) = total * Ten(6 - m)
  BY SumAtSix
<1>. QED
  BY <1>1, RoundedAtSix

(* Two decimals of a value and four of a weight make six.                  *)
LEMMA ProductIs ==
  ASSUME NEW v \in StoredDecimals(2), NEW w \in StoredDecimals(4)
  PROVE  /\ Times(v, w).integer \in Nat /\ Times(v, w).scale \in 0..6
         /\ Digits(Times(v, w), 6) \in Nat
         /\ Rounded(Times(v, w), 6) = Decimal(Digits(Times(v, w), 6), 6)
         /\ AtMost(v, Whole(100)) => Digits(Times(v, w), 6) <= 100 * Digits(w, 6)
         /\ Digits(w, 6) \in Nat
<1>1. PICK a \in Nat, s \in 0..2, b \in Nat, r \in 0..4 :
        v = Decimal(a, s) /\ w = Decimal(b, r)
  BY DEF StoredDecimals, Decimal
<1>2. PICK p : p = Times(v, w)
  OBVIOUS
<1>3. /\ p.integer = a * b /\ p.scale = s + r
      /\ p.integer \in Nat /\ p.scale \in 0..6
  BY <1>1, <1>2 DEF Times, Decimal
<1>4. Digits(p, 6) \in Nat
  BY <1>3, DigitsFiner
<1>5. Rounded(p, 6) = Decimal(Digits(p, 6), 6)
  BY <1>3 DEF Rounded
<1>6. PICK k \in Nat, j \in Nat, i \in Nat :
        /\ k = Ten(6 - (s + r)) /\ j = Ten(6 - r) /\ i = Ten(s) /\ j = i * k
  <2>1. PICK x \in 0..6 : x = 6 - (s + r)
    OBVIOUS
  <2>2. s \in 0..6 /\ s + x = 6 - r /\ 6 - r \in 0..6 /\ s + x <= 6
    BY <2>1
  <2>3. Ten(s + x) = Ten(s) * Ten(x)
    BY <2>2, PowerSum
  <2>. QED
    BY <2>1, <2>2, <2>3, PowerOf
<1>7. Digits(p, 6) = a * b * k /\ Digits(w, 6) = b * j
  BY <1>1, <1>3, <1>6 DEF Digits, Ten, Decimal
<1>8. ASSUME AtMost(v, Whole(100)) PROVE Digits(p, 6) <= 100 * Digits(w, 6)
  <2>1. a <= 100 * i
    <3>1. CommonScale(v, Whole(100)) = s
      BY <1>1 DEF CommonScale, Whole, Decimal
    <3>2. Digits(v, s) = a * Ten(0) /\ Digits(Whole(100), s) = 100 * Ten(s)
      BY <1>1 DEF Digits, Whole, Decimal, Ten
    <3>. QED
      BY <1>6, <1>8, <3>1, <3>2, Powers DEF AtMost
  <2>2. PICK n \in Nat : n = b * k
    OBVIOUS
  <2>3. a * n <= (100 * i) * n
    BY <2>1
  <2>4. a * b * k = a * n /\ 100 * (b * j) = (100 * i) * n
    BY <1>6, <2>2
  <2>. QED
    BY <1>7, <2>3, <2>4
<1>9. Digits(w, 6) \in Nat
  BY <1>6, <1>7
<1>. QED
  BY <1>2, <1>3, <1>4, <1>5, <1>8, <1>9

(* What the database adds up rounds to the score.                          *)
LEMMA ContributionsAddUp ==
  ASSUME NEW values \in [Components -> StoredDecimals(2)],
         NEW weights \in [Components -> StoredDecimals(4)], NEW references
  PROVE  Rounded(ContributionTotal(ContributionRecords(values, weights, references)), 2)
           = WeightedTrustScore(values, weights)
<1>. DEFINE P == Exact(values, weights)
            C == ContributionRecords(values, weights, references)
            W == [c \in Components |-> C[c].weightedContribution]
<1>1. DOMAIN P = Components /\ \A c \in Components : P[c] = Times(values[c], weights[c])
  BY DEF Exact
<1>2. \A c \in Components :
        /\ P[c].scale \in 0..6 /\ P[c].integer \in Nat
        /\ Digits(P[c], 6) \in Nat /\ Rounded(P[c], 6) = Decimal(Digits(P[c], 6), 6)
  BY <1>1, ProductIs
<1>3. DOMAIN W = Components /\ \A c \in Components : W[c] = Rounded(P[c], 6)
  BY <1>1 DEF ContributionRecords
<1>4. ContributionTotal(C) = SumOf(W)
  BY DEF ContributionTotal, ContributionRecords
<1>. HIDE DEF P, C, W
<1>5. \A c \in Components : W[c].scale \in 0..6 /\ W[c].integer \in Nat
  <2>. SUFFICES ASSUME NEW c \in Components PROVE W[c].scale \in 0..6 /\ W[c].integer \in Nat
    OBVIOUS
  <2>1. PICK n \in Nat : W[c] = Decimal(n, 6)
    BY <1>2, <1>3
  <2>. QED
    BY <2>1 DEF Decimal
<1>6. \A c \in Components : Digits(W[c], 6) = Digits(P[c], 6)
  <2>. SUFFICES ASSUME NEW c \in Components PROVE Digits(W[c], 6) = Digits(P[c], 6)
    OBVIOUS
  <2>1. PICK n \in Nat : n = Digits(P[c], 6) /\ W[c] = Decimal(n, 6)
    BY <1>2, <1>3
  <2>2. Digits(Decimal(n, 6), 6) = n * Ten(0)
    BY DEF Digits, Decimal, Ten
  <2>. QED
    BY <2>1, <2>2, Powers
<1>7. Rounded(SumOf(W), 2) = RoundedSix(Five([c \in Components |-> Digits(W[c], 6)]))
  BY <1>3, <1>5, RoundedSum
<1>8. Rounded(SumOf(P), 2) = RoundedSix(Five([c \in Components |-> Digits(P[c], 6)]))
  BY <1>1, <1>2, RoundedSum
<1>9. [c \in Components |-> Digits(W[c], 6)] = [c \in Components |-> Digits(P[c], 6)]
  BY <1>6
<1>. QED
  BY <1>4, <1>7, <1>8, <1>9 DEF WeightedTrustScore, P, C

(* No weighted average of values up to 100 exceeds 100.                    *)
LEMMA ScoreOnScale ==
  ASSUME NEW values \in [Components -> StoredDecimals(2)],
         NEW weights \in [Components -> StoredDecimals(4)],
         DefinedValues(values), DefinedWeights(weights)
  PROVE  AtMost(WeightedTrustScore(values, weights), Whole(100))
<1>1. PICK f, g : /\ f = [c \in Components |-> Digits(Exact(values, weights)[c], 6)]
                  /\ g = [c \in Components |-> Digits(weights[c], 6)]
  OBVIOUS
<1>2. \A c \in Components : f[c] \in Nat /\ g[c] \in Nat /\ f[c] <= 100 * g[c]
  BY <1>1, ProductIs DEF Exact, DefinedValues
<1>3. Five(f) \in Nat /\ Five(f) <= 100 * Five(g)
  <2>1. /\ f["identity"] \in Nat /\ f["device"] \in Nat /\ f["behaviour"] \in Nat
        /\ f["certificate"] \in Nat /\ f["compliance"] \in Nat
        /\ g["identity"] \in Nat /\ g["device"] \in Nat /\ g["behaviour"] \in Nat
        /\ g["certificate"] \in Nat /\ g["compliance"] \in Nat
        /\ f["identity"] <= 100 * g["identity"] /\ f["device"] <= 100 * g["device"]
        /\ f["behaviour"] <= 100 * g["behaviour"]
        /\ f["certificate"] <= 100 * g["certificate"]
        /\ f["compliance"] <= 100 * g["compliance"]
    BY <1>2 DEF Components
  <2>. QED
    BY <2>1 DEF Five
<1>4. Five(g) = 1000000
  <2>1. \A c \in Components : weights[c].scale \in 0..6 /\ weights[c].integer \in Nat
    BY StoredIs
  <2>2. PICK m \in 0..6, total \in Nat :
          SumOf(weights) = Decimal(total, m) /\ Five(g) = total * Ten(6 - m)
    BY <1>1, <2>1, SumAtSix
  <2>3. SameValue(Decimal(total, m), Whole(1))
    BY <2>2 DEF DefinedWeights
  <2>4. CommonScale(Decimal(total, m), Whole(1)) = m
    BY DEF CommonScale, Whole, Decimal
  <2>5. Digits(Decimal(total, m), m) = total * Ten(0) /\ Digits(Whole(1), m) = 1 * Ten(m)
    BY DEF Digits, Whole, Decimal, Ten
  <2>6. total = Ten(m)
    BY <2>3, <2>4, <2>5, Powers, PowerOf DEF SameValue
  <2>7. m = 0 \/ m = 1 \/ m = 2 \/ m = 3 \/ m = 4 \/ m = 5 \/ m = 6
    OBVIOUS
  <2>8. Ten(m) * Ten(6 - m) = 1000000
    BY <2>7, Powers
  <2>. QED
    BY <2>2, <2>6, <2>8
<1>5. \A c \in Components : /\ Exact(values, weights)[c].scale \in 0..6
                            /\ Exact(values, weights)[c].integer \in Nat
  BY ProductIs DEF Exact
<1>6. DOMAIN Exact(values, weights) = Components
  BY DEF Exact
<1>7. WeightedTrustScore(values, weights) = RoundedSix(Five(f))
  BY <1>1, <1>5, <1>6, RoundedSum DEF WeightedTrustScore
<1>8. PICK n \in Nat : n = Five(f) /\ n <= 100000000
  BY <1>3, <1>4
<1>9. PICK x \in Nat : RoundedSix(n) = Decimal(x, 2) /\ x <= 10000
  <2>1. PICK q, r : q = n \div 10000 /\ r = n % 10000
    OBVIOUS
  <2>4. q \in Nat /\ r \in 0..9999 /\ n = q * 10000 + r
    BY <2>1
  <2>2. q + (IF 2 * r >= 10000 THEN 1 ELSE 0) \in Nat
    BY <2>4
  <2>3. q + (IF 2 * r >= 10000 THEN 1 ELSE 0) <= 10000
    BY <1>8, <2>4
  <2>. QED
    BY <2>1, <2>2, <2>3 DEF RoundedSix
<1>10. AtMost(Decimal(x, 2), Whole(100))
  <2>1. CommonScale(Decimal(x, 2), Whole(100)) = 2
    BY DEF CommonScale, Whole, Decimal
  <2>2. Digits(Decimal(x, 2), 2) = x * Ten(0) /\ Digits(Whole(100), 2) = 100 * Ten(2)
    BY DEF Digits, Whole, Decimal, Ten
  <2>. QED
    BY <1>9, <2>1, <2>2, Powers DEF AtMost
<1>. QED
  BY <1>7, <1>8, <1>9, <1>10

(* Five references of different types are one for each component.          *)
LEMMA EachComponentReferenced ==
  ASSUME NEW references, DOMAIN references = 1..Len(references), DefinedReferences(references),
         NEW c \in Components
  PROVE  /\ ReferenceOf(references, c) \in Range(references)
         /\ ReferenceOf(references, c).evidenceType = c
<1>1. DOMAIN references = 1..5
  BY ComponentsFinite DEF DefinedReferences
<1>2. PICK f : f = [i \in 1..5 |-> references[i].evidenceType]
  OBVIOUS
<1>3. f \in Injection(1..5, Components)
  <2>1. f \in [1..5 -> Components]
    BY <1>1, <1>2 DEF DefinedReferences
  <2>2. \A i, j \in 1..5 :
          references[i]["evidenceType"] = references[j]["evidenceType"] => i = j
    BY <1>1 DEF DefinedReferences, Pairwise, IsInjective
  <2>. QED
    BY <1>2, <2>1, <2>2 DEF Injection, IsInjective
<1>4. IsFiniteSet(1..5) /\ Cardinality(1..5) = 5
  <2>1. IsFiniteSet(1..5) /\ Cardinality(1..5) = IF 1 > 5 THEN 0 ELSE 5 - 1 + 1
    <3>1. 1 \in Int /\ 5 \in Int
      OBVIOUS
    <3>. QED
      BY <3>1, FS_Interval, Zenon
  <2>. QED
    BY <2>1
<1>5. f \in Surjection(1..5, Components)
  BY <1>3, <1>4, ComponentsFinite, FS_Injection
<1>6. PICK i \in 1..5 : f[i] = c
  BY <1>5 DEF Surjection
<1>7. references[i] \in Range(references) /\ references[i].evidenceType = c
  BY <1>1, <1>2, <1>6 DEF Range
<1>. QED
  BY <1>7 DEF ReferenceOf

LEMMA EveryContributionMatches ==
  ASSUME NEW references, DOMAIN references = 1..Len(references), DefinedReferences(references),
         NEW values, NEW weights
  PROVE  MatchedContributions(values, weights, references,
           ContributionRecords(values, weights, references)) = Components
<1>1. ASSUME NEW c \in Components
      PROVE  /\ ReferenceOf(references, c) \in Range(references)
             /\ ReferenceOf(references, c).evidenceType = c
  BY EachComponentReferenced
<1>2. \A d : SameValue(d, d)
  BY DEF SameValue
<1>3. ASSUME NEW c \in Components
      PROVE  LET supplied == ContributionRecords(values, weights, references)[c]
             IN  /\ supplied.normalizedValue = values[c] /\ supplied.weight = weights[c]
                 /\ supplied.weightedContribution = Rounded(Times(values[c], weights[c]), 6)
                 /\ supplied.evidenceId = ReferenceOf(references, c).evidenceId
                 /\ supplied.sourceEventId = ReferenceOf(references, c).sourceEventId
  BY DEF ContributionRecords
<1>. QED
  BY <1>1, <1>2, <1>3 DEF MatchedContributions

LEMMA StoredIsRecordable == FitColumns => EveryScoreRecordable
<1>. SUFFICES ASSUME FitColumns, NEW weights \in SampleWeights,
                     NEW values \in [Components -> SampleValues],
                     NEW references \in SampleReferences,
                     DefinedValues(values), DefinedWeights(weights),
                     DefinedReferences(references)
              PROVE  /\ AtMost(WeightedTrustScore(values, weights), Whole(100))
                     /\ ExplanationMatches(values, weights, references,
                          ContributionRecords(values, weights, references),
                          WeightedTrustScore(values, weights))
  BY DEF EveryScoreRecordable
<1>1. /\ values \in [Components -> StoredDecimals(2)]
      /\ weights \in [Components -> StoredDecimals(4)]
  BY DEF FitColumns
<1>2. DOMAIN references = 1..Len(references)
  BY DEF FitColumns
<1>3. AtMost(WeightedTrustScore(values, weights), Whole(100))
  BY <1>1, ScoreOnScale
<1>4. MatchedContributions(values, weights, references,
        ContributionRecords(values, weights, references)) = Components
  BY <1>2, EveryContributionMatches
<1>5. SameValue(Rounded(ContributionTotal(ContributionRecords(values, weights, references)), 2),
                WeightedTrustScore(values, weights))
  BY <1>1, ContributionsAddUp DEF SameValue
<1>. QED
  BY <1>3, <1>4, <1>5 DEF ExplanationMatches

(* Whatever values, weights and evidence the columns can hold, the database *)
(* adds the contributions that were rounded one by one up to the score that *)
(* the program rounds once (weighted-score.mjs, transition-explanation.mjs, *)
(* migration 023): two decimals and four make six, which is where the       *)
(* contributions are rounded.                                               *)
THEOREM ScoresRecorded ==
  ASSUME FitColumns
  PROVE  Spec => []ScoresAreRecordable
<1>1. ScoresAreRecordable
  BY StoredIsRecordable DEF ScoresAreRecordable
<1>. QED
  BY <1>1, PTL

----------------------------------------------------------------------------
(* Invalidation of sessions and cache entries (StateInvalidation) *)

Jobs == Job \cup {NoJob}

Outcomes == {"executing", "completed", "failed"}

Logs == Seq(Outcomes)

----------------------------------------------------------------------------
(* Type correctness *)

(* A worker holds only jobs that are queued.                               *)
HeldQueued ==
  \A w \in Workers :
    worker[w].phase # "idle" =>
      worker[w] \in Claim /\ job[worker[w].action] \in Job

(* No clock shows a time before zero.                                      *)
ClocksStarted == dbClock - MaxOffset \in Nat

InvalidationTypeInv == InvalidationTypeOK /\ HeldQueued /\ ClocksStarted

(* A job is told from the absence of one by its status.                    *)
LEMMA QueuedIsJob ==
  ASSUME NEW r \in Jobs, r.status # "none"
  PROVE  r \in Job
BY DEF Jobs, NoJob

LEMMA ClockType ==
  ASSUME InvalidationTypeInv, NEW w \in Workers
  PROVE  Clock(w) \in Nat
BY InvalidationBoundsAssumption
   DEF InvalidationTypeInv, InvalidationTypeOK, ClocksStarted, Clock

(* Expiry keeps a job a job of the same subject.                           *)
LEMMA ExpireJobType ==
  ASSUME NEW r \in Jobs, NEW time \in Nat
  PROVE  /\ ExpireJob(r, time) \in Jobs
         /\ r \in Job => /\ ExpireJob(r, time) \in Job
                         /\ ExpireJob(r, time).subject = r.subject
<1>1. CASE Expired(r, time)
  <2>1. r \in Job
    BY <1>1, QueuedIsJob DEF Expired
  <2>. QED
    BY <1>1, <2>1 DEF ExpireJob, Job, Statuses, Jobs
<1>2. CASE ~Expired(r, time)
  BY <1>2 DEF ExpireJob
<1>. QED
  BY <1>1, <1>2

(* Closing the open attempt of a history gives a history.                  *)
LEMMA CloseAttemptType ==
  ASSUME NEW log \in Logs, NEW outcome \in Outcomes
  PROVE  CloseAttempt(log, outcome) \in Logs
<1>. DEFINE closed == CloseAttempt(log, outcome)
<1>1. CASE Len(log) = 0
  <2>1. DOMAIN log = 1..0
    BY <1>1, LenProperties DEF Logs
  <2>2. closed = log
    BY <1>1, <2>1 DEF CloseAttempt, Logs
  <2>. QED
    BY <2>2
<1>2. CASE Len(log) # 0
  BY <1>2, ExceptSeq, LenProperties DEF CloseAttempt, Logs
<1>. QED
  BY <1>1, <1>2

LEMMA ExpireAttemptType ==
  ASSUME InvalidationTypeInv, NEW a \in ActionIds, NEW time \in Nat
  PROVE  ExpireAttempt(a, time) \in Logs
<1>1. attempts[a] \in Logs
  BY DEF InvalidationTypeInv, InvalidationTypeOK, Logs, Outcomes
<1>2. "failed" \in Outcomes
  BY DEF Outcomes
<1>. QED
  BY <1>1, <1>2, CloseAttemptType DEF ExpireAttempt

LEMMA RetryDelayType ==
  ASSUME NEW n
  PROVE  RetryDelay(n) \in Nat
BY TimesAssumption DEF RetryDelay

(* How many entries an invalidation deletes is a number.                   *)
LEMMA RemovedType ==
  ASSUME InvalidationTypeInv, NEW s
  PROVE  Cardinality(live \cap index[s]) \in Nat
<1>1. IsFiniteSet(live \cap index[s])
  BY EntriesAssumption, FS_Subset DEF InvalidationTypeInv, InvalidationTypeOK
<1>. QED
  BY <1>1, FS_CardinalityType
(* What a report reads of a held job.                                      *)
LEMMA HeldType ==
  ASSUME InvalidationTypeInv, NEW w \in Workers, worker[w].phase # "idle"
  PROVE  /\ worker[w] \in Claim
         /\ worker[w].action \in ActionIds
         /\ worker[w].attempt \in Nat
         /\ worker[w].result \in Effect
         /\ JobOf(w) \in Job
         /\ JobOf(w).subject \in Subjects
         /\ JobOf(w).succeeded \in Nat
BY DEF InvalidationTypeInv, HeldQueued, JobOf, Claim, Job

(* A step of one worker that leaves it idle or with a claim of a job.      *)
LEMMA StepType ==
  ASSUME InvalidationTypeInv, NEW w \in Workers, NEW value,
         worker' = [worker EXCEPT ![w] = value],
         \A a \in ActionIds : job[a] \in Job => job'[a] \in Job,
         \/ value = IdleWorker
         \/ value \in Claim /\ job'[value.action] \in Job
  PROVE  /\ worker' \in [Workers -> {IdleWorker} \cup Claim]
         /\ HeldQueued'
<1>1. worker \in [Workers -> {IdleWorker} \cup Claim]
  BY DEF InvalidationTypeInv, InvalidationTypeOK
<1>2. worker' \in [Workers -> {IdleWorker} \cup Claim]
  BY <1>1
<1>3. ASSUME NEW v \in Workers, worker'[v].phase # "idle"
      PROVE  worker'[v] \in Claim /\ job'[worker'[v].action] \in Job
  <2>1. CASE v = w
    BY <1>1, <1>3, <2>1 DEF IdleWorker
  <2>2. CASE v # w
    <3>1. worker'[v] = worker[v]
      BY <1>1, <2>2
    <3>2. worker[v] \in Claim /\ job[worker[v].action] \in Job
      BY <1>3, <3>1 DEF InvalidationTypeInv, HeldQueued
    <3>. QED
      BY <3>1, <3>2 DEF Claim
  <2>. QED
    BY <2>1, <2>2
<1>. QED
  BY <1>2, <1>3 DEF HeldQueued

(* A worker that moves to another phase keeps its claim.                   *)
LEMMA PhaseType ==
  ASSUME InvalidationTypeInv, NEW w \in Workers, worker[w].phase # "idle",
         NEW phase \in HoldingPhases, Step(w, phase),
         \A a \in ActionIds : job[a] \in Job => job'[a] \in Job
  PROVE  /\ worker' \in [Workers -> {IdleWorker} \cup Claim]
         /\ HeldQueued'
<1>. DEFINE value == [worker[w] EXCEPT !.phase = phase]
<1>1. worker' = [worker EXCEPT ![w] = value]
  BY DEF Step
<1>2. value \in Claim /\ job[value.action] \in Job
  BY HeldType DEF Claim, JobOf
<1>3. job'[value.action] \in Job
  BY <1>2 DEF Claim
<1>. QED
  BY <1>1, <1>2, <1>3, StepType

LEMMA IdleType ==
  ASSUME InvalidationTypeInv, NEW w \in Workers, worker' = [worker EXCEPT ![w] = IdleWorker],
         \A a \in ActionIds : job[a] \in Job => job'[a] \in Job
  PROVE  /\ worker' \in [Workers -> {IdleWorker} \cup Claim]
         /\ HeldQueued'
BY StepType, Zenon

LEMMA FaultType ==
  ASSUME InvalidationTypeInv, Fault \/ UNCHANGED faults
  PROVE  faults' \in Nat
BY DEF InvalidationTypeInv, InvalidationTypeOK, Fault

(* The effect on Redis keeps the registries, keys, markers and histories   *)
(* well-typed, and so is what the script returns.                          *)
LEMMA InvalidateType ==
  ASSUME InvalidationTypeInv, NEW a \in ActionIds, NEW s \in Subjects, NEW time \in Nat
  PROVE  /\ InvalidateResult(a, s, time) \in Effect
         /\ Invalidate(a, s, time) =>
              /\ index' \in [Subjects -> SUBSET Entries]
              /\ live' \subseteq Entries
              /\ marker' \in [Subjects -> Marker]
              /\ effects' \in [ActionIds -> Seq(Effect)]
<1>1. Cardinality(live \cap index[s]) \in Nat
  BY RemovedType
<1>2. [at |-> time, removed |-> Cardinality(live \cap index[s])] \in Effect
  BY <1>1 DEF Effect
<1>3. [action |-> a, at |-> time] \in Marker
  BY DEF Marker
<1>4. marker[s].at \in Nat
  BY DEF InvalidationTypeInv, InvalidationTypeOK, Marker
<1>5. InvalidateResult(a, s, time) \in Effect
  BY <1>2, <1>4 DEF InvalidateResult, Effect
<1>6. ASSUME Invalidate(a, s, time)
      PROVE  /\ index' \in [Subjects -> SUBSET Entries]
             /\ live' \subseteq Entries
             /\ marker' \in [Subjects -> Marker]
             /\ effects' \in [ActionIds -> Seq(Effect)]
  <2>1. CASE AlreadyApplied(a, s)
    BY <1>6, <2>1
       DEF Invalidate, redis, InvalidationTypeInv, InvalidationTypeOK
  <2>2. CASE ~AlreadyApplied(a, s)
    <3>1. Append(effects[a],
                 [at |-> time, removed |-> Cardinality(live \cap index[s])])
            \in Seq(Effect)
      BY <1>2, AppendProperties DEF InvalidationTypeInv, InvalidationTypeOK
    <3>. QED
      BY <1>3, <1>6, <2>2, <3>1
         DEF Invalidate, InvalidationTypeInv, InvalidationTypeOK
  <2>. QED
    BY <2>1, <2>2
<1>. QED
  BY <1>5, <1>6

LEMMA RequestType ==
  ASSUME InvalidationTypeInv,
         \/ \E e \in Entries, s \in Subjects : Register(e, s)
         \/ \E e \in Entries : ExpireEntry(e)
         \/ \E a \in ActionIds, s \in Subjects : ActionSucceeds(a, s)
  PROVE  InvalidationTypeInv'
<1>. USE DEF InvalidationTypeInv, ClocksStarted
<1>1. ASSUME NEW e \in Entries, NEW s \in Subjects, Register(e, s)
      PROVE  InvalidationTypeInv'
  BY <1>1 DEF Register, RegisterEntry, InvalidationTypeOK, HeldQueued
<1>2. ASSUME NEW e \in Entries, ExpireEntry(e)
      PROVE  InvalidationTypeInv'
  BY <1>2 DEF ExpireEntry, InvalidationTypeOK, HeldQueued
<1>3. ASSUME NEW a \in ActionIds, NEW s \in Subjects, ActionSucceeds(a, s)
      PROVE  InvalidationTypeInv'
  <2>1. PICK time \in (dbClock - MaxOffset)..(dbClock + MaxOffset) :
          job' = [job EXCEPT ![a] =
            [subject |-> s, status |-> "pending", attempts |-> 0, lease |-> 0,
             next |-> time, succeeded |-> time, stored |-> NoEffect]]
    BY <1>3 DEF ActionSucceeds
  <2>. DEFINE row ==
         [subject |-> s, status |-> "pending", attempts |-> 0, lease |-> 0,
          next |-> time, succeeded |-> time, stored |-> NoEffect]
  <2>2. time \in Nat
    BY InvalidationBoundsAssumption DEF InvalidationTypeOK
  <2>3. row \in Job
    BY <2>2 DEF Job, Statuses, NoEffect, Effect
  <2>4. job' \in [ActionIds -> Job \cup {NoJob}]
    BY <2>1, <2>3 DEF InvalidationTypeOK
  <2>5. \A b \in ActionIds : job[b] \in Job => job'[b] \in Job
    BY <2>1, <2>3 DEF InvalidationTypeOK
  <2>6. HeldQueued'
    BY <1>3, <2>5 DEF ActionSucceeds, HeldQueued, Claim
  <2>7. exposed' \in [ActionIds -> SUBSET Entries]
    BY <1>3 DEF ActionSucceeds, InvalidationTypeOK
  <2>. QED
    BY <1>3, <2>4, <2>6, <2>7 DEF ActionSucceeds, InvalidationTypeOK, redis
<1>. QED
  BY <1>1, <1>2, <1>3

(* The jobs and attempts a claim leaves after expiring leases.             *)
LEMMA SweepType ==
  ASSUME InvalidationTypeInv, NEW time \in Nat
  PROVE  /\ [a \in ActionIds |-> ExpireJob(job[a], time)]
              \in [ActionIds -> Jobs]
         /\ [a \in ActionIds |-> ExpireAttempt(a, time)]
              \in [ActionIds -> Logs]
         /\ \A a \in ActionIds :
              job[a] \in Job => ExpireJob(job[a], time) \in Job
<1>1. \A a \in ActionIds : job[a] \in Jobs
  BY DEF InvalidationTypeInv, InvalidationTypeOK, Jobs
<1>. QED
  BY <1>1, ExpireJobType, ExpireAttemptType

(* Marking a job as executing keeps it a job.                              *)
LEMMA ClaimedJobType ==
  ASSUME NEW r \in Job, NEW time \in Nat
  PROVE  [r EXCEPT !.status = "executing", !.attempts = @ + 1,
                   !.lease = time + LeaseTime] \in Job
<1>1. r.attempts + 1 \in Nat /\ time + LeaseTime \in Nat
  BY TimesAssumption DEF Job
<1>. QED
  BY <1>1 DEF Job, Statuses

LEMMA ClaimType ==
  ASSUME InvalidationTypeInv, NEW w \in Workers, ClaimNext(w)
  PROVE  InvalidationTypeInv'
<1>. DEFINE time == Clock(w)
            jobs == [a \in ActionIds |-> ExpireJob(job[a], time)]
            log  == [a \in ActionIds |-> ExpireAttempt(a, time)]
<1>1. time \in Nat
  BY ClockType
<1>2. /\ jobs \in [ActionIds -> Jobs]
      /\ log \in [ActionIds -> Logs]
      /\ \A a \in ActionIds : job[a] \in Job => jobs[a] \in Job
  BY <1>1, SweepType
<1>3. UNCHANGED <<dbClock, faults, offset, index, live, marker, exposed, effects>>
  BY DEF ClaimNext, redis
<1>4. /\ job' \in [ActionIds -> Jobs]
      /\ attempts' \in [ActionIds -> Logs]
      /\ worker' \in [Workers -> {IdleWorker} \cup Claim]
      /\ HeldQueued'
  <2>1. CASE /\ ~\E a \in ActionIds : Claimable(a, jobs, time, FALSE)
             /\ job' = jobs
             /\ attempts' = log
             /\ UNCHANGED worker
    <3>1. worker' \in [Workers -> {IdleWorker} \cup Claim]
      BY <2>1 DEF InvalidationTypeInv, InvalidationTypeOK
    <3>2. HeldQueued'
      BY <1>2, <2>1 DEF InvalidationTypeInv, HeldQueued, Claim
    <3>. QED
      BY <1>2, <2>1, <3>1, <3>2
  <2>2. ASSUME NEW a \in ActionIds, NEW stale \in BOOLEAN,
               Claimable(a, jobs, time, stale),
               job' = [jobs EXCEPT ![a] =
                 [jobs[a] EXCEPT !.status = "executing", !.attempts = @ + 1,
                                 !.lease = time + LeaseTime]],
               attempts' = [log EXCEPT ![a] = Append(log[a], "executing")],
               worker' = [worker EXCEPT ![w] =
                 [phase |-> "claimed", action |-> a,
                  attempt |-> jobs[a].attempts + 1, result |-> NoEffect]]
        PROVE  /\ job' \in [ActionIds -> Jobs]
               /\ attempts' \in [ActionIds -> Logs]
               /\ worker' \in [Workers -> {IdleWorker} \cup Claim]
               /\ HeldQueued'
    <3>. DEFINE row == [jobs[a] EXCEPT !.status = "executing",
                                       !.attempts = @ + 1,
                                       !.lease = time + LeaseTime]
                value == [phase |-> "claimed", action |-> a,
                          attempt |-> jobs[a].attempts + 1,
                          result |-> NoEffect]
    <3>1. jobs[a] \in Job
      BY <1>2, <2>2, QueuedIsJob DEF Claimable
    <3>2. row \in Job
      BY <1>1, <3>1, ClaimedJobType
    <3>3. job' \in [ActionIds -> Jobs]
      BY <1>2, <2>2, <3>2 DEF Jobs
    <3>4. "executing" \in Outcomes
      BY DEF Outcomes
    <3>5. attempts' \in [ActionIds -> Logs]
      BY <1>2, <2>2, <3>4, AppendProperties DEF Logs
    <3>6. value \in Claim
      BY <3>1 DEF Claim, HoldingPhases, NoEffect, Effect, Job
    <3>7. \A b \in ActionIds : job[b] \in Job => job'[b] \in Job
      BY <1>2, <2>2, <3>2
    <3>8. job'[a] \in Job
      BY <1>2, <2>2, <3>2
    <3>9. worker' = [worker EXCEPT ![w] = value]
      BY <2>2
    <3>10. job'[value.action] \in Job
      BY <3>8
    <3>11. worker' \in [Workers -> {IdleWorker} \cup Claim] /\ HeldQueued'
      <4>. HIDE DEF value
      <4>. QED
        BY <3>6, <3>7, <3>9, <3>10, StepType, Zenon
    <3>. QED
      BY <3>3, <3>5, <3>11
  <2>3. \/ \E a \in ActionIds, stale \in BOOLEAN :
              /\ Claimable(a, jobs, time, stale)
              /\ job' = [jobs EXCEPT ![a] =
                   [jobs[a] EXCEPT !.status = "executing", !.attempts = @ + 1,
                                   !.lease = time + LeaseTime]]
              /\ attempts' = [log EXCEPT ![a] = Append(log[a], "executing")]
              /\ worker' = [worker EXCEPT ![w] =
                   [phase |-> "claimed", action |-> a,
                    attempt |-> jobs[a].attempts + 1, result |-> NoEffect]]
        \/ /\ ~\E a \in ActionIds : Claimable(a, jobs, time, FALSE)
           /\ job' = jobs
           /\ attempts' = log
           /\ UNCHANGED worker
    BY DEF ClaimNext
  <2>. HIDE DEF jobs, log, time
  <2>. QED
    BY <2>1, <2>2, <2>3
<1>. QED
  BY <1>3, <1>4
     DEF InvalidationTypeInv, InvalidationTypeOK, ClocksStarted, Jobs, Logs,
         Outcomes

LEMMA InvalidateStepType ==
  ASSUME InvalidationTypeInv, NEW w \in Workers, InvalidateSubject(w) \/ InvalidationFails(w)
  PROVE  InvalidationTypeInv'
<1>1. worker[w].phase # "idle" /\ UNCHANGED <<dbClock, offset, job, attempts, exposed>>
  BY DEF InvalidateSubject, InvalidationFails
<1>. DEFINE a == worker[w].action
            s == JobOf(w).subject
            result == InvalidateResult(a, s, Clock(w))
<1>2. /\ worker[w] \in Claim
      /\ a \in ActionIds
      /\ s \in Subjects
      /\ job[a] \in Job
  BY <1>1, HeldType DEF JobOf
<1>3. Clock(w) \in Nat
  BY ClockType
<1>4. /\ index' \in [Subjects -> SUBSET Entries]
      /\ live' \subseteq Entries
      /\ marker' \in [Subjects -> Marker]
      /\ effects' \in [ActionIds -> Seq(Effect)]
  <2>1. CASE Invalidate(a, s, Clock(w))
    BY <1>2, <1>3, <2>1, InvalidateType
  <2>2. CASE UNCHANGED <<redis, effects>>
    BY <2>2 DEF redis, InvalidationTypeInv, InvalidationTypeOK
  <2>. QED
    BY <2>1, <2>2 DEF InvalidateSubject, InvalidationFails
<1>5. /\ worker' \in [Workers -> {IdleWorker} \cup Claim]
      /\ HeldQueued'
  <2>1. ASSUME InvalidateSubject(w)
        PROVE  /\ worker' \in [Workers -> {IdleWorker} \cup Claim]
               /\ HeldQueued'
    <3>. DEFINE phase == IF result.at < JobOf(w).succeeded THEN "failing"
                                                           ELSE "invalidated"
                value == [worker[w] EXCEPT !.phase = phase, !.result = result]
    <3>1. result \in Effect
      BY <1>2, <1>3, InvalidateType
    <3>2. phase \in HoldingPhases
      BY DEF HoldingPhases
    <3>3. worker' = [worker EXCEPT ![w] = value]
      BY <2>1 DEF InvalidateSubject, InvalidationTypeInv, InvalidationTypeOK
    <3>4. value \in Claim /\ value.action = a
      <4>. HIDE DEF phase, result
      <4>. QED
        BY <1>2, <3>1, <3>2 DEF Claim
    <3>5. job'[value.action] \in Job
      BY <1>1, <1>2, <3>4
    <3>. HIDE DEF value
    <3>. QED
      BY <1>1, <3>3, <3>4, <3>5, StepType
  <2>2. ASSUME InvalidationFails(w)
        PROVE  /\ worker' \in [Workers -> {IdleWorker} \cup Claim]
               /\ HeldQueued'
    BY <1>1, <2>2, PhaseType DEF InvalidationFails, HoldingPhases
  <2>. QED
    BY <2>1, <2>2
<1>6. faults' \in Nat
  BY FaultType DEF InvalidateSubject, InvalidationFails
<1>. QED
  BY <1>1, <1>4, <1>5, <1>6
     DEF InvalidationTypeInv, InvalidationTypeOK, ClocksStarted

(* A report changes one job, the one it holds, and its history.            *)
LEMMA ReportType ==
  ASSUME InvalidationTypeInv, NEW a \in ActionIds, job[a] \in Job,
         NEW row \in Job, NEW outcome \in Outcomes,
         job' = [job EXCEPT ![a] = row],
         attempts' = [attempts EXCEPT ![a] = CloseAttempt(@, outcome)]
  PROVE  /\ job' \in [ActionIds -> Jobs]
         /\ attempts' \in [ActionIds -> Logs]
         /\ \A b \in ActionIds : job[b] \in Job => job'[b] \in Job
<1>1. job \in [ActionIds -> Jobs] /\ attempts \in [ActionIds -> Logs]
  BY DEF InvalidationTypeInv, InvalidationTypeOK, Jobs, Logs, Outcomes
<1>2. CloseAttempt(attempts[a], outcome) \in Logs
  BY <1>1, CloseAttemptType
<1>. QED
  BY <1>1, <1>2 DEF Jobs

LEMMA CompleteType ==
  ASSUME InvalidationTypeInv, NEW w \in Workers, Complete(w)
  PROVE  InvalidationTypeInv'
<1>. DEFINE a == worker[w].action
            row == [job[a] EXCEPT !.status = "completed", !.lease = 0,
                                  !.stored = worker[w].result]
<1>1. worker[w].phase # "idle"
  BY DEF Complete
<1>2. a \in ActionIds /\ job[a] \in Job /\ worker[w].result \in Effect
  BY <1>1, HeldType DEF JobOf
<1>3. row \in Job
  BY <1>2 DEF Job, Statuses
<1>4. job' = [job EXCEPT ![a] = row]
  BY DEF Complete, InvalidationTypeInv, InvalidationTypeOK
<1>5. attempts' = [attempts EXCEPT ![a] = CloseAttempt(@, "completed")]
  BY DEF Complete
<1>6. "completed" \in Outcomes
  BY DEF Outcomes
<1>7. /\ job' \in [ActionIds -> Jobs]
      /\ attempts' \in [ActionIds -> Logs]
      /\ \A b \in ActionIds : job[b] \in Job => job'[b] \in Job
  <2>. HIDE DEF row
  <2>. QED
    BY <1>2, <1>3, <1>4, <1>5, <1>6, ReportType
<1>8. worker' \in [Workers -> {IdleWorker} \cup Claim] /\ HeldQueued'
  BY <1>1, <1>7, IdleType, PhaseType DEF Complete, HoldingPhases
<1>9. faults' \in Nat
  BY FaultType DEF Complete
<1>. QED
  BY <1>7, <1>8, <1>9
     DEF Complete, InvalidationTypeInv, InvalidationTypeOK, ClocksStarted,
         Jobs, Logs, Outcomes, redis

LEMMA FailType ==
  ASSUME InvalidationTypeInv, NEW w \in Workers, Fail(w)
  PROVE  InvalidationTypeInv'
<1>. DEFINE a == worker[w].action
            next == Clock(w) + RetryDelay(worker[w].attempt)
            row == [job[a] EXCEPT !.status = "failed", !.lease = 0,
                                  !.next = next]
<1>1. worker[w].phase # "idle"
  BY DEF Fail
<1>2. a \in ActionIds /\ job[a] \in Job
  BY <1>1, HeldType DEF JobOf
<1>3. next \in Nat
  BY ClockType, RetryDelayType
<1>4. /\ job' \in [ActionIds -> Jobs]
      /\ attempts' \in [ActionIds -> Logs]
      /\ \A b \in ActionIds : job[b] \in Job => job'[b] \in Job
  <2>1. CASE HoldsClaim(w)
    <3>. HIDE DEF next
    <3>1. row \in Job
      BY <1>2, <1>3 DEF Job, Statuses
    <3>2. job' = [job EXCEPT ![a] = row]
      BY <2>1 DEF Fail, InvalidationTypeInv, InvalidationTypeOK, next
    <3>3. attempts' = [attempts EXCEPT ![a] = CloseAttempt(@, "failed")]
      BY <2>1 DEF Fail
    <3>4. "failed" \in Outcomes
      BY DEF Outcomes
    <3>. HIDE DEF row
    <3>. QED
      BY <1>2, <3>1, <3>2, <3>3, <3>4, ReportType
  <2>2. CASE ~HoldsClaim(w)
    BY <2>2
       DEF Fail, InvalidationTypeInv, InvalidationTypeOK, Jobs, Logs, Outcomes
  <2>. QED
    BY <2>1, <2>2
<1>5. worker' \in [Workers -> {IdleWorker} \cup Claim] /\ HeldQueued'
  BY <1>4, IdleType DEF Fail
<1>. QED
  BY <1>4, <1>5
     DEF Fail, InvalidationTypeInv, InvalidationTypeOK, ClocksStarted, Jobs,
         Logs, Outcomes, redis

LEMMA OtherStepsType ==
  ASSUME InvalidationTypeInv,
         \/ \E w \in Workers : CompletionFails(w) \/ Crash(w)
         \/ DbTick
         \/ UNCHANGED invalidationVars
  PROVE  InvalidationTypeInv'
<1>1. ASSUME NEW w \in Workers, CompletionFails(w)
      PROVE  InvalidationTypeInv'
  <2>1. worker' \in [Workers -> {IdleWorker} \cup Claim] /\ HeldQueued'
    BY <1>1, PhaseType DEF CompletionFails, HoldingPhases
  <2>2. faults' \in Nat
    BY <1>1, FaultType DEF CompletionFails
  <2>. QED
    BY <1>1, <2>1, <2>2
       DEF CompletionFails, InvalidationTypeInv, InvalidationTypeOK,
           ClocksStarted, redis
<1>2. ASSUME NEW w \in Workers, Crash(w)
      PROVE  InvalidationTypeInv'
  <2>1. worker' \in [Workers -> {IdleWorker} \cup Claim] /\ HeldQueued'
    BY <1>2, IdleType DEF Crash
  <2>2. faults' \in Nat
    BY <1>2, FaultType DEF Crash
  <2>. QED
    BY <1>2, <2>1, <2>2
       DEF Crash, InvalidationTypeInv, InvalidationTypeOK, ClocksStarted, redis
<1>3. ASSUME DbTick
      PROVE  InvalidationTypeInv'
  <2>1. faults' \in Nat
    BY <1>3, FaultType DEF DbTick
  <2>2. dbClock' \in Nat /\ dbClock' - MaxOffset \in Nat
    BY <1>3, InvalidationBoundsAssumption
       DEF DbTick, InvalidationTypeInv, InvalidationTypeOK, ClocksStarted
  <2>. QED
    BY <1>3, <2>1, <2>2
       DEF DbTick, InvalidationTypeInv, InvalidationTypeOK, ClocksStarted,
           HeldQueued, redis
<1>4. ASSUME UNCHANGED invalidationVars
      PROVE  InvalidationTypeInv'
  BY <1>4
     DEF invalidationVars, InvalidationTypeInv, InvalidationTypeOK,
         ClocksStarted, HeldQueued
<1>. QED
  BY <1>1, <1>2, <1>3, <1>4

LEMMA InvalidationTypeInit == InvalidationInit => InvalidationTypeInv
<1>1. SUFFICES ASSUME InvalidationInit
               PROVE  InvalidationTypeInv
  OBVIOUS
<1>2. \A a \in ActionIds : attempts[a] \in Seq(Outcomes) /\ effects[a] \in Seq(Effect)
  BY <1>1, EmptySeq DEF InvalidationInit
<1>3. dbClock \in Nat /\ dbClock - MaxOffset \in Nat
  BY <1>1, InvalidationBoundsAssumption DEF InvalidationInit
<1>4. worker \in [Workers -> {IdleWorker} \cup Claim] /\ HeldQueued
  BY <1>1 DEF InvalidationInit, IdleWorker, HeldQueued
<1>. QED
  BY <1>1, <1>2, <1>3, <1>4
     DEF InvalidationInit, InvalidationTypeInv, InvalidationTypeOK,
         ClocksStarted, Outcomes, Marker

LEMMA InvalidationTypeStep ==
  InvalidationTypeInv /\ [InvalidationNext]_invalidationVars => InvalidationTypeInv'
BY RequestType, ClaimType, InvalidateStepType, CompleteType, FailType,
   OtherStepsType DEF InvalidationNext, WorkerStep

(* Every variable keeps its type and a worker holds only jobs that exist,  *)
(* whatever the offsets of the clocks.                                     *)
THEOREM InvalidationTypeCorrect == InvalidationSpec => []InvalidationTypeOK
<1>1. InvalidationTypeInv => InvalidationTypeOK
  BY DEF InvalidationTypeInv
<1>. QED
  BY <1>1, InvalidationTypeInit, InvalidationTypeStep, PTL DEF InvalidationSpec

----------------------------------------------------------------------------
(* Enforcement. EnforcedWhenCompleted is not inductive: a completion trusts*)
(* the worker, the worker trusts the marker, and the deletion reaches an   *)
(* entry only through the registry of the subject.                         *)

Gone(a) == exposed[a] \cap live = {}

MarkersTrue ==
  \A s \in Subjects :
    marker[s].action \in ActionIds =>
      Queued(marker[s].action) /\ Gone(marker[s].action)

WorkersTrue ==
  \A w \in Workers :
    worker[w].phase = "invalidated" => Gone(worker[w].action)

StillRegistered ==
  \A a \in ActionIds :
    Queued(a) => exposed[a] \cap live \subseteq index[job[a].subject]

EnforcementInv ==
  /\ EnforcedWhenCompleted
  /\ MarkersTrue
  /\ WorkersTrue
  /\ StillRegistered

(* A step that leaves Redis alone keeps the invariant when it completes    *)
(* only enforced jobs and lets only workers past the effect that had one.  *)
LEMMA QuietStep ==
  ASSUME InvalidationTypeInv, EnforcementInv, UNCHANGED <<index, live, marker, exposed>>,
         \A a \in ActionIds : Queued(a) => /\ Queued(a)'
                                           /\ job'[a].subject = job[a].subject,
         \A a \in ActionIds : ~Queued(a) => ~Queued(a)',
         \A a \in ActionIds :
           job'[a].status = "completed" => job[a].status = "completed" \/ Gone(a),
         \A w \in Workers :
           worker'[w].phase = "invalidated" => Gone(worker'[w].action)
  PROVE  EnforcementInv'
BY DEF EnforcementInv, EnforcedWhenCompleted, MarkersTrue, WorkersTrue,
       StillRegistered, Gone

LEMMA RequestEnforced ==
  ASSUME InvalidationTypeInv, EnforcementInv,
         \/ \E e \in Entries, s \in Subjects : Register(e, s)
         \/ \E e \in Entries : ExpireEntry(e)
         \/ \E a \in ActionIds, s \in Subjects : ActionSucceeds(a, s)
  PROVE  EnforcementInv'
<1>. USE DEF EnforcementInv, EnforcedWhenCompleted, MarkersTrue, WorkersTrue,
             StillRegistered, Gone, Queued
<1>1. ASSUME NEW e \in Entries, NEW s \in Subjects, Register(e, s)
      PROVE  EnforcementInv'
  <2>1. \A a \in ActionIds : exposed'[a] \cap live' = exposed[a] \cap live
    BY <1>1 DEF Register, RegisterEntry
  <2>2. \A u \in Subjects : index[u] \subseteq index'[u]
    BY <1>1
       DEF Register, RegisterEntry, InvalidationTypeInv, InvalidationTypeOK
  <2>3. \A a \in ActionIds : Queued(a) => job[a].subject \in Subjects
    BY QueuedIsJob DEF InvalidationTypeInv, InvalidationTypeOK, Jobs, Job
  <2>4. UNCHANGED <<job, marker, worker>>
    BY <1>1 DEF Register, RegisterEntry
  <2>5. WorkersTrue'
    BY <2>1, <2>4, HeldType
  <2>. QED
    BY <2>1, <2>2, <2>3, <2>4, <2>5
<1>2. ASSUME NEW e \in Entries, ExpireEntry(e)
      PROVE  EnforcementInv'
  BY <1>2 DEF ExpireEntry
<1>3. ASSUME NEW a \in ActionIds, NEW s \in Subjects, ActionSucceeds(a, s)
      PROVE  EnforcementInv'
  <2>1. /\ job' = [job EXCEPT ![a] = job'[a]]
        /\ job'[a].subject = s
        /\ job'[a].status = "pending"
    BY <1>3 DEF ActionSucceeds, InvalidationTypeInv, InvalidationTypeOK
  <2>2. exposed' = [exposed EXCEPT ![a] = live \cap index[s]]
    BY <1>3 DEF ActionSucceeds
  <2>3. UNCHANGED <<index, live, marker, worker>> /\ ~Queued(a)
    BY <1>3 DEF ActionSucceeds, redis
  <2>4. \A b \in ActionIds \ {a} : job'[b] = job[b] /\ exposed'[b] = exposed[b]
    BY <2>1, <2>2 DEF InvalidationTypeInv, InvalidationTypeOK
  <2>5. exposed'[a] = live \cap index[s]
    BY <2>2 DEF InvalidationTypeInv, InvalidationTypeOK
  <2>6. WorkersTrue'
    BY <2>3, <2>4, HeldType DEF JobOf, Job, Statuses
  <2>. QED
    BY <2>1, <2>3, <2>4, <2>5, <2>6
<1>. QED
  BY <1>1, <1>2, <1>3

(* The effect of an action reaches what it exposed, and no other job or    *)
(* marker loses what it relied on.                                         *)
LEMMA EffectReaches ==
  ASSUME InvalidationTypeInv, EnforcementInv, NEW a \in ActionIds, Queued(a), NEW time,
         Invalidate(a, job[a].subject, time), UNCHANGED <<job, exposed>>
  PROVE  /\ Gone(a)'
         /\ \A b \in ActionIds : Gone(b) => Gone(b)'
         /\ MarkersTrue'
         /\ StillRegistered'
<1>. DEFINE s == job[a].subject
<1>1. s \in Subjects
  BY QueuedIsJob DEF InvalidationTypeInv, InvalidationTypeOK, Jobs, Job, Queued
<1>2. CASE AlreadyApplied(a, s)
  BY <1>1, <1>2
     DEF Invalidate, AlreadyApplied, redis, EnforcementInv, MarkersTrue,
         StillRegistered, Gone, Queued
<1>3. CASE ~AlreadyApplied(a, s)
  <2>1. /\ live' = live \ index[s]
        /\ index' = [index EXCEPT ![s] = {}]
        /\ marker' = [marker EXCEPT ![s] = [action |-> a, at |-> time]]
    BY <1>3 DEF Invalidate
  <2>2. Gone(a)'
    BY <2>1 DEF EnforcementInv, StillRegistered, Gone
  <2>3. \A b \in ActionIds : Gone(b) => Gone(b)'
    BY <2>1 DEF Gone
  <2>4. MarkersTrue'
    <3>1. marker'[s].action = a
      BY <1>1, <2>1 DEF InvalidationTypeInv, InvalidationTypeOK
    <3>2. \A u \in Subjects \ {s} : marker'[u] = marker[u]
      BY <2>1 DEF InvalidationTypeInv, InvalidationTypeOK
    <3>. QED
      BY <2>2, <2>3, <3>1, <3>2 DEF EnforcementInv, MarkersTrue, Queued
  <2>5. StillRegistered'
    <3>1. index'[s] = {} /\ \A u \in Subjects \ {s} : index'[u] = index[u]
      BY <1>1, <2>1 DEF InvalidationTypeInv, InvalidationTypeOK
    <3>2. \A b \in ActionIds : Queued(b) => job[b].subject \in Subjects
      BY QueuedIsJob
         DEF InvalidationTypeInv, InvalidationTypeOK, Jobs, Job, Queued
    <3>. QED
      BY <2>1, <3>1, <3>2 DEF EnforcementInv, StillRegistered, Queued
  <2>. QED
    BY <2>2, <2>3, <2>4, <2>5
<1>. QED
  BY <1>2, <1>3

LEMMA InvalidateEnforced ==
  ASSUME InvalidationTypeInv, EnforcementInv, NEW w \in Workers,
         InvalidateSubject(w) \/ InvalidationFails(w)
  PROVE  EnforcementInv'
<1>. worker[w].phase # "idle"
  BY DEF InvalidateSubject, InvalidationFails
<1>. PICK a \in ActionIds : a = worker[w].action
  BY HeldType
<1>1. /\ UNCHANGED <<job, exposed>>
      /\ \/ Invalidate(a, JobOf(w).subject, Clock(w))
         \/ UNCHANGED redis /\ InvalidationFails(w)
  BY DEF InvalidateSubject, InvalidationFails
<1>2. Queued(a) /\ JobOf(w) = job[a]
  BY <1>1, HeldType DEF JobOf, Job, Statuses, Queued
<1>3. \A v \in Workers \ {w} : worker'[v] = worker[v]
  BY DEF InvalidateSubject, InvalidationFails, Step, InvalidationTypeInv,
         InvalidationTypeOK
<1>4. \A v \in Workers : worker[v].phase = "invalidated" =>
                           worker[v].action \in ActionIds
  BY HeldType
<1>5. worker'[w].action = a
  BY <1>1, HeldType
     DEF InvalidateSubject, InvalidationFails, Step, InvalidationTypeInv,
         InvalidationTypeOK, Claim
<1>6. CASE Invalidate(a, JobOf(w).subject, Clock(w))
  <2>1. /\ Gone(a)'
        /\ \A b \in ActionIds : Gone(b) => Gone(b)'
        /\ MarkersTrue'
        /\ StillRegistered'
    <3>1. Invalidate(a, job[a].subject, Clock(w))
      BY <1>2, <1>6
    <3>. QED
      BY <1>1, <1>2, <3>1, EffectReaches
  <2>2. EnforcedWhenCompleted'
    BY <1>1, <2>1 DEF EnforcementInv, EnforcedWhenCompleted, Gone
  <2>3. ASSUME NEW v \in Workers, worker'[v].phase = "invalidated"
        PROVE  (exposed[worker[v].action] \cap live = {})'
    <3>1. CASE v = w
      BY <1>5, <2>1, <3>1 DEF Gone
    <3>2. CASE v # w
      BY <1>3, <1>4, <2>1, <2>3, <3>2 DEF EnforcementInv, WorkersTrue, Gone
    <3>. QED
      BY <3>1, <3>2
  <2>. QED
    BY <2>1, <2>2, <2>3 DEF EnforcementInv, WorkersTrue, Gone
<1>7. CASE UNCHANGED redis /\ InvalidationFails(w)
  <2>1. worker'[w].phase = "failing"
    BY <1>1, <1>7, HeldType
       DEF InvalidationFails, Step, InvalidationTypeInv, InvalidationTypeOK,
           Claim
  <2>. QED
    BY <1>1, <1>3, <1>7, <2>1
       DEF redis, EnforcementInv, EnforcedWhenCompleted, MarkersTrue,
           WorkersTrue, StillRegistered, Gone, Queued
<1>. QED
  BY <1>1, <1>6, <1>7

LEMMA ClaimEnforced ==
  ASSUME InvalidationTypeInv, EnforcementInv, NEW w \in Workers, ClaimNext(w)
  PROVE  EnforcementInv'
<1>. DEFINE time == Clock(w)
            jobs == [a \in ActionIds |-> ExpireJob(job[a], time)]
<1>1. UNCHANGED <<index, live, marker, exposed>>
  BY DEF ClaimNext, redis
<1>2. ASSUME NEW a \in ActionIds
      PROVE  /\ Queued(a) => /\ jobs[a].status # "none"
                             /\ jobs[a].subject = job[a].subject
             /\ ~Queued(a) => jobs[a] = NoJob
             /\ jobs[a].status = "completed" => job[a].status = "completed"
  <2>1. job[a] \in Jobs /\ time \in Nat
    BY ClockType DEF InvalidationTypeInv, InvalidationTypeOK, Jobs
  <2>2. CASE Queued(a)
    <3>1. job[a] \in Job
      BY <2>1, <2>2, QueuedIsJob DEF Queued
    <3>. QED
      BY <3>1 DEF ExpireJob, Expired, Job, Statuses, Queued
  <2>3. CASE ~Queued(a)
    BY <2>1, <2>3 DEF Queued, Jobs, Job, Statuses, NoJob, ExpireJob, Expired
  <2>. QED
    BY <2>2, <2>3
<1>3. ASSUME NEW a \in ActionIds
      PROVE  /\ Queued(a) => /\ Queued(a)'
                             /\ job'[a].subject = job[a].subject
             /\ ~Queued(a) => ~Queued(a)'
             /\ job'[a].status = "completed" => job[a].status = "completed"
  <2>1. CASE job'[a] = jobs[a]
    <3>. HIDE DEF jobs
    <3>. QED
      BY <1>2, <2>1 DEF Queued, NoJob
  <2>2. CASE /\ jobs[a].status \in {"pending", "failed"}
             /\ job'[a] = [jobs[a] EXCEPT !.status = "executing",
                                          !.attempts = @ + 1,
                                          !.lease = time + LeaseTime]
    <3>1. jobs[a] \in Jobs
      BY ClockType, SweepType
    <3>2. jobs[a].status # "none"
      BY <2>2
    <3>3. jobs[a] \in Job
      <4>. HIDE DEF jobs
      <4>. QED
        BY <3>1, <3>2, QueuedIsJob
    <3>4. Queued(a)
      <4>. HIDE DEF jobs
      <4>. QED
        BY <1>2, <3>2 DEF NoJob
    <3>. HIDE DEF jobs
    <3>. QED
      BY <1>2, <2>2, <3>3, <3>4 DEF Queued, Job
  <2>3. \/ job'[a] = jobs[a]
        \/ /\ jobs[a].status \in {"pending", "failed"}
           /\ job'[a] = [jobs[a] EXCEPT !.status = "executing",
                                        !.attempts = @ + 1,
                                        !.lease = time + LeaseTime]
    <3>1. DOMAIN jobs = ActionIds
      OBVIOUS
    <3>2. \/ job' = jobs
          \/ \E b \in ActionIds :
               /\ jobs[b].status \in {"pending", "failed"}
               /\ job' = [jobs EXCEPT ![b] =
                    [jobs[b] EXCEPT !.status = "executing", !.attempts = @ + 1,
                                    !.lease = time + LeaseTime]]
      BY DEF ClaimNext, Claimable
    <3>. HIDE DEF jobs, time
    <3>. QED
      BY <3>1, <3>2
  <2>. QED
    BY <2>1, <2>2, <2>3
<1>4. ASSUME NEW v \in Workers, worker'[v].phase = "invalidated"
      PROVE  worker' [v] = worker[v]
  <2>1. \/ UNCHANGED worker
        \/ \E b \in ActionIds :
             worker' = [worker EXCEPT ![w] =
               [phase |-> "claimed", action |-> b,
                attempt |-> jobs[b].attempts + 1, result |-> NoEffect]]
    BY DEF ClaimNext
  <2>. QED
    BY <1>4, <2>1 DEF InvalidationTypeInv, InvalidationTypeOK
<1>. HIDE DEF jobs
<1>. QED
  BY <1>1, <1>3, <1>4, QuietStep DEF EnforcementInv, WorkersTrue

LEMMA ReportEnforced ==
  ASSUME InvalidationTypeInv, EnforcementInv, NEW w \in Workers,
         Complete(w) \/ CompletionFails(w) \/ Fail(w) \/ Crash(w)
  PROVE  EnforcementInv'
<1>. DEFINE a == worker[w].action
<1>1. UNCHANGED <<index, live, marker, exposed>>
  BY DEF Complete, CompletionFails, Fail, Crash, redis
<1>2. worker[w].phase # "idle" /\ a \in ActionIds /\ job[a] \in Job
  BY HeldType DEF Complete, CompletionFails, Fail, Crash, JobOf
<1>3. ASSUME NEW b \in ActionIds
      PROVE  /\ Queued(b) => /\ Queued(b)'
                             /\ job'[b].subject = job[b].subject
             /\ ~Queued(b) => ~Queued(b)'
             /\ job'[b].status = "completed" =>
                  job[b].status = "completed" \/ Gone(b)
  <2>1. CASE job' = job
    BY <2>1 DEF Queued
  <2>2. CASE Complete(w)
    <3>1. Gone(a)
      BY <2>2 DEF Complete, EnforcementInv, WorkersTrue
    <3>2. CASE b = a
      BY <1>2, <2>2, <3>1, <3>2
         DEF Complete, InvalidationTypeInv, InvalidationTypeOK, Job, Statuses,
             Queued
    <3>3. CASE b # a
      BY <2>2, <3>3
         DEF Complete, InvalidationTypeInv, InvalidationTypeOK, Queued
    <3>. QED
      BY <3>2, <3>3
  <2>3. CASE Fail(w) /\ HoldsClaim(w)
    <3>. DEFINE next == Clock(w) + RetryDelay(worker[w].attempt)
    <3>1. job' = [job EXCEPT ![a].status = "failed", ![a].lease = 0,
                             ![a].next = next]
      BY <2>3 DEF Fail
    <3>. HIDE DEF next
    <3>2. CASE b = a
      BY <1>2, <3>1, <3>2
         DEF InvalidationTypeInv, InvalidationTypeOK, Job, Statuses, Queued
    <3>3. CASE b # a
      BY <3>1, <3>3 DEF InvalidationTypeInv, InvalidationTypeOK, Queued
    <3>. QED
      BY <3>2, <3>3
  <2>. QED
    BY <2>1, <2>2, <2>3 DEF CompletionFails, Fail, Crash
<1>4. ASSUME NEW v \in Workers, worker'[v].phase = "invalidated"
      PROVE  worker'[v] = worker[v]
  <2>1. \/ worker' = [worker EXCEPT ![w] = IdleWorker]
        \/ Step(w, "failing")
    BY DEF Complete, CompletionFails, Fail, Crash
  <2>2. CASE v = w
    BY <1>2, <1>4, <2>1, <2>2, HeldType
       DEF IdleWorker, Step, InvalidationTypeInv, InvalidationTypeOK, Claim
  <2>3. CASE v # w
    BY <2>1, <2>3 DEF Step, InvalidationTypeInv, InvalidationTypeOK
  <2>. QED
    BY <2>2, <2>3
<1>. QED
  BY <1>1, <1>3, <1>4, QuietStep DEF EnforcementInv, WorkersTrue

LEMMA EnforcedStep ==
  ASSUME InvalidationTypeInv, EnforcementInv, [InvalidationNext]_invalidationVars
  PROVE  EnforcementInv'
<1>1. CASE DbTick
  BY <1>1, QuietStep DEF DbTick, redis, Queued, EnforcementInv, WorkersTrue
<1>2. CASE UNCHANGED invalidationVars
  BY <1>2, QuietStep DEF invalidationVars, Queued, EnforcementInv, WorkersTrue
<1>. QED
  BY <1>1, <1>2, RequestEnforced, ClaimEnforced, InvalidateEnforced,
     ReportEnforced DEF InvalidationNext, WorkerStep

LEMMA EnforcedInit == InvalidationInit => EnforcementInv
BY NoActionAssumption
   DEF InvalidationInit, EnforcementInv, EnforcedWhenCompleted, MarkersTrue,
       WorkersTrue,
       StillRegistered, IdleWorker, NoJob, Queued

(* No session or cache entry that existed when a suspension or revocation  *)
(* succeeded is left once its invalidation is recorded as completed,       *)
(* whatever number of workers, faults, lost answers and clock offsets lies *)
(* between.                                                                *)
THEOREM Enforced == InvalidationSpec => []EnforcedWhenCompleted
<1>1. EnforcementInv => EnforcedWhenCompleted
  BY DEF EnforcementInv
<1>. QED
  BY <1>1, InvalidationTypeInit, InvalidationTypeStep, EnforcedInit, EnforcedStep, PTL
     DEF InvalidationSpec

----------------------------------------------------------------------------
(* Finality and mutual exclusion *)

(* What a claim does to one job.                                           *)
LEMMA ClaimEffect ==
  ASSUME InvalidationTypeInv, NEW w \in Workers, ClaimNext(w)
  PROVE  \A a \in ActionIds :
           job[a].status = "completed" => job'[a] = job[a]
<1>. DEFINE time == Clock(w)
            jobs == [a \in ActionIds |-> ExpireJob(job[a], time)]
<1>1. \A a \in ActionIds : job[a].status = "completed" => jobs[a] = job[a]
  BY DEF ExpireJob, Expired
<1>2. \/ job' = jobs
      \/ \E b \in ActionIds :
           /\ jobs[b].status \in {"pending", "failed"}
           /\ job' = [jobs EXCEPT ![b] =
                [jobs[b] EXCEPT !.status = "executing", !.attempts = @ + 1,
                                !.lease = time + LeaseTime]]
  BY DEF ClaimNext, Claimable
<1>3. DOMAIN jobs = ActionIds
  OBVIOUS
<1>. HIDE DEF jobs, time
<1>. QED
  BY <1>1, <1>2, <1>3

(* A completed invalidation is never reopened, failed or counted again,    *)
(* although late reports of earlier attempts still arrive.                 *)
THEOREM CompletedStays == InvalidationSpec => CompletedIsFinal
<1>1. ASSUME InvalidationTypeInv, [InvalidationNext]_invalidationVars
      PROVE  \A a \in ActionIds :
               job[a].status = "completed" => job'[a] = job[a]
  <2>1. CASE UNCHANGED job
    BY <2>1
  <2>2. ASSUME NEW b \in ActionIds, NEW s \in Subjects, ActionSucceeds(b, s)
        PROVE  \A a \in ActionIds :
                 job[a].status = "completed" => job'[a] = job[a]
    BY <1>1, <2>2
       DEF ActionSucceeds, Queued, InvalidationTypeInv, InvalidationTypeOK
  <2>3. ASSUME NEW w \in Workers, ClaimNext(w)
        PROVE  \A a \in ActionIds :
                 job[a].status = "completed" => job'[a] = job[a]
    BY <1>1, <2>3, ClaimEffect
  <2>4. ASSUME NEW w \in Workers, Complete(w) \/ Fail(w), job' # job
        PROVE  \A a \in ActionIds :
                 job[a].status = "completed" => job'[a] = job[a]
    <3>1. job[worker[w].action].status = "executing"
      BY <2>4 DEF Complete, Fail, HoldsClaim, JobOf
    <3>2. \A a \in ActionIds : a # worker[w].action => job'[a] = job[a]
      BY <1>1, <2>4 DEF Complete, Fail, InvalidationTypeInv, InvalidationTypeOK
    <3>. QED
      BY <3>1, <3>2
  <2>. QED
    BY <1>1, <2>1, <2>2, <2>3, <2>4
       DEF InvalidationNext, WorkerStep, Register, RegisterEntry, ExpireEntry,
           InvalidateSubject,
           InvalidationFails, CompletionFails, Crash, DbTick, invalidationVars
<1>2. InvalidationTypeInv /\ [InvalidationNext]_invalidationVars =>
        [\A a \in ActionIds :
           job[a].status = "completed" => job'[a] = job[a]]_invalidationVars
  BY <1>1
<1>. QED
  BY <1>2, InvalidationTypeInit, InvalidationTypeStep, PTL
     DEF InvalidationSpec, CompletedIsFinal

LEMMA OneExecutingStep ==
  ASSUME InvalidationTypeInv, OneExecutingPerSubject, [InvalidationNext]_invalidationVars
  PROVE  OneExecutingPerSubject'
<1>1. ASSUME \A a \in ActionIds :
               job'[a].status = "executing" =>
                 job[a].status = "executing" /\ job'[a].subject = job[a].subject
      PROVE  OneExecutingPerSubject'
  BY <1>1 DEF OneExecutingPerSubject
<1>2. CASE UNCHANGED job
  BY <1>2 DEF OneExecutingPerSubject
<1>3. ASSUME NEW b \in ActionIds, NEW s \in Subjects, ActionSucceeds(b, s)
      PROVE  OneExecutingPerSubject'
  <2>1. /\ job'[b].status = "pending"
        /\ \A a \in ActionIds \ {b} : job'[a] = job[a]
    BY <1>3 DEF ActionSucceeds, InvalidationTypeInv, InvalidationTypeOK
  <2>. QED
    BY <1>1, <2>1
<1>4. ASSUME NEW w \in Workers, ClaimNext(w)
      PROVE  OneExecutingPerSubject'
  <2>. DEFINE time == Clock(w)
              jobs == [a \in ActionIds |-> ExpireJob(job[a], time)]
  <2>1. \A a \in ActionIds :
          jobs[a].status = "executing" =>
            job[a].status = "executing" /\ jobs[a] = job[a]
    <3>1. ASSUME NEW a \in ActionIds, jobs[a].status = "executing"
          PROVE  job[a].status = "executing" /\ jobs[a] = job[a]
      <4>1. CASE Expired(job[a], time)
        <5>1. jobs[a] = [job[a] EXCEPT !.status = "failed", !.lease = 0,
                                       !.next = time]
          BY <4>1 DEF ExpireJob
        <5>2. job[a] \in Job
          BY <4>1, QueuedIsJob
             DEF Expired, InvalidationTypeInv, InvalidationTypeOK, Jobs
        <5>. QED
          BY <3>1, <5>1, <5>2 DEF Job
      <4>2. CASE ~Expired(job[a], time)
        BY <3>1, <4>2 DEF ExpireJob
      <4>. QED
        BY <4>1, <4>2
    <3>. QED
      BY <3>1
  <2>2. CASE job' = jobs
    BY <1>1, <2>1, <2>2
  <2>3. ASSUME NEW b \in ActionIds, IndexAdmits(b, jobs),
               jobs[b].status \in {"pending", "failed"},
               job' = [jobs EXCEPT ![b] =
                 [jobs[b] EXCEPT !.status = "executing", !.attempts = @ + 1,
                                 !.lease = time + LeaseTime]]
        PROVE  OneExecutingPerSubject'
    <3>1. jobs[b] \in Job
      BY <2>3, ClockType, SweepType, QueuedIsJob
    <3>2. DOMAIN jobs = ActionIds
      OBVIOUS
    <3>3. \A a \in ActionIds :
            jobs[a].status = "executing" => jobs[a].subject # jobs[b].subject
      BY <2>3 DEF IndexAdmits, SubjectBusy
    <3>. HIDE DEF jobs, time
    <3>4. job'[b].subject = jobs[b].subject
      BY <2>3, <3>1, <3>2 DEF Job
    <3>5. \A a \in ActionIds \ {b} : job'[a] = jobs[a]
      BY <2>3, <3>2
    <3>. QED
      BY <2>1, <3>3, <3>4, <3>5 DEF OneExecutingPerSubject
  <2>. QED
    BY <1>4, <2>2, <2>3 DEF ClaimNext, Claimable
<1>5. ASSUME NEW w \in Workers, Complete(w) \/ Fail(w), job' # job
      PROVE  OneExecutingPerSubject'
  <2>. DEFINE a == worker[w].action
  <2>1. a \in ActionIds /\ job[a] \in Job
    BY <1>5, HeldType DEF Complete, Fail, JobOf
  <2>2. \A b \in ActionIds : b # a => job'[b] = job[b]
    BY <1>5 DEF Complete, Fail, InvalidationTypeInv, InvalidationTypeOK
  <2>3. job'[a].status # "executing"
    <3>1. CASE Complete(w)
      BY <2>1, <3>1 DEF Complete, InvalidationTypeInv, InvalidationTypeOK, Job
    <3>2. CASE Fail(w)
      BY <1>5, <2>1, <3>2
         DEF Fail, InvalidationTypeInv, InvalidationTypeOK, Job
    <3>. QED
      BY <1>5, <3>1, <3>2
  <2>. QED
    BY <1>1, <2>2, <2>3
<1>. QED
  BY <1>2, <1>3, <1>4, <1>5
     DEF InvalidationNext, WorkerStep, Register, RegisterEntry, ExpireEntry,
         InvalidateSubject,
         InvalidationFails, CompletionFails, Crash, DbTick, invalidationVars

(* Two invalidations of one subject never execute at the same time.        *)
THEOREM MutualExclusion == InvalidationSpec => []OneExecutingPerSubject
<1>1. InvalidationInit => OneExecutingPerSubject
  BY DEF InvalidationInit, NoJob, OneExecutingPerSubject
<1>. QED
  BY <1>1, InvalidationTypeInit, InvalidationTypeStep, OneExecutingStep, PTL
     DEF InvalidationSpec

=============================================================================
