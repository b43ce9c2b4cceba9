----------------------- MODULE GovernedRecoveryProofs -----------------------
(***************************************************************************)
(* Proofs about GovernedRecovery, for every set of requests, proofs and    *)
(* postures to recover from, every configuration of trust and every bound, *)
(* and about ActionTriggers, for every set of evidence and of scores.      *)
(* MCGovernedRecovery is extended for EvidenceNeverWeakens, which speaks of*)
(* both; none of its values is used.                                       *)
(***************************************************************************)
EXTENDS MCGovernedRecovery, SequenceTheorems, FiniteSetTheorems, TLAPS

----------------------------------------------------------------------------
(* The controls of trust *)

Bases == [cap : 1..100, sources : Nat \ {0},
          critical : CriticalKinds \cup {"none"}]

LEMMA ScoreRange ==
  /\ Scores \subseteq Nat
  /\ \A kind : ScoreCeiling(kind) \in Scores
BY DEF Scores, Points, ScoreCeiling

LEMMA BoundedScoreType ==
  ASSUME NEW score \in Scores, NEW candidate \in Scores, NEW cap \in 1..100
  PROVE  BoundedScore(score, candidate, cap) \in Scores
BY DEF BoundedScore, Larger, Smaller, Scores, Points

(* What an evaluation computes is again a control, with the kinds of       *)
(* transition there are.                                                   *)
LEMMA ControlledType ==
  ASSUME NEW c \in Control, NEW candidate \in Scores, NEW basis \in Bases
  PROVE  LET result == Controlled(c, candidate, basis)
         IN  /\ result.score \in Scores /\ result.band \in Bands
             /\ result.streak \in 0..(RequiredStreak - 1)
             /\ result.kind \in Kinds /\ result.eligible \in BOOLEAN
<1>1. /\ c.score \in Scores /\ c.band \in Bands /\ c.streak \in 0..1
      /\ basis.cap \in 1..100 /\ basis.sources \in Nat
  BY DEF Control, Bases, RequiredStreak
<1>2. CASE basis.critical # "none"
  <2>1. Smaller(Smaller(c.score, candidate), ScoreCeiling(basis.critical))
          \in Scores
    BY <1>1, ScoreRange DEF Smaller
  <2>. QED
    BY <1>2, <2>1 DEF Controlled, Overridden, Bands, Kinds, RequiredStreak
<1>3. CASE basis.critical = "none"
  <2>. DEFINE score     == BoundedScore(c.score, candidate, basis.cap)
              qualifies == Qualifies(c.band, score, basis.sources)
  <2>1. score \in Scores
    BY <1>1, BoundedScoreType
  <2>2. /\ LowerBand(c.band, score) \in Bands /\ NextBand(c.band) \in Bands
        /\ NextStreak(c.streak, qualifies) \in 0..(RequiredStreak - 1)
        /\ 0 \in 0..(RequiredStreak - 1)
        /\ qualifies \in BOOLEAN
    BY <1>1 DEF LowerBand, NextBand, NextStreak, Qualifies, Bands,
                RequiredStreak
  <2>3. Controlled(c, candidate, basis) = Ordinary(c, candidate, basis)
    BY <1>3 DEF Controlled
  <2>4. CASE LowerBand(c.band, score) # c.band
    BY <2>1, <2>2, <2>3, <2>4 DEF Ordinary, Kinds
  <2>5. CASE LowerBand(c.band, score) = c.band
    BY <1>1, <2>1, <2>2, <2>3, <2>5 DEF Ordinary, Kinds
  <2>. QED
    BY <2>4, <2>5
<1>. QED
  BY <1>2, <1>3

(* An evaluation counts toward a recovery, or completes one, only when it  *)
(* is corroborated and its score is at the recovery threshold of the band  *)
(* before it; it completes one only after another that counted.            *)
Counts(c, sources, after, kind, eligible) ==
  /\ kind = "recovered" =>
       /\ eligible
       /\ sources >= RequiredSources
       /\ after.score >= RecoveryThreshold(c.band)
       /\ c.streak > 0
  /\ after.streak > 0 =>
       /\ sources >= RequiredSources
       /\ after.band = c.band
       /\ after.score >= RecoveryThreshold(c.band)

LEMMA ControlledCounts ==
  ASSUME NEW c \in Control, NEW candidate \in Scores, NEW basis \in Bases
  PROVE  LET result == Controlled(c, candidate, basis)
         IN  Counts(c, basis.sources, result, result.kind, result.eligible)
<1>. DEFINE score     == BoundedScore(c.score, candidate, basis.cap)
            qualifies == Qualifies(c.band, score, basis.sources)
            result    == Controlled(c, candidate, basis)
<1>1. c.streak \in 0..1
  BY DEF Control, RequiredStreak
<1>2. CASE basis.critical # "none"
  BY <1>2 DEF Controlled, Overridden, Counts
<1>3. CASE basis.critical = "none" /\ LowerBand(c.band, score) # c.band
  BY <1>3 DEF Controlled, Ordinary, Counts
<1>4. CASE basis.critical = "none" /\ LowerBand(c.band, score) = c.band
  <2>1. /\ result.score = score
        /\ result.band = IF qualifies /\ c.streak + 1 >= RequiredStreak
                         THEN NextBand(c.band) ELSE c.band
        /\ result.kind = IF qualifies /\ c.streak + 1 >= RequiredStreak
                         THEN "recovered" ELSE "held"
        /\ result.streak = NextStreak(c.streak, qualifies)
        /\ result.eligible = qualifies
    BY <1>4 DEF Controlled, Ordinary
  <2>. HIDE DEF result, score
  <2>2. qualifies => /\ basis.sources >= RequiredSources
                     /\ score >= RecoveryThreshold(c.band)
    BY DEF Qualifies
  <2>3. /\ result.kind = "recovered" => qualifies /\ c.streak > 0
        /\ result.streak > 0 => qualifies /\ c.streak = 0
    BY <1>1, <2>1 DEF NextStreak, RequiredStreak
  <2>4. result.streak > 0 => result.band = c.band
    BY <2>1, <2>3 DEF RequiredStreak
  <2>. HIDE DEF qualifies
  <2>. QED
    BY <2>1, <2>2, <2>3, <2>4 DEF Counts, result
<1>. QED
  BY <1>2, <1>3, <1>4

LEMMA InitialControlType == InitialControl \in Control
BY ConfigurationAssumption
   DEF InitialControl, Control, Bands, RequiredStreak, Scores, Points

----------------------------------------------------------------------------
(* Postures *)

(* What a transition makes of a target whose certificate was revoked:      *)
(* access comes back by a restoration only, and a restoration after a      *)
(* replacement only.                                                       *)
LEMMA NextPosture ==
  ASSUME NEW p \in Posture, NEW type \in ActionTypes, TransitionDefined(p, type)
  PROVE  LET next == TransitionState(p, type)
         IN  /\ next \in {q \in Posture : DefinedState(q)}
             /\ p.access # "normal" /\ next.access = "normal"
                  => type = "restore-access"
             /\ p.replacement = "required" =>
                  /\ p.access # "normal" /\ type # "restore-access"
                  /\ \/ next.replacement = "required"
                     \/ /\ next.replacement = "issued"
                        /\ type = "issue-replacement-certificate"
             /\ p.replacement = "issued" => next.replacement = "issued"
<1>. USE DEF TransitionState, TransitionDefined, DefinedState, Posture,
             AccessStates, RenewalStates, CertificateStates,
             ReplacementStates, ActionTypes, ProtectiveTypes,
             QuarantineTypes, SeverityTypes, RecoveryTypes
<1>1. CASE type = "restrict-access"
  BY <1>1
<1>2. CASE type = "suspend-subject"
  BY <1>2
<1>3. CASE type = "block-renewal"
  BY <1>3
<1>4. CASE type = "revoke-certificate"
  BY <1>4
<1>5. CASE type = "issue-replacement-certificate"
  BY <1>5
<1>6. CASE type = "restore-access"
  BY <1>6
<1>. QED
  BY <1>1, <1>2, <1>3, <1>4, <1>5, <1>6

----------------------------------------------------------------------------
(* The invariant *)

(* The service evaluates and asks for what it has read of the target.      *)
HeldInv ==
  \A r \in Requests :
    /\ request[r].phase \in {"loaded", "eligible"} =>
         /\ request[r].proof \in Proofs
         /\ request[r].version \in 1..Version
         /\ request[r].transition \in 1..CurrentTransition
    /\ request[r].phase = "eligible" =>
         /\ request[r].type \in RecoveryTypes
         /\ transitions[request[r].transition].explanation = "ids"

(* The target has a posture from the start.                                *)
TypeInv == TypeOK /\ Version # 0 /\ HeldInv

ControlAt(i) == IF i = 0 THEN InitialControl ELSE transitions[i].after

(* Each transition counts what the one before it left.                     *)
StreaksInv ==
  \A i \in 1..CurrentTransition :
    Counts(ControlAt(i - 1), transitions[i].sources, transitions[i].after,
           transitions[i].kind, transitions[i].eligible)

(* An authorization names a posture and a transition that were accepted    *)
(* for it, and has spent its proof.                                        *)
Accepted(a) ==
  /\ a.version \in 1..Version
  /\ a.transition \in 1..CurrentTransition
  /\ transitions[a.transition].explanation = "ids"
  /\ a.at - transitions[a.transition].evaluatedAt \in 0..1
  /\ TrustAccepted(postures[a.version], transitions[a.transition])
  /\ ConditionsAccepted(postures[a.version], a.type, a.request \in Resolved)
  /\ a.proof \notin proofs

AcceptedInv == \A i \in 1..Len(authorizations) : Accepted(authorizations[i])

(* What was recorded of the recovery between versions v and w of a target  *)
(* that was revoked at v.                                                  *)
Replaced(v, w) ==
  \E i \in 1..Len(authorizations) :
    /\ authorizations[i].type = "issue-replacement-certificate"
    /\ authorizations[i].version \in v..(w - 1)

Restored(v, w) ==
  \E i, j \in 1..Len(authorizations) :
    /\ authorizations[i].type = "issue-replacement-certificate"
    /\ authorizations[j].type = "restore-access"
    /\ authorizations[i].version \in v..(w - 1)
    /\ authorizations[j].version \in (authorizations[i].version + 1)..(w - 1)

(* From a revocation on, a replacement stays required until one was        *)
(* authorized, and access stays restricted until it was restored after it. *)
StageAt(v, w) ==
  postures[v].replacement = "required" =>
    \/ postures[w].replacement = "required"
    \/ /\ postures[w].replacement = "issued"
       /\ Replaced(v, w)
       /\ postures[w].access = "normal" => Restored(v, w)

StagesInv == \A v, w \in 1..Version : v <= w => StageAt(v, w)

RecoveryInv ==
  TypeInv /\ StreaksInv /\ AcceptedInv /\ AuthorizedOnce /\ StagesInv

----------------------------------------------------------------------------
(* Types *)

DefinedPostures == {p \in Posture : DefinedState(p)}

LEMMA Counters ==
  ASSUME TypeOK
  PROVE  /\ now \in Nat /\ lost \in Nat /\ sightings \in Nat
         /\ Version \in Nat /\ CurrentTransition \in Nat
         /\ Len(authorizations) \in Nat
         /\ DOMAIN authorizations = 1..Len(authorizations)
         /\ \A i \in 1..Version : postures[i] \in DefinedPostures
         /\ \A i \in 1..CurrentTransition : transitions[i] \in Transition
         /\ \A i \in 1..Len(authorizations) : authorizations[i] \in Authorization
<1>1. /\ postures \in Seq(DefinedPostures) /\ transitions \in Seq(Transition)
      /\ authorizations \in Seq(Authorization)
  BY DEF TypeOK, DefinedPostures
<1>2. /\ now \in Nat /\ lost \in Nat /\ sightings \in Nat
  BY BoundsAssumption DEF TypeOK
<1>. QED
  BY <1>1, <1>2, LenProperties, ElementOfSeq DEF Version, CurrentTransition

LEMMA ControlAtType ==
  ASSUME TypeOK, NEW i \in 0..CurrentTransition
  PROVE  ControlAt(i) \in Control
<1>1. CASE i = 0
  BY <1>1, InitialControlType DEF ControlAt
<1>2. CASE i # 0
  <2>1. transitions[i] \in Transition
    BY <1>2, Counters
  <2>. QED
    BY <1>2, <2>1 DEF ControlAt, Transition
<1>. QED
  BY <1>1, <1>2

(* An evaluation appends a transition that counts on the last one.         *)
LEMMA EvaluateAppends ==
  ASSUME TypeOK, Evaluate
  PROVE  \E t \in Transition :
           /\ transitions' = Append(transitions, t)
           /\ Counts(ControlAt(CurrentTransition), t.sources, t.after, t.kind,
                     t.eligible)
<1>1. PICK candidate \in Candidates, sources \in SourceCounts,
           explanation \in Explanations, critical \in Criticals :
        LET result == Controlled(ControlBefore, candidate,
                        [cap |-> 100, sources |-> sources,
                         critical |-> critical])
        IN  transitions' = Append(transitions,
              [after |-> [score  |-> result.score, band |-> result.band,
                          streak |-> result.streak],
               kind |-> result.kind, eligible |-> result.eligible,
               sources |-> sources, explanation |-> explanation,
               evaluatedAt |-> now])
  BY DEF Evaluate
<1>. DEFINE basis  == [cap |-> 100, sources |-> sources, critical |-> critical]
            result == Controlled(ControlBefore, candidate, basis)
            t      == [after |-> [score  |-> result.score,
                                  band   |-> result.band,
                                  streak |-> result.streak],
                       kind |-> result.kind, eligible |-> result.eligible,
                       sources |-> sources, explanation |-> explanation,
                       evaluatedAt |-> now]
<1>2. transitions' = Append(transitions, t)
  BY <1>1
<1>3. basis \in Bases /\ basis.sources = sources
  BY InputsAssumption DEF Bases
<1>4. ControlBefore = ControlAt(CurrentTransition)
  BY EmptySeq DEF TypeOK, ControlBefore, ControlAt, CurrentTransition
<1>5. ControlBefore \in Control /\ candidate \in Scores
  BY <1>4, Counters, ControlAtType, InputsAssumption
<1>. HIDE DEF basis
<1>6. /\ result.score \in Scores /\ result.band \in Bands
      /\ result.streak \in 0..(RequiredStreak - 1)
      /\ result.kind \in Kinds /\ result.eligible \in BOOLEAN
  BY <1>3, <1>5, ControlledType
<1>7. Counts(ControlBefore, sources, result, result.kind, result.eligible)
  BY <1>3, <1>5, ControlledCounts
<1>. HIDE DEF result
<1>8. t \in Transition
  BY <1>3, <1>6, Counters, InputsAssumption DEF Transition, Control
<1>9. Counts(ControlAt(CurrentTransition), t.sources, t.after, t.kind,
             t.eligible)
  BY <1>4, <1>7 DEF Counts
<1>. HIDE DEF t
<1>. QED
  BY <1>2, <1>8, <1>9

(* Protect and Recover append a posture that a transition leads to; a      *)
(* recovery's was authorized for the posture it replaces.                  *)
PostureTaken(type) ==
  /\ type \in RecoveryTypes =>
       \E i \in 1..Len(authorizations) :
         authorizations[i].type = type /\ authorizations[i].version = Version
  /\ TransitionDefined(CurrentPosture, type)
  /\ postures' = Append(postures, TransitionState(CurrentPosture, type))
  /\ UNCHANGED <<now, lost, transitions, evidence, sightings, proofs,
                 authorizations, request>>

LEMMA PostureSteps ==
  ASSUME TypeInv,
         \/ \E type \in ProtectiveTypes : Protect(type)
         \/ \E i \in DOMAIN authorizations : Recover(i)
  PROVE  \E type \in ActionTypes : PostureTaken(type)
<1>1. ASSUME NEW type \in ProtectiveTypes, Protect(type)
      PROVE  type \in ActionTypes /\ PostureTaken(type)
  BY <1>1 DEF Protect, PostureTaken, ProtectiveTypes, QuarantineTypes,
              SeverityTypes, RecoveryTypes, ActionTypes
<1>2. ASSUME NEW i \in DOMAIN authorizations, Recover(i)
      PROVE  /\ authorizations[i].type \in ActionTypes
             /\ PostureTaken(authorizations[i].type)
  <2>1. /\ i \in 1..Len(authorizations)
        /\ authorizations[i].type \in RecoveryTypes
    BY Counters DEF TypeInv, Authorization
  <2>. QED
    BY <1>2, <2>1 DEF Recover, PostureTaken, ActionTypes
<1>. QED
  BY <1>1, <1>2

(* How the sequences grow.                                                 *)
LEMMA PosturesGrow ==
  ASSUME TypeInv, NEW type \in ActionTypes, PostureTaken(type)
  PROVE  /\ postures' \in Seq(DefinedPostures)
         /\ Version' = Version + 1
         /\ \A v \in 1..Version : postures'[v] = postures[v]
         /\ postures'[Version + 1] = TransitionState(CurrentPosture, type)
<1>1. postures \in Seq(DefinedPostures) /\ CurrentPosture \in DefinedPostures
  BY Counters DEF TypeInv, TypeOK, DefinedPostures, CurrentPosture
<1>2. TransitionState(CurrentPosture, type) \in DefinedPostures
  BY <1>1, NextPosture DEF PostureTaken, DefinedPostures
<1>. QED
  BY <1>1, <1>2, AppendProperties DEF PostureTaken, Version

LEMMA TransitionsGrow ==
  ASSUME TypeInv, Evaluate
  PROVE  /\ transitions' \in Seq(Transition)
         /\ CurrentTransition' = CurrentTransition + 1
         /\ \A i \in 1..CurrentTransition : transitions'[i] = transitions[i]
         /\ LET t == transitions'[CurrentTransition + 1]
            IN  Counts(ControlAt(CurrentTransition), t.sources, t.after,
                       t.kind, t.eligible)
<1>1. PICK t \in Transition :
        /\ transitions' = Append(transitions, t)
        /\ Counts(ControlAt(CurrentTransition), t.sources, t.after, t.kind,
                  t.eligible)
  BY EvaluateAppends DEF TypeInv
<1>2. transitions \in Seq(Transition)
  BY DEF TypeInv, TypeOK
<1>. QED
  BY <1>1, <1>2, AppendProperties DEF CurrentTransition

LEMMA AskedType ==
  ASSUME TypeInv, NEW r \in Requests, request[r].phase = "eligible"
  PROVE  AskedAuthorization(r) \in Authorization
<1>1. request[r] \in Request
  BY DEF TypeInv, TypeOK
<1>2. /\ request[r].type \in RecoveryTypes /\ request[r].proof \in Proofs
      /\ request[r].version \in Nat \ {0}
      /\ request[r].transition \in Nat \ {0}
  BY Counters DEF TypeInv, HeldInv
<1>. QED
  BY <1>1, <1>2 DEF AskedAuthorization, Authorization, Request

LEMMA AuthorizationsGrow ==
  ASSUME TypeInv, NEW r \in Requests, Authorize(r)
  PROVE  /\ authorizations' \in Seq(Authorization)
         /\ Len(authorizations') = Len(authorizations) + 1
         /\ \A i \in 1..Len(authorizations) :
              authorizations'[i] = authorizations[i]
         /\ authorizations'[Len(authorizations) + 1] = AskedAuthorization(r)
<1>1. AskedAuthorization(r) \in Authorization
  BY AskedType DEF Authorize
<1>2. authorizations \in Seq(Authorization)
  BY DEF TypeInv, TypeOK
<1>. QED
  BY <1>1, <1>2, AppendProperties DEF Authorize

LEMMA UpdateType ==
  ASSUME TypeInv, NEW r \in Requests, NEW value \in Request, Update(r, value)
  PROVE  /\ request' \in [Requests -> Request]
         /\ request'[r] = value
         /\ \A s \in Requests : s # r => request'[s] = request[s]
BY DEF TypeInv, TypeOK, Update

(* An answer, given or lost, changes nothing but the phase.                *)
LEMMA AnswerType ==
  ASSUME TypeInv, NEW r \in Requests, NEW phase \in {"answered", "refused"},
         \/ Answer(r, phase)
         \/ Crash(r)
         \/ Update(r, [request[r] EXCEPT !.phase = phase]) /\ UNCHANGED lost
  PROVE  /\ lost' \in 0..MaxLost
         /\ request' \in [Requests -> Request]
         /\ request'[r].phase \in {"answered", "refused", "idle"}
         /\ \A s \in Requests : s # r => request'[s] = request[s]
<1>1. request[r] \in Request /\ lost \in 0..MaxLost
  BY DEF TypeInv, TypeOK
<1>2. \/ lost' = lost
      \/ lost < MaxLost /\ lost' = lost + 1
  BY DEF Answer, Crash
<1>3. lost' \in 0..MaxLost
  BY <1>1, <1>2, BoundsAssumption
<1>4. PICK p \in {"answered", "refused", "idle"} :
        Update(r, [request[r] EXCEPT !.phase = p])
  BY DEF Answer, Crash
<1>5. /\ [request[r] EXCEPT !.phase = p] \in Request
      /\ [request[r] EXCEPT !.phase = p].phase = p
  BY <1>1 DEF Request, Phases
<1>. QED
  BY <1>3, <1>4, <1>5, UpdateType

LEMMA LoadType ==
  ASSUME TypeInv, NEW r \in Requests, Load(r) \/ EvaluateRecovery(r)
  PROVE  /\ request' \in [Requests -> Request]
         /\ request'[r].phase \in {"loaded", "eligible"} =>
              /\ request'[r].proof \in Proofs
              /\ request'[r].version \in 1..Version
              /\ request'[r].transition \in 1..CurrentTransition
         /\ request'[r].phase = "eligible" =>
              /\ request'[r].type \in RecoveryTypes
              /\ transitions[request'[r].transition].explanation = "ids"
         /\ \A s \in Requests : s # r => request'[s] = request[s]
<1>1. /\ request[r] \in Request /\ now \in Nat
      /\ Version \in Nat /\ CurrentTransition \in Nat /\ Version # 0
      /\ transitions \in Seq(Transition)
  BY Counters DEF TypeInv, TypeOK
<1>2. CASE Load(r)
  <2>1. PICK p \in Proofs :
          Update(r, [phase |-> "loaded", proof |-> p, at |-> now,
                     version |-> Version, transition |-> CurrentTransition,
                     type |-> "none"])
    BY <1>2 DEF Load
  <2>2. CurrentTransition # 0
    BY <1>1, <1>2, EmptySeq DEF Load, CurrentTransition
  <2>. DEFINE value == [phase |-> "loaded", proof |-> p, at |-> now,
                        version |-> Version, transition |-> CurrentTransition,
                        type |-> "none"]
  <2>3. value \in Request
    BY <1>1 DEF Request, Phases
  <2>4. /\ request' \in [Requests -> Request]
        /\ request'[r] = value
        /\ \A s \in Requests : s # r => request'[s] = request[s]
    BY <2>1, <2>3, UpdateType
  <2>. QED
    BY <1>1, <2>2, <2>4
<1>3. CASE EvaluateRecovery(r)
  <2>1. PICK type \in RecoveryTypes \cup {"none"} :
          /\ Update(r, [request[r] EXCEPT !.type = type,
                          !.phase = IF type = "none" THEN "refused"
                                    ELSE "eligible"])
          /\ type # "none" =>
               transitions[request[r].transition].explanation = "ids"
    <3>. DEFINE t == transitions[request[r].transition]
                p == postures[request[r].version]
                type == NextRecovery(p, Checkpoint(t), evidence, r \in Resolved)
    <3>1. Update(r, [request[r] EXCEPT !.type = type,
                       !.phase = IF type = "none" THEN "refused"
                                 ELSE "eligible"])
      BY <1>3 DEF EvaluateRecovery, RecoveryContext
    <3>2. type # "none" => TrustReady(p, Checkpoint(t))
      BY DEF NextRecovery
    <3>3. TrustReady(p, Checkpoint(t)) => t.explanation = "ids"
      BY DEF TrustReady, Checkpoint, RequiredSources
    <3>4. type \in RecoveryTypes \cup {"none"}
      BY DEF NextRecovery, RecoveryTypes
    <3>. HIDE DEF type, t, p
    <3>5. type # "none" => t.explanation = "ids"
      BY <3>2, <3>3
    <3>. QED
      BY <3>1, <3>4, <3>5 DEF t
  <2>. DEFINE value == [request[r] EXCEPT !.type = type,
                          !.phase = IF type = "none" THEN "refused"
                                    ELSE "eligible"]
  <2>2. /\ value \in Request
        /\ value.proof = request[r].proof
        /\ value.version = request[r].version
        /\ value.transition = request[r].transition
        /\ value.phase = IF type = "none" THEN "refused" ELSE "eligible"
        /\ value.type = type
    BY <1>1 DEF Request, Phases
  <2>3. /\ request' \in [Requests -> Request]
        /\ request'[r] = value
        /\ \A s \in Requests : s # r => request'[s] = request[s]
    BY <2>1, <2>2, UpdateType
  <2>4. request[r].phase = "loaded"
    BY <1>3 DEF EvaluateRecovery
  <2>. HIDE DEF value
  <2>. QED
    BY <2>1, <2>2, <2>3, <2>4 DEF TypeInv, HeldInv
<1>. QED
  BY <1>2, <1>3

Reads(r) == Load(r) \/ EvaluateRecovery(r)
Ends(r) == Replay(r) \/ Deny(r) \/ Crash(r)
Surroundings ==
  \/ EvidenceAppears \/ EvidenceClears \/ ProofExpires \/ Tick
  \/ UNCHANGED vars

LEMMA StepKinds ==
  ASSUME TypeInv, [Next]_vars
  PROVE  \/ Evaluate
         \/ \E type \in ActionTypes : PostureTaken(type)
         \/ \E r \in Requests : Reads(r) \/ Authorize(r) \/ Ends(r)
         \/ Surroundings
BY PostureSteps DEF Next, Serve, Reads, Ends, Surroundings

(* Nothing that was recorded changes or is removed, and no proof returns.  *)
Kept ==
  /\ Version \in Nat /\ Version' \in Nat /\ Version <= Version'
  /\ \A v \in 1..Version : postures'[v] = postures[v]
  /\ CurrentTransition \in Nat /\ CurrentTransition' \in Nat
  /\ CurrentTransition <= CurrentTransition'
  /\ \A i \in 1..CurrentTransition : transitions'[i] = transitions[i]
  /\ Len(authorizations) \in Nat /\ Len(authorizations)' \in Nat
  /\ Len(authorizations) <= Len(authorizations)'
  /\ \A i \in 1..Len(authorizations) : authorizations'[i] = authorizations[i]
  /\ proofs' \subseteq proofs

LEMMA NothingRemoved ==
  ASSUME TypeInv, [Next]_vars
  PROVE  Kept
<1>1. /\ Version \in Nat /\ CurrentTransition \in Nat
      /\ Len(authorizations) \in Nat
  BY Counters DEF TypeInv
<1>2. CASE Evaluate
  <2>1. UNCHANGED <<postures, authorizations, proofs>>
    BY <1>2 DEF Evaluate
  <2>. QED
    BY <1>1, <1>2, <2>1, TransitionsGrow DEF Kept, Version
<1>3. ASSUME NEW type \in ActionTypes, PostureTaken(type) PROVE Kept
  <2>1. UNCHANGED <<transitions, authorizations, proofs>>
    BY <1>3 DEF PostureTaken
  <2>. QED
    BY <1>1, <1>3, <2>1, PosturesGrow DEF Kept, CurrentTransition
<1>4. ASSUME NEW r \in Requests, Authorize(r) PROVE Kept
  <2>1. UNCHANGED <<postures, transitions>> /\ proofs' \subseteq proofs
    BY <1>4 DEF Authorize, Consume
  <2>. QED
    BY <1>1, <1>4, <2>1, AuthorizationsGrow
    DEF Kept, Version, CurrentTransition
<1>5. ASSUME \/ Surroundings
             \/ \E r \in Requests : Reads(r) \/ Ends(r)
      PROVE  Kept
  <2>1. UNCHANGED <<postures, transitions, authorizations>>
    BY <1>5 DEF Surroundings, EvidenceAppears, EvidenceClears, ProofExpires,
                Tick, Reads, Load, EvaluateRecovery, Ends, Replay, Deny,
                Crash, vars
  <2>2. proofs' \subseteq proofs
    BY <1>5 DEF Surroundings, EvidenceAppears, EvidenceClears, ProofExpires,
                Tick, Reads, Load, EvaluateRecovery, Ends, Replay, Deny,
                Crash, vars
  <2>. QED
    BY <1>1, <2>1, <2>2 DEF Kept, Version, CurrentTransition
<1>. QED
  BY <1>2, <1>3, <1>4, <1>5, StepKinds

LEMMA TypeInit == Init => TypeInv
<1>. SUFFICES ASSUME Init PROVE TypeInv
  OBVIOUS
<1>1. PICK p \in InitialPostures : postures = <<p>>
  BY DEF Init
<1>2. p \in DefinedPostures
  BY InputsAssumption DEF DefinedPostures
<1>3. postures \in Seq(DefinedPostures) /\ Version = 1
  BY <1>1, <1>2 DEF Version
<1>4. request \in [Requests -> Request]
  BY DEF Init, Request, Phases
<1>5. /\ transitions \in Seq(Transition)
      /\ authorizations \in Seq(Authorization)
  BY EmptySeq DEF Init
<1>6. TypeOK
  <2>1. /\ now \in 0..MaxTime /\ lost \in 0..MaxLost
        /\ sightings \in 0..MaxEvidence
    BY BoundsAssumption DEF Init
  <2>2. evidence \in BOOLEAN /\ proofs \subseteq Proofs
    BY DEF Init
  <2>. QED
    BY <1>3, <1>4, <1>5, <2>1, <2>2 DEF TypeOK, DefinedPostures
<1>7. HeldInv
  BY DEF Init, HeldInv
<1>. QED
  BY <1>3, <1>6, <1>7 DEF TypeInv

LEMMA HeldKept ==
  ASSUME TypeInv, Kept,
         \A r \in Requests :
           \/ request'[r] = request[r]
           \/ request'[r].phase \in {"answered", "refused", "idle"}
           \/ /\ request'[r].phase \in {"loaded", "eligible"} =>
                   /\ request'[r].proof \in Proofs
                   /\ request'[r].version \in 1..Version
                   /\ request'[r].transition \in 1..CurrentTransition
              /\ request'[r].phase = "eligible" =>
                   /\ request'[r].type \in RecoveryTypes
                   /\ request'[r].transition \in 1..CurrentTransition
                   /\ transitions[request'[r].transition].explanation = "ids"
  PROVE  HeldInv'
<1>1. 1..Version \subseteq 1..Version'
  BY DEF Kept
<1>2. 1..CurrentTransition \subseteq 1..CurrentTransition'
  BY DEF Kept
<1>3. \A i \in 1..CurrentTransition : transitions'[i] = transitions[i]
  BY DEF Kept
<1>. QED
  BY <1>1, <1>2, <1>3 DEF TypeInv, HeldInv

LEMMA TypeStep == TypeInv /\ [Next]_vars => TypeInv'
<1>. SUFFICES ASSUME TypeInv, [Next]_vars PROVE TypeInv'
  OBVIOUS
<1>1. Kept
  BY NothingRemoved
<1>2. Version' # 0
  BY <1>1 DEF Kept, TypeInv
<1>3. TypeOK
  BY DEF TypeInv
<1>4. CASE Evaluate
  <2>1. TypeOK'
    BY <1>3, <1>4, TransitionsGrow DEF Evaluate, TypeOK
  <2>2. HeldInv'
    BY <1>1, <1>4, HeldKept DEF Evaluate
  <2>. QED
    BY <1>2, <2>1, <2>2 DEF TypeInv
<1>5. ASSUME NEW type \in ActionTypes, PostureTaken(type) PROVE TypeInv'
  <2>1. TypeOK'
    BY <1>3, <1>5, PosturesGrow DEF PostureTaken, TypeOK, DefinedPostures
  <2>2. HeldInv'
    BY <1>1, <1>5, HeldKept DEF PostureTaken
  <2>. QED
    BY <1>2, <2>1, <2>2 DEF TypeInv
<1>6. ASSUME NEW r \in Requests, Reads(r) PROVE TypeInv'
  <2>1. TypeOK'
    BY <1>3, <1>6, LoadType DEF Reads, Load, EvaluateRecovery, TypeOK
  <2>2. HeldInv'
    BY <1>1, <1>6, LoadType, HeldKept DEF Reads
  <2>. QED
    BY <1>2, <2>1, <2>2 DEF TypeInv
<1>7. ASSUME NEW r \in Requests, Authorize(r) PROVE TypeInv'
  <2>1. /\ lost' \in 0..MaxLost /\ request' \in [Requests -> Request]
        /\ request'[r].phase \in {"answered", "refused", "idle"}
        /\ \A s \in Requests : s # r => request'[s] = request[s]
    BY <1>7, AnswerType DEF Authorize
  <2>2. proofs' \subseteq Proofs
    BY <1>1, <1>3 DEF Kept, TypeOK
  <2>3. TypeOK'
    BY <1>3, <1>7, <2>1, <2>2, AuthorizationsGrow DEF Authorize, TypeOK
  <2>4. HeldInv'
    BY <1>1, <2>1, HeldKept
  <2>. QED
    BY <1>2, <2>3, <2>4 DEF TypeInv
<1>8. ASSUME NEW r \in Requests, Ends(r) PROVE TypeInv'
  <2>1. /\ lost' \in 0..MaxLost /\ request' \in [Requests -> Request]
        /\ request'[r].phase \in {"answered", "refused", "idle"}
        /\ \A s \in Requests : s # r => request'[s] = request[s]
    BY <1>8, AnswerType DEF Ends, Replay, Deny
  <2>2. UNCHANGED <<now, postures, transitions, evidence, sightings, proofs,
                    authorizations>>
    BY <1>8 DEF Ends, Replay, Deny, Crash
  <2>3. TypeOK'
    BY <1>3, <2>1, <2>2 DEF TypeOK
  <2>4. HeldInv'
    BY <1>1, <2>1, HeldKept
  <2>. QED
    BY <1>2, <2>3, <2>4 DEF TypeInv
<1>9. CASE Surroundings
  <2>1. UNCHANGED <<lost, postures, transitions, authorizations, request>>
    BY <1>9 DEF Surroundings, EvidenceAppears, EvidenceClears, ProofExpires,
                Tick, vars
  <2>2. now' \in 0..MaxTime
    <3>1. \/ now' = now
          \/ now < MaxTime /\ now' = now + 1
      BY <1>9 DEF Surroundings, EvidenceAppears, EvidenceClears, ProofExpires,
                  Tick, vars
    <3>. QED
      BY <1>3, <3>1, BoundsAssumption DEF TypeOK
  <2>3. /\ evidence' \in BOOLEAN /\ sightings' \in 0..MaxEvidence
    <3>1. \/ UNCHANGED <<evidence, sightings>>
          \/ evidence' = FALSE /\ UNCHANGED sightings
          \/ /\ evidence' = TRUE
             /\ sightings < MaxEvidence /\ sightings' = sightings + 1
      BY <1>9 DEF Surroundings, EvidenceAppears, EvidenceClears, ProofExpires,
                  Tick, vars
    <3>2. sightings' \in 0..MaxEvidence
      BY <1>3, <3>1, BoundsAssumption DEF TypeOK
    <3>. QED
      BY <1>3, <3>1, <3>2 DEF TypeOK
  <2>4. proofs' \subseteq Proofs
    BY <1>1, <1>3 DEF Kept, TypeOK
  <2>5. TypeOK'
    BY <1>3, <2>1, <2>2, <2>3, <2>4 DEF TypeOK
  <2>6. HeldInv'
    BY <1>1, <2>1, HeldKept
  <2>. QED
    BY <1>2, <2>5, <2>6 DEF TypeInv
<1>. QED
  BY <1>4, <1>5, <1>6, <1>7, <1>8, <1>9, StepKinds

(* The tables, what a request holds and the clock have values of their     *)
(* types, and a target is never left in a posture that the JavaScript      *)
(* validator refuses (defineSecurityActionState).                          *)
THEOREM TypeCorrect == Spec => []TypeOK
<1>1. TypeInv => TypeOK
  BY DEF TypeInv
<1>. QED
  BY <1>1, TypeInit, TypeStep, PTL DEF Spec

----------------------------------------------------------------------------
(* The histories are justified *)

LEMMA RecoveryInit == Init => RecoveryInv
<1>. SUFFICES ASSUME Init PROVE RecoveryInv
  OBVIOUS
<1>1. TypeInv
  BY TypeInit
<1>2. /\ CurrentTransition = 0 /\ Len(authorizations) = 0
      /\ DOMAIN authorizations = {} /\ 1..0 = {}
  BY EmptySeq DEF Init, CurrentTransition
<1>3. StreaksInv /\ AcceptedInv /\ AuthorizedOnce
  BY <1>2 DEF StreaksInv, AcceptedInv, AuthorizedOnce
<1>4. Version = 1
  BY DEF Init, Version
<1>5. StagesInv
  <2>1. ASSUME NEW v \in 1..Version, NEW w \in 1..Version PROVE StageAt(v, w)
    <3>1. v = w
      BY <1>4, <2>1
    <3>. QED
      BY <3>1 DEF StageAt
  <2>. QED
    BY <2>1 DEF StagesInv
<1>. QED
  BY <1>1, <1>3, <1>5 DEF RecoveryInv

LEMMA StreaksStep == RecoveryInv /\ [Next]_vars => StreaksInv'
<1>. SUFFICES ASSUME RecoveryInv, [Next]_vars PROVE StreaksInv'
  OBVIOUS
<1>1. TypeInv /\ CurrentTransition \in Nat
  BY Counters DEF RecoveryInv, TypeInv
<1>2. CASE Evaluate
  <2>1. /\ CurrentTransition' = CurrentTransition + 1
        /\ \A i \in 1..CurrentTransition : transitions'[i] = transitions[i]
        /\ LET t == transitions'[CurrentTransition + 1]
           IN  Counts(ControlAt(CurrentTransition), t.sources, t.after,
                      t.kind, t.eligible)
    BY <1>1, <1>2, TransitionsGrow
  <2>2. \A i \in 0..CurrentTransition : ControlAt(i)' = ControlAt(i)
    BY <1>1, <2>1 DEF ControlAt
  <2>3. ASSUME NEW i \in 1..CurrentTransition'
        PROVE  Counts(ControlAt(i - 1)', transitions'[i].sources,
                      transitions'[i].after, transitions'[i].kind,
                      transitions'[i].eligible)
    <3>1. CASE i \in 1..CurrentTransition
      <4>1. ControlAt(i - 1)' = ControlAt(i - 1)
            /\ transitions'[i] = transitions[i]
        BY <1>1, <2>1, <2>2, <3>1
      <4>. QED
        BY <3>1, <4>1 DEF RecoveryInv, StreaksInv
    <3>2. CASE i = CurrentTransition + 1
      <4>1. ControlAt(i - 1)' = ControlAt(CurrentTransition)
        BY <1>1, <2>2, <3>2
      <4>. QED
        BY <2>1, <3>2, <4>1
    <3>. QED
      BY <1>1, <2>1, <3>1, <3>2
  <2>4. ASSUME NEW i \in 1..CurrentTransition'
        PROVE  Counts(ControlAt(i - 1), transitions[i].sources,
                      transitions[i].after, transitions[i].kind,
                      transitions[i].eligible)'
    BY <2>3 DEF Counts
  <2>. QED
    BY <2>4 DEF StreaksInv
<1>3. CASE UNCHANGED transitions
  BY <1>3 DEF RecoveryInv, StreaksInv, Counts, ControlAt, CurrentTransition
<1>4. Evaluate \/ UNCHANGED transitions
  <2>1. \A type \in ActionTypes : PostureTaken(type) => UNCHANGED transitions
    BY DEF PostureTaken
  <2>2. \A r \in Requests :
          Reads(r) \/ Authorize(r) \/ Ends(r) => UNCHANGED transitions
    BY DEF Reads, Load, EvaluateRecovery, Authorize, Ends, Replay, Deny, Crash
  <2>3. Surroundings => UNCHANGED transitions
    BY DEF Surroundings, EvidenceAppears, EvidenceClears, ProofExpires, Tick,
           vars
  <2>. QED
    BY <1>1, <2>1, <2>2, <2>3, StepKinds
<1>. QED
  BY <1>2, <1>3, <1>4

(* Only Authorize adds to the authorizations.                              *)
LEMMA AuthorizationsChange ==
  ASSUME TypeInv, [Next]_vars
  PROVE  \/ \E r \in Requests : Authorize(r)
         \/ UNCHANGED authorizations
<1>1. \A type \in ActionTypes : PostureTaken(type) => UNCHANGED authorizations
  BY DEF PostureTaken
<1>2. \A r \in Requests : Reads(r) \/ Ends(r) => UNCHANGED authorizations
  BY DEF Reads, Load, EvaluateRecovery, Ends, Replay, Deny, Crash
<1>3. Surroundings => UNCHANGED authorizations
  BY DEF Surroundings, EvidenceAppears, EvidenceClears, ProofExpires, Tick,
         vars
<1>4. Evaluate => UNCHANGED authorizations
  BY DEF Evaluate
<1>. QED
  BY <1>1, <1>2, <1>3, <1>4, StepKinds

LEMMA AcceptedKept ==
  ASSUME TypeInv, Kept, NEW a \in Authorization, Accepted(a)
  PROVE  Accepted(a)'
<1>1. /\ a.version \in 1..Version' /\ a.transition \in 1..CurrentTransition'
      /\ postures'[a.version] = postures[a.version]
      /\ transitions'[a.transition] = transitions[a.transition]
      /\ a.proof \notin proofs'
  BY DEF Kept, Accepted
<1>. QED
  BY <1>1 DEF Accepted

(* What is asked is accepted for the posture and the transition that the   *)
(* service had read, for they have not changed, and spends the proof.      *)
LEMMA AskedAccepted ==
  ASSUME TypeInv, NEW r \in Requests, Authorize(r), NEW a,
         a = AskedAuthorization(r)
  PROVE  Accepted(a)'
<1>1. /\ a.version = Version /\ a.transition = CurrentTransition
      /\ a.request = r /\ a.type = request[r].type
      /\ a.at = request[r].at /\ a.proof = request[r].proof
  BY DEF Authorize, Authorizable, StateUnchanged, AskedAuthorization
<1>2. /\ request[r].version \in 1..Version
      /\ request[r].transition \in 1..CurrentTransition
      /\ transitions[request[r].transition].explanation = "ids"
      /\ request[r] \in Request
  BY DEF Authorize, TypeInv, TypeOK, HeldInv
<1>3. /\ CurrentPosture = postures[a.version]
      /\ request[r].transition = a.transition
      /\ request[r].version = a.version
  BY <1>1 DEF CurrentPosture, Authorize, Authorizable, StateUnchanged
<1>4. /\ TrustAccepted(postures[a.version], transitions[a.transition])
      /\ a.at \in transitions[a.transition].evaluatedAt
                    ..(transitions[a.transition].evaluatedAt + 1)
      /\ ConditionsAccepted(postures[a.version], a.type,
                            a.request \in Resolved)
  BY <1>1, <1>3 DEF Authorize, Authorizable
<1>5. transitions[a.transition].evaluatedAt \in Nat
  <2>1. transitions[a.transition] \in Transition
    BY <1>2, <1>3, Counters DEF TypeInv
  <2>. QED
    BY <2>1 DEF Transition
<1>6. a.at - transitions[a.transition].evaluatedAt \in 0..1
  BY <1>4, <1>5
<1>7. a.proof \notin proofs'
  BY <1>1 DEF Authorize, Consume
<1>8. UNCHANGED <<postures, transitions>>
  BY DEF Authorize
<1>9. /\ a.version \in 1..Version' /\ a.transition \in 1..CurrentTransition'
      /\ postures'[a.version] = postures[a.version]
      /\ transitions'[a.transition] = transitions[a.transition]
  BY <1>2, <1>3, <1>8 DEF Version, CurrentTransition
<1>10. transitions[a.transition].explanation = "ids"
  BY <1>2, <1>3
<1>. QED
  BY <1>4, <1>6, <1>7, <1>9, <1>10 DEF Accepted

LEMMA AcceptedStep == RecoveryInv /\ [Next]_vars => AcceptedInv'
<1>. SUFFICES ASSUME RecoveryInv, [Next]_vars,
                     NEW i \in 1..Len(authorizations')
              PROVE  Accepted(authorizations[i])'
  BY DEF AcceptedInv
<1>1. TypeInv /\ Kept
  BY NothingRemoved DEF RecoveryInv
<1>2. CASE i \in 1..Len(authorizations)
  <2>1. PICK a \in Authorization : a = authorizations[i]
    BY <1>1, <1>2, Counters DEF TypeInv
  <2>2. authorizations'[i] = a
    BY <1>1, <1>2, <2>1 DEF Kept
  <2>3. Accepted(a)
    BY <1>2, <2>1 DEF RecoveryInv, AcceptedInv
  <2>4. Accepted(a)'
    BY <1>1, <2>3, AcceptedKept
  <2>. QED
    BY <2>2, <2>4
<1>3. CASE i \notin 1..Len(authorizations)
  <2>1. PICK r \in Requests : Authorize(r)
    BY <1>1, <1>3, AuthorizationsChange
  <2>2. authorizations'[i] = AskedAuthorization(r)
    BY <1>1, <1>3, <2>1, AuthorizationsGrow DEF Kept
  <2>3. PICK a : a = AskedAuthorization(r)
    OBVIOUS
  <2>4. Accepted(a)'
    BY <1>1, <2>1, <2>3, AskedAccepted
  <2>. QED
    BY <2>2, <2>3, <2>4
<1>. QED
  BY <1>2, <1>3

(* A new authorization has a request and a proof that no other has.        *)
LEMMA OnceStep == RecoveryInv /\ [Next]_vars => AuthorizedOnce'
<1>. SUFFICES ASSUME RecoveryInv, [Next]_vars PROVE AuthorizedOnce'
  OBVIOUS
<1>1. TypeInv /\ AuthorizedOnce /\ AcceptedInv
  BY DEF RecoveryInv
<1>2. CASE UNCHANGED authorizations
  BY <1>1, <1>2 DEF AuthorizedOnce
<1>3. ASSUME NEW r \in Requests, Authorize(r) PROVE AuthorizedOnce'
  <2>1. /\ authorizations' \in Seq(Authorization)
        /\ Len(authorizations') = Len(authorizations) + 1
        /\ \A i \in 1..Len(authorizations) :
             authorizations'[i] = authorizations[i]
        /\ authorizations'[Len(authorizations) + 1] = AskedAuthorization(r)
    BY <1>1, <1>3, AuthorizationsGrow
  <2>2. /\ DOMAIN authorizations' = 1..(Len(authorizations) + 1)
        /\ DOMAIN authorizations = 1..Len(authorizations)
        /\ Len(authorizations) \in Nat
    BY <1>1, <2>1, Counters, LenProperties DEF TypeInv
  <2>3. \A i \in DOMAIN authorizations :
          /\ authorizations[i].request # r
          /\ authorizations[i].proof # request[r].proof
    <3>1. ASSUME NEW i \in DOMAIN authorizations
          PROVE  authorizations[i].request # r
      BY <1>3 DEF Authorize, FindAuthorization, AuthorizationsOf
    <3>2. ASSUME NEW i \in DOMAIN authorizations
          PROVE  authorizations[i].proof \notin proofs
      BY <1>1, <2>2, <3>2 DEF AcceptedInv, Accepted
    <3>3. request[r].proof \in proofs
      BY <1>3 DEF Authorize, Authorizable
    <3>. QED
      BY <3>1, <3>2, <3>3
  <2>4. /\ AskedAuthorization(r).request = r
        /\ AskedAuthorization(r).proof = request[r].proof
    BY DEF AskedAuthorization
  <2>5. ASSUME NEW i \in DOMAIN authorizations', NEW j \in DOMAIN authorizations',
               \/ authorizations'[i].request = authorizations'[j].request
               \/ authorizations'[i].proof = authorizations'[j].proof
        PROVE  i = j
    <3>1. CASE i \in DOMAIN authorizations /\ j \in DOMAIN authorizations
      BY <1>1, <2>1, <2>2, <2>5, <3>1 DEF AuthorizedOnce
    <3>2. CASE i \in DOMAIN authorizations /\ j = Len(authorizations) + 1
      BY <2>1, <2>2, <2>3, <2>4, <2>5, <3>2
    <3>3. CASE j \in DOMAIN authorizations /\ i = Len(authorizations) + 1
      BY <2>1, <2>2, <2>3, <2>4, <2>5, <3>3
    <3>. QED
      BY <2>2, <3>1, <3>2, <3>3
  <2>. QED
    BY <2>5 DEF AuthorizedOnce
<1>. QED
  BY <1>1, <1>2, <1>3, AuthorizationsChange

----------------------------------------------------------------------------
(* The stages of a recovery *)

LEMMA StagesKept ==
  ASSUME TypeInv, Kept, NEW v \in 1..Version, NEW w \in 1..Version,
         StageAt(v, w)
  PROVE  StageAt(v, w)'
<1>1. postures'[v] = postures[v] /\ postures'[w] = postures[w]
  BY DEF Kept
<1>2. /\ 1..Len(authorizations) \subseteq 1..Len(authorizations')
      /\ \A i \in 1..Len(authorizations) :
           authorizations'[i] = authorizations[i]
  BY DEF Kept
<1>3. Replaced(v, w) => Replaced(v, w)'
  BY <1>2 DEF Replaced
<1>4. Restored(v, w) => Restored(v, w)'
  BY <1>2 DEF Restored
<1>. QED
  BY <1>1, <1>3, <1>4 DEF StageAt

(* A stage that was recorded by version w was recorded by version w + 1.   *)
LEMMA StagesLater ==
  ASSUME TypeInv, NEW v \in Nat, NEW w \in Nat
  PROVE  /\ Replaced(v, w) => Replaced(v, w + 1)
         /\ Restored(v, w) => Restored(v, w + 1)
<1>1. v..(w - 1) \subseteq v..((w + 1) - 1)
  OBVIOUS
<1>2. \A i \in 1..Len(authorizations) :
        (authorizations[i].version + 1)..(w - 1)
          \subseteq (authorizations[i].version + 1)..((w + 1) - 1)
  <2>1. \A i \in 1..Len(authorizations) : authorizations[i].version \in Nat
    BY Counters DEF TypeInv, Authorization
  <2>. QED
    BY <2>1
<1>. QED
  BY <1>1, <1>2 DEF Replaced, Restored

(* The stage that a transition of the posture leads to.                    *)
LEMMA StageTaken ==
  ASSUME RecoveryInv, [Next]_vars, NEW type \in ActionTypes,
         PostureTaken(type), NEW v \in 1..Version,
         NEW w, w = Version + 1
  PROVE  StageAt(v, w)'
<1>. DEFINE p == CurrentPosture
            next == TransitionState(p, type)
<1>1. TypeInv /\ Version \in Nat /\ Version \in 1..Version
  BY Counters DEF RecoveryInv, TypeInv
<1>2. /\ postures'[v] = postures[v] /\ postures'[Version + 1] = next
      /\ UNCHANGED authorizations
  BY <1>1, PosturesGrow DEF PostureTaken
<1>3. p \in Posture /\ p = postures[Version]
  BY <1>1, Counters DEF TypeInv, DefinedPostures, CurrentPosture
<1>4. /\ p.access # "normal" /\ next.access = "normal"
           => type = "restore-access"
      /\ p.replacement = "required" =>
           /\ p.access # "normal" /\ type # "restore-access"
           /\ \/ next.replacement = "required"
              \/ /\ next.replacement = "issued"
                 /\ type = "issue-replacement-certificate"
      /\ p.replacement = "issued" => next.replacement = "issued"
  BY <1>3, NextPosture DEF PostureTaken
<1>. HIDE DEF next, p
<1>5. type \in RecoveryTypes =>
        \E i \in 1..Len(authorizations) :
          authorizations[i].type = type /\ authorizations[i].version = Version
  BY DEF PostureTaken
<1>6. StageAt(v, Version)
  BY <1>1 DEF RecoveryInv, StagesInv
<1>7. ASSUME postures[v].replacement = "required"
      PROVE  \/ next.replacement = "required"
             \/ /\ next.replacement = "issued"
                /\ Replaced(v, Version + 1)
                /\ next.access = "normal" => Restored(v, Version + 1)
  <2>1. CASE p.replacement = "required" /\ next.replacement = "issued"
    <3>1. PICK i \in 1..Len(authorizations) :
            /\ authorizations[i].type = "issue-replacement-certificate"
            /\ authorizations[i].version = Version
      BY <1>4, <1>5, <2>1 DEF RecoveryTypes
    <3>2. Version \in v..((Version + 1) - 1)
      BY <1>1
    <3>3. Replaced(v, Version + 1)
      BY <3>1, <3>2 DEF Replaced
    <3>4. next.access # "normal"
      BY <1>4, <2>1
    <3>. QED
      BY <2>1, <3>3, <3>4
  <2>2. CASE p.replacement = "issued" /\ Replaced(v, Version)
    <3>1. next.replacement = "issued" /\ Replaced(v, Version + 1)
      BY <1>1, <1>4, <2>2, StagesLater
    <3>2. CASE p.access = "normal"
      <4>1. Restored(v, Version)
        BY <1>3, <1>6, <1>7, <2>2, <3>2 DEF StageAt
      <4>. QED
        BY <1>1, <3>1, <4>1, StagesLater
    <3>3. CASE p.access # "normal" /\ next.access = "normal"
      <4>1. PICK j \in 1..Len(authorizations) :
              /\ authorizations[j].type = "restore-access"
              /\ authorizations[j].version = Version
        BY <1>4, <1>5, <3>3 DEF RecoveryTypes
      <4>2. PICK i \in 1..Len(authorizations) :
              /\ authorizations[i].type = "issue-replacement-certificate"
              /\ authorizations[i].version \in v..(Version - 1)
        BY <2>2 DEF Replaced
      <4>3. /\ authorizations[i].version \in v..((Version + 1) - 1)
            /\ Version \in (authorizations[i].version + 1)..((Version + 1) - 1)
        BY <1>1, <4>2
      <4>4. Restored(v, Version + 1)
        BY <4>1, <4>2, <4>3 DEF Restored
      <4>. QED
        BY <3>1, <4>4
    <3>. QED
      BY <3>1, <3>2, <3>3
  <2>. QED
    BY <1>3, <1>4, <1>6, <1>7, <2>1, <2>2 DEF StageAt
<1>8. /\ Replaced(v, w) => Replaced(v, w)'
      /\ Restored(v, w) => Restored(v, w)'
  BY <1>2 DEF Replaced, Restored
<1>. QED
  BY <1>2, <1>7, <1>8 DEF StageAt

LEMMA PosturesChange ==
  ASSUME TypeInv, [Next]_vars
  PROVE  \/ \E type \in ActionTypes : PostureTaken(type)
         \/ UNCHANGED postures
<1>1. \A r \in Requests :
        Reads(r) \/ Authorize(r) \/ Ends(r) => UNCHANGED postures
  BY DEF Reads, Load, EvaluateRecovery, Authorize, Ends, Replay, Deny, Crash
<1>2. Surroundings => UNCHANGED postures
  BY DEF Surroundings, EvidenceAppears, EvidenceClears, ProofExpires, Tick,
         vars
<1>3. Evaluate => UNCHANGED postures
  BY DEF Evaluate
<1>. QED
  BY <1>1, <1>2, <1>3, StepKinds

LEMMA StagesStep == RecoveryInv /\ [Next]_vars => StagesInv'
<1>. SUFFICES ASSUME RecoveryInv, [Next]_vars,
                     NEW v \in 1..Version', NEW w \in 1..Version', v <= w
              PROVE  StageAt(v, w)'
  BY DEF StagesInv
<1>1. TypeInv /\ Kept
  BY NothingRemoved DEF RecoveryInv
<1>2. CASE w \in 1..Version
  <2>1. v \in 1..Version
    BY <1>1, <1>2 DEF Kept
  <2>. QED
    BY <1>1, <1>2, <2>1, StagesKept DEF RecoveryInv, StagesInv
<1>3. CASE w \notin 1..Version
  <2>1. PICK type \in ActionTypes : PostureTaken(type)
    BY <1>1, <1>3, PosturesChange DEF Version
  <2>2. w = Version + 1
    BY <1>1, <1>3, <2>1, PosturesGrow DEF Kept
  <2>3. CASE v = w
    BY <2>3 DEF StageAt
  <2>4. CASE v # w
    <3>1. v \in 1..Version
      BY <1>1, <2>2, <2>4 DEF Kept
    <3>. QED
      BY <2>1, <2>2, <3>1, StageTaken
  <2>. QED
    BY <2>3, <2>4
<1>. QED
  BY <1>2, <1>3

LEMMA RecoveryStep == RecoveryInv /\ [Next]_vars => RecoveryInv'
<1>. SUFFICES ASSUME RecoveryInv, [Next]_vars PROVE RecoveryInv'
  OBVIOUS
<1>. QED
  BY TypeStep, StreaksStep, AcceptedStep, OnceStep, StagesStep DEF RecoveryInv

LEMMA RecoveryInvariant == Spec => []RecoveryInv
BY RecoveryInit, RecoveryStep, PTL DEF Spec

----------------------------------------------------------------------------
(* The properties *)

(* A recovered transition follows one that counted, in the same band.      *)
LEMMA RecoveredTwice ==
  ASSUME RecoveryInv, NEW i \in 1..CurrentTransition,
         transitions[i].kind = "recovered"
  PROVE  /\ i > 1
         /\ transitions[i].eligible
         /\ \A j \in {i - 1, i} :
              /\ transitions[j].sources >= RequiredSources
              /\ transitions[j].after.score >=
                   RecoveryThreshold(transitions[i - 1].after.band)
<1>1. CurrentTransition \in Nat
  BY Counters DEF RecoveryInv, TypeInv
<1>2. /\ transitions[i].eligible
      /\ transitions[i].sources >= RequiredSources
      /\ transitions[i].after.score >= RecoveryThreshold(ControlAt(i - 1).band)
      /\ ControlAt(i - 1).streak > 0
  BY DEF RecoveryInv, StreaksInv, Counts
<1>3. i > 1
  <2>1. InitialControl.streak = 0
    BY DEF InitialControl
  <2>2. i # 1
    BY <1>2, <2>1 DEF ControlAt
  <2>. QED
    BY <1>1, <2>2
<1>4. /\ i - 1 \in 1..CurrentTransition
      /\ ControlAt(i - 1) = transitions[i - 1].after
  BY <1>1, <1>3 DEF ControlAt
<1>5. /\ transitions[i - 1].sources >= RequiredSources
      /\ transitions[i - 1].after.score
           >= RecoveryThreshold(transitions[i - 1].after.band)
  <2>1. transitions[i - 1].after.streak > 0
    BY <1>2, <1>4
  <2>. QED
    BY <1>4, <2>1 DEF RecoveryInv, StreaksInv, Counts
<1>. QED
  BY <1>2, <1>3, <1>4, <1>5

(* Every recorded authorization rests on the posture of the version it     *)
(* names and on a trust that recovered no more than five minutes before    *)
(* the request, through two corroborated evaluations in a row              *)
(* (authorize_security_recovery), whatever evaluations, protective actions *)
(* and other requests came between what the service read and what it asked.*)
THEOREM Justified == Spec => []AuthorizationJustified
<1>1. ASSUME RecoveryInv PROVE AuthorizationJustified
  <2>. SUFFICES ASSUME NEW k \in DOMAIN authorizations
                PROVE  LET a == authorizations[k]
                           p == postures[a.version]
                           t == transitions[a.transition]
                       IN  /\ t.kind = "recovered"
                           /\ a.at - t.evaluatedAt \in 0..1
                           /\ a.transition > 1
                           /\ \A j \in {a.transition - 1, a.transition} :
                                /\ transitions[j].sources >= RequiredSources
                                /\ transitions[j].after.score >=
                                     RecoveryThreshold(
                                       transitions[a.transition - 1].after.band)
                           /\ BandSuffices(p, t.after.band)
                           /\ RecoveryConditionsMet(p, a.type)
    BY DEF AuthorizationJustified
  <2>. DEFINE a == authorizations[k]
              p == postures[a.version]
              t == transitions[a.transition]
  <2>1. a \in Authorization /\ Accepted(a)
    BY <1>1, Counters DEF RecoveryInv, TypeInv, AcceptedInv
  <2>2. /\ t.kind = "recovered" /\ a.at - t.evaluatedAt \in 0..1
        /\ a.transition \in 1..CurrentTransition
    BY <2>1 DEF Accepted, TrustAccepted
  <2>3. BandSuffices(p, t.after.band)
    BY <2>1 DEF Accepted, TrustAccepted, Strict, BandSuffices
  <2>4. RecoveryConditionsMet(p, a.type)
    BY <2>1 DEF Accepted, ConditionsAccepted, RecoveryConditionsMet,
                Authorization, RecoveryTypes
  <2>. QED
    BY <1>1, <2>2, <2>3, <2>4, RecoveredTwice
<1>. QED
  BY <1>1, RecoveryInvariant, PTL

(* Requests that were sent again, and requests that share a step-up proof, *)
(* make at most one authorization between them (the idempotency key and    *)
(* consume_step_up_proof).                                                 *)
THEOREM OneAuthorization == Spec => []AuthorizedOnce
<1>1. RecoveryInv => AuthorizedOnce
  BY DEF RecoveryInv
<1>. QED
  BY <1>1, RecoveryInvariant, PTL

(* A target that was revoked has normal access again only after a          *)
(* replacement and then a restoration were authorized, for different       *)
(* postures and with different proofs, neither before the revocation.      *)
THEOREM TwoStages == Spec => []TwoStageRecovery
<1>1. ASSUME RecoveryInv PROVE TwoStageRecovery
  <2>1. DOMAIN authorizations = 1..Len(authorizations)
        /\ DOMAIN postures = 1..Version
    BY <1>1, Counters, LenProperties DEF RecoveryInv, TypeInv, TypeOK, Version
  <2>. SUFFICES ASSUME NEW v \in 1..Version, NEW w \in 1..Version, v < w,
                       postures[v].replacement = "required",
                       postures[w].access = "normal"
                PROVE  \E i, j \in DOMAIN authorizations :
                         /\ authorizations[i].type
                              = "issue-replacement-certificate"
                         /\ authorizations[j].type = "restore-access"
                         /\ authorizations[i].version \in v..(w - 1)
                         /\ authorizations[j].version
                              \in (authorizations[i].version + 1)..(w - 1)
                         /\ authorizations[i].proof # authorizations[j].proof
    BY <2>1 DEF TwoStageRecovery
  <2>2. StageAt(v, w)
    BY <1>1 DEF RecoveryInv, StagesInv
  <2>3. postures[w].replacement # "required"
    <3>1. postures[w] \in DefinedPostures
      BY <1>1, Counters DEF RecoveryInv, TypeInv
    <3>. QED
      BY <3>1 DEF DefinedPostures, DefinedState
  <2>4. Restored(v, w)
    BY <2>2, <2>3 DEF StageAt
  <2>5. PICK i, j \in DOMAIN authorizations :
          /\ authorizations[i].type = "issue-replacement-certificate"
          /\ authorizations[j].type = "restore-access"
          /\ authorizations[i].version \in v..(w - 1)
          /\ authorizations[j].version
               \in (authorizations[i].version + 1)..(w - 1)
    BY <2>1, <2>4 DEF Restored
  <2>6. authorizations[i].proof # authorizations[j].proof
    BY <1>1, <2>5 DEF RecoveryInv, AuthorizedOnce
  <2>. QED
    BY <2>5, <2>6
<1>. QED
  BY <1>1, RecoveryInvariant, PTL

(* Whatever the service (recoveryTrustReady) and the function              *)
(* authorize_security_recovery both accept, at different times, rests on a *)
(* transition whose explanation lists its distinct sources.                *)
THEOREM SourcesListed == Spec => []AuthorizationListsSources
<1>1. ASSUME RecoveryInv PROVE AuthorizationListsSources
  BY <1>1, Counters
     DEF RecoveryInv, TypeInv, AcceptedInv, Accepted, AuthorizationListsSources
<1>. QED
  BY <1>1, RecoveryInvariant, PTL

(* With the explanations the trust engine writes, which count the sources  *)
(* (trust-transition-controls.mjs, transition-explanation.mjs), nothing is *)
(* ever authorized: no trust and no sequence of requests recovers a target.*)
THEOREM EngineRecoversNothing ==
  Explanations = {"count"} => (Spec => [](authorizations = <<>>))
<1>. SUFFICES ASSUME Explanations = {"count"}
              PROVE  Spec => [](authorizations = <<>>)
  OBVIOUS
<1>1. ASSUME RecoveryInv PROVE authorizations = <<>>
  <2>1. authorizations \in Seq(Authorization) /\ Len(authorizations) \in Nat
    BY <1>1, Counters DEF RecoveryInv, TypeInv, TypeOK
  <2>2. CASE Len(authorizations) = 0
    BY <2>1, <2>2, EmptySeq
  <2>3. CASE Len(authorizations) # 0
    <3>1. Accepted(authorizations[1])
      BY <1>1, <2>1, <2>3 DEF RecoveryInv, AcceptedInv
    <3>. DEFINE t == transitions[authorizations[1].transition]
    <3>2. t \in Transition /\ t.explanation = "ids"
      BY <1>1, <3>1, Counters DEF RecoveryInv, TypeInv, Accepted
    <3>. QED
      BY <3>2 DEF Transition
  <2>. QED
    BY <2>2, <2>3
<1>. QED
  BY <1>1, RecoveryInvariant, PTL

----------------------------------------------------------------------------
(* What severe evidence calls for (ActionTriggers) *)

(* Evidence comes in lists, and the scores to try are scores.              *)
TriggersGiven ==
  /\ IsFiniteSet(SevereEvidence)
  /\ TriggerScores \subseteq Scores

(* A band that an evaluation leaves is supported by its score.             *)
LEMMA OrdinarySupported ==
  ASSUME NEW c \in Control, NEW candidate \in Scores, NEW basis \in Bases
  PROVE  LET result == Ordinary(c, candidate, basis)
         IN  /\ result.kind # "critical-override"
             /\ result.band \in {"high", "medium"} =>
                  result.score >= DeteriorationThreshold(result.band)
<1>. DEFINE score     == BoundedScore(c.score, candidate, basis.cap)
            qualifies == Qualifies(c.band, score, basis.sources)
            recovered == qualifies /\ c.streak + 1 >= RequiredStreak
            result    == Ordinary(c, candidate, basis)
<1>1. /\ c.band \in Bands /\ score \in Nat
  BY BoundedScoreType, ScoreRange DEF Control, Bases
<1>2. CASE LowerBand(c.band, score) # c.band
  <2>1. /\ result.score = score /\ result.kind = "deteriorated"
        /\ result.band = LowerBand(c.band, score)
    BY <1>2 DEF Ordinary
  <2>. HIDE DEF result, score
  <2>. QED
    BY <1>1, <1>2, <2>1 DEF LowerBand, DeteriorationThreshold, Bands, Points,
                            result
<1>3. CASE LowerBand(c.band, score) = c.band
  <2>1. /\ result.score = score
        /\ result.kind = IF recovered THEN "recovered" ELSE "held"
        /\ result.band = IF recovered THEN NextBand(c.band) ELSE c.band
    BY <1>3 DEF Ordinary
  <2>2. recovered => c.band # "high" /\ score >= RecoveryThreshold(c.band)
    BY DEF Qualifies
  <2>. HIDE DEF result, score, recovered
  <2>. QED
    BY <1>1, <1>3, <2>1, <2>2
    DEF LowerBand, DeteriorationThreshold, RecoveryThreshold, NextBand, Bands,
        Points, result
<1>. QED
  BY <1>2, <1>3

LEMMA ProducedAccepted ==
  ASSUME TriggersGiven, NEW t \in ProducedTransitions
  PROVE  TransitionAccepted(t)
<1>1. PICK before \in TriggerBefores, candidate \in TriggerScores,
           critical \in CriticalKinds \cup {"none"} :
        t = Produced(before, candidate, critical)
  BY DEF ProducedTransitions
<1>. DEFINE basis == [cap |-> 30, sources |-> 2, critical |-> critical]
            after == Controlled(before, candidate, basis)
<1>2. /\ t.score = after.score /\ t.band = after.band
      /\ t.kind = after.kind /\ t.critical = critical
  BY <1>1 DEF Produced
<1>3. /\ before \in Control /\ candidate \in Scores /\ basis \in Bases
      /\ basis.critical = critical
  BY DEF TriggersGiven, Control, Bases, TriggerBefores
<1>. HIDE DEF basis
<1>4. CASE critical = "none"
  <2>1. after = Ordinary(before, candidate, basis)
    BY <1>3, <1>4 DEF Controlled
  <2>. QED
    BY <1>2, <1>3, <1>4, <2>1, OrdinarySupported DEF TransitionAccepted
<1>5. CASE critical # "none"
  <2>1. /\ after.kind = "critical-override" /\ after.band = "low"
        /\ after.score = Smaller(Smaller(before.score, candidate),
                                 ScoreCeiling(critical))
    BY <1>3, <1>5 DEF Controlled, Overridden
  <2>2. after.score <= ScoreCeiling(critical)
    <3>1. /\ before.score \in Nat /\ candidate \in Nat
          /\ ScoreCeiling(critical) \in Nat
      BY <1>3, ScoreRange DEF Control
    <3>. QED
      BY <2>1, <3>1 DEF Smaller
  <2>. QED
    BY <1>2, <1>5, <2>1, <2>2 DEF TransitionAccepted
<1>. QED
  BY <1>4, <1>5

LEMMA TwoMembers ==
  ASSUME NEW S, IsFiniteSet(S), Cardinality(S) >= 2
  PROVE  \E x, y \in S : x # y
<1>1. S # {}
  BY FS_EmptySet
<1>2. PICK x \in S : TRUE
  BY <1>1
<1>3. CASE \A y \in S : y = x
  <2>1. S = {x}
    BY <1>2, <1>3
  <2>. QED
    BY <2>1, FS_Singleton
<1>. QED
  BY <1>2, <1>3

LEMMA FiniteSummaries ==
  ASSUME NEW severe, IsFiniteSet(severe)
  PROVE  IsFiniteSet(Sources(severe)) /\ IsFiniteSet(KindsOf(severe))
<1>1. [e \in severe |-> e.sourceId] \in Surjection(severe, Sources(severe))
  BY DEF Surjection, Sources
<1>2. [e \in severe |-> e.kind] \in Surjection(severe, KindsOf(severe))
  BY DEF Surjection, KindsOf
<1>. QED
  BY <1>1, <1>2, FS_Surjection

LEMMA MoreCorroborates ==
  ASSUME NEW more, IsFiniteSet(more), NEW less \in SUBSET more, NEW t,
         Corroborated(t, less)
  PROVE  Corroborated(t, more)
<1>1. /\ IsFiniteSet(Sources(more)) /\ Sources(less) \subseteq Sources(more)
      /\ IsFiniteSet(KindsOf(more)) /\ KindsOf(less) \subseteq KindsOf(more)
  BY FiniteSummaries DEF Sources, KindsOf
<1>2. /\ Cardinality(Sources(less)) <= Cardinality(Sources(more))
      /\ Cardinality(KindsOf(less)) <= Cardinality(KindsOf(more))
      /\ Cardinality(Sources(less)) \in Nat /\ Cardinality(KindsOf(less)) \in Nat
      /\ Cardinality(Sources(more)) \in Nat /\ Cardinality(KindsOf(more)) \in Nat
  BY <1>1, FS_Subset, FS_CardinalityType
<1>. QED
  BY <1>1, <1>2 DEF Corroborated, TrustConfirms

(* The posture after a set of actions, field by field, for a target whose  *)
(* certificate is active.                                                  *)
LEMMA AfterFields ==
  ASSUME NEW p \in Posture, DefinedState(p), p.targetCertificate = "active",
         NEW types \in SUBSET ProtectiveTypes
  PROVE  LET s == After(p, types)
         IN  IF "revoke-certificate" \in types
             THEN /\ s.access = "suspended" /\ s.renewal = "blocked"
                  /\ s.targetCertificate = "revoked"
             ELSE /\ s.targetCertificate = "active"
                  /\ s.access =
                       IF "suspend-subject" \in types THEN "suspended"
                       ELSE IF "restrict-access" \in types
                               /\ p.access = "normal"
                       THEN "restricted" ELSE p.access
                  /\ s.renewal =
                       IF \/ "suspend-subject" \in types
                          \/ "block-renewal" \in types
                       THEN "blocked" ELSE p.renewal
<1>. DEFINE Step(s, type) ==
              IF type \in types THEN TransitionState(s, type) ELSE s
            s1 == Step(p, "restrict-access")
            s2 == Step(s1, "suspend-subject")
            s3 == Step(s2, "block-renewal")
            s4 == Step(s3, "revoke-certificate")
<1>1. /\ s1 \in Posture /\ s1.targetCertificate = "active"
      /\ s1.renewal = p.renewal
      /\ s1.access = IF "restrict-access" \in types /\ p.access = "normal"
                     THEN "restricted" ELSE p.access
  BY DEF TransitionState, Posture, AccessStates
<1>. HIDE DEF s1
<1>2. /\ s2 \in Posture /\ s2.targetCertificate = "active"
      /\ s2.renewal = IF "suspend-subject" \in types THEN "blocked"
                      ELSE s1.renewal
      /\ s2.access = IF "suspend-subject" \in types THEN "suspended"
                     ELSE s1.access
  BY <1>1 DEF TransitionState, Posture, AccessStates, RenewalStates
<1>. HIDE DEF s2
<1>3. /\ s3 \in Posture /\ s3.targetCertificate = "active"
      /\ s3.renewal = IF "block-renewal" \in types THEN "blocked"
                      ELSE s2.renewal
      /\ s3.access = s2.access
  BY <1>2 DEF TransitionState, Posture, RenewalStates
<1>. HIDE DEF s3
<1>4. IF "revoke-certificate" \in types
      THEN /\ s4.access = "suspended" /\ s4.renewal = "blocked"
           /\ s4.targetCertificate = "revoked"
      ELSE s4 = s3
  BY <1>3 DEF TransitionState
<1>5. After(p, types) = s4
  BY DEF After, s1, s2, s3
<1>. HIDE DEF s4
<1>. QED
  BY <1>1, <1>2, <1>3, <1>4, <1>5

(* More actions lead to a posture at least as strict.                      *)
LEMMA MoreIsStricter ==
  ASSUME NEW p \in Posture, DefinedState(p), p.targetCertificate = "active",
         NEW types \in SUBSET ProtectiveTypes, NEW fewer \in SUBSET types
  PROVE  AtLeastAsStrict(After(p, types), After(p, fewer))
<1>. DEFINE s == After(p, types)
            f == After(p, fewer)
<1>1. IF "revoke-certificate" \in types
      THEN /\ s.access = "suspended" /\ s.renewal = "blocked"
           /\ s.targetCertificate = "revoked"
      ELSE /\ s.targetCertificate = "active"
           /\ s.access =
                IF "suspend-subject" \in types THEN "suspended"
                ELSE IF "restrict-access" \in types /\ p.access = "normal"
                THEN "restricted" ELSE p.access
           /\ s.renewal =
                IF "suspend-subject" \in types \/ "block-renewal" \in types
                THEN "blocked" ELSE p.renewal
  BY AfterFields
<1>2. IF "revoke-certificate" \in fewer
      THEN /\ f.access = "suspended" /\ f.renewal = "blocked"
           /\ f.targetCertificate = "revoked"
      ELSE /\ f.targetCertificate = "active"
           /\ f.access =
                IF "suspend-subject" \in fewer THEN "suspended"
                ELSE IF "restrict-access" \in fewer /\ p.access = "normal"
                THEN "restricted" ELSE p.access
           /\ f.renewal =
                IF "suspend-subject" \in fewer \/ "block-renewal" \in fewer
                THEN "blocked" ELSE p.renewal
  BY AfterFields
<1>. HIDE DEF s, f
<1>3. p.access \in AccessStates
  BY DEF Posture
<1>4. /\ s.access \in AccessStates /\ f.access \in AccessStates
      /\ \/ s.access = "suspended"
         \/ f.access = "normal"
         \/ s.access = "restricted" /\ f.access = "restricted"
  BY <1>1, <1>2, <1>3 DEF AccessStates
<1>5. AccessRank[s.access] >= AccessRank[f.access]
  BY <1>4 DEF AccessRank, AccessStates
<1>6. f.renewal = "blocked" => s.renewal = "blocked"
  BY <1>1, <1>2
<1>7. f.targetCertificate = "revoked" => s.targetCertificate = "revoked"
  BY <1>1, <1>2
<1>. QED
  BY <1>5, <1>6, <1>7 DEF AtLeastAsStrict, s, f

(* A revocation is stricter than anything that does not ask for one.       *)
LEMMA RevokedIsStrictest ==
  ASSUME NEW p \in Posture, DefinedState(p), p.targetCertificate = "active",
         NEW types \in SUBSET ProtectiveTypes
  PROVE  AtLeastAsStrict(After(p, {"revoke-certificate"}), After(p, types))
<1>. DEFINE s == After(p, {"revoke-certificate"})
            f == After(p, types)
<1>1. /\ s.access = "suspended" /\ s.renewal = "blocked"
      /\ s.targetCertificate = "revoked"
  BY AfterFields DEF ProtectiveTypes, SeverityTypes
<1>2. f.access \in AccessStates
  BY AfterFields DEF Posture, AccessStates
<1>. HIDE DEF s, f
<1>3. AccessRank[s.access] >= AccessRank[f.access]
  BY <1>1, <1>2 DEF AccessRank, AccessStates
<1>. QED
  BY <1>1, <1>3 DEF AtLeastAsStrict, s, f

LEMMA TriggeredTypes ==
  ASSUME NEW decision \in PolicyDecisions, NEW t, NEW severe
  PROVE  /\ TriggeredActions(decision, t, severe) \subseteq ProtectiveTypes
         /\ "revoke-certificate" \in TriggeredActions(decision, t, severe)
              => Corroborated(t, severe)
<1>1. decision.action \in QuarantineTypes \cup {"none"}
  BY DEF PolicyDecisions
<1>. QED
  BY <1>1 DEF TriggeredActions, ProtectiveTypes, QuarantineTypes,
              SeverityTypes

(* Whatever the trust controls hand over is accepted; more severe evidence *)
(* never leads to a milder posture than less evidence, or than the policy's*)
(* own obligation, for a target whose certificate is active; and no        *)
(* evidence revokes a certificate unless two sources, two kinds and the    *)
(* trust of the subject agree (evaluateSecurityActionTriggers).            *)
THEOREM MoreEvidence == TriggersGiven => MoreEvidenceNoWeaker
<1>. SUFFICES ASSUME TriggersGiven,
                     NEW decision \in PolicyDecisions,
                     NEW t \in ProducedTransitions,
                     NEW more \in SUBSET SevereEvidence,
                     NEW p \in Posture, DefinedState(p),
                     p.targetCertificate = "active"
              PROVE  /\ TransitionAccepted(t)
                     /\ \A less \in SUBSET more :
                          AtLeastAsStrict(
                            After(p, TriggeredActions(decision, t, more)),
                            After(p, TriggeredActions(decision, t, less)))
                     /\ "revoke-certificate"
                            \in TriggeredActions(decision, t, more) =>
                          /\ t.score <= Points(20)
                          /\ \E d, e \in more :
                               /\ d.sourceId # e.sourceId
                               /\ \E f, g \in more : f.kind # g.kind
  BY DEF MoreEvidenceNoWeaker
<1>1. TransitionAccepted(t)
  BY ProducedAccepted
<1>2. IsFiniteSet(more)
  BY FS_Subset DEF TriggersGiven
<1>3. ASSUME NEW less \in SUBSET more
      PROVE  AtLeastAsStrict(After(p, TriggeredActions(decision, t, more)),
                             After(p, TriggeredActions(decision, t, less)))
  <2>1. /\ TriggeredActions(decision, t, more) \subseteq ProtectiveTypes
        /\ TriggeredActions(decision, t, less) \subseteq ProtectiveTypes
    BY TriggeredTypes
  <2>2. CASE Corroborated(t, more)
    <3>1. TriggeredActions(decision, t, more) = {"revoke-certificate"}
      BY <2>2 DEF TriggeredActions
    <3>. QED
      BY <2>1, <3>1, RevokedIsStrictest
  <2>3. CASE ~Corroborated(t, more)
    <3>1. ~Corroborated(t, less)
      BY <1>2, <2>3, MoreCorroborates
    <3>2. TriggeredActions(decision, t, less)
            \subseteq TriggeredActions(decision, t, more)
      BY <2>3, <3>1 DEF TriggeredActions
    <3>. QED
      BY <2>1, <3>2, MoreIsStricter
  <2>. QED
    BY <2>2, <2>3
<1>4. ASSUME "revoke-certificate" \in TriggeredActions(decision, t, more)
      PROVE  /\ t.score <= Points(20)
             /\ \E d, e \in more : /\ d.sourceId # e.sourceId
                                   /\ \E f, g \in more : f.kind # g.kind
  <2>1. Corroborated(t, more)
    BY <1>4, TriggeredTypes
  <2>2. /\ \E x, y \in Sources(more) : x # y
        /\ \E x, y \in KindsOf(more) : x # y
    BY <1>2, <2>1, FiniteSummaries, TwoMembers DEF Corroborated
  <2>3. t.score <= Points(20)
    <3>1. PICK before \in TriggerBefores, candidate \in TriggerScores,
               critical \in CriticalKinds \cup {"none"} :
            t = Produced(before, candidate, critical)
      BY DEF ProducedTransitions
    <3>2. t.score \in Scores
      <4>. DEFINE basis == [cap |-> 30, sources |-> 2, critical |-> critical]
      <4>1. before \in Control /\ candidate \in Scores /\ basis \in Bases
        BY DEF TriggersGiven, Control, Bases, TriggerBefores
      <4>. HIDE DEF basis
      <4>2. Controlled(before, candidate, basis).score \in Scores
        BY <4>1, ControlledType
      <4>. QED
        BY <3>1, <4>2 DEF Produced, basis
    <3>3. t.score <= ScoreCeiling(t.critical)
      BY <2>1 DEF Corroborated, TrustConfirms
    <3>4. /\ ScoreCeiling(t.critical) \in Nat
          /\ ScoreCeiling(t.critical) <= Points(20)
      BY DEF ScoreCeiling, Points
    <3>5. t.score \in Nat
      BY <3>2, ScoreRange
    <3>6. Points(20) \in Nat
      BY DEF Points
    <3>. QED
      BY <3>3, <3>4, <3>5, <3>6
  <2>. QED
    BY <2>2, <2>3 DEF Sources, KindsOf
<1>. QED
  BY <1>1, <1>3, <1>4

(* The same as the run states it, beside the requests.                     *)
THEOREM NeverWeakens == TriggersGiven => (Spec => []EvidenceNeverWeakens)
<1>. SUFFICES ASSUME TriggersGiven PROVE Spec => []EvidenceNeverWeakens
  OBVIOUS
<1>1. EvidenceNeverWeakens
  BY MoreEvidence DEF EvidenceNeverWeakens
<1>. QED
  BY <1>1, PTL
=============================================================================
