-------------------------- MODULE TrustTransitions --------------------------
(***************************************************************************)
(* The trust of one subject: its state versions (migration 020), the       *)
(* trust engines that evaluate them (services/trust/src/transition-        *)
(* explanation.mjs) and the transitions they record (migration 023).       *)
(*                                                                         *)
(* An engine reads the current state version and the current transition in *)
(* transactions of their own, evaluates, and records what it computed in a *)
(* third: other engines may store and record in between.                   *)
(*                                                                         *)
(* Simplifications:                                                        *)
(*   - the five components of a state version are their weighted score;    *)
(*     the evidence behind it is its influence cap, the number of its      *)
(*     distinct sources and its critical kind;                             *)
(*   - one active configuration; digests, contributions and references     *)
(*     match what they refer to;                                           *)
(*   - engines and database share a clock;                                 *)
(*   - nothing in the repository calls the engine with the transitions it  *)
(*     recorded, except scripts/verify-adaptive-authorization-scenario.mjs,*)
(*     which passes newState.temporalState on as it is.  Rebase adds a     *)
(*     caller that replaces its score by the controlled one.               *)
(***************************************************************************)
EXTENDS TrustControls, Sequences

CONSTANTS
  Engines,       \* trust engines that evaluate the subject concurrently
  Observations,  \* weighted scores of a state version
  Caps,          \* influence caps of the receipts, in percent
  SourceCounts,  \* numbers of distinct sources behind an evaluation
  Criticals,     \* kinds of critical evidence that may arrive, or "none"
  Rebase,        \* whether a caller may rebase the temporal state
  MaxAge,        \* bound: age of an observation when it is stored
  MaxVersions,   \* bound: state versions
  MaxBacklog,    \* bound: state versions after the last that was evaluated
  MaxTime,       \* bound: last tick
  MaxLost        \* bound: recordings whose answer is lost

ASSUME EvidenceAssumption ==
  /\ Observations \subseteq Scores
  /\ Caps \subseteq 1..100
  /\ SourceCounts \subseteq Nat \ {0}
  /\ Criticals \subseteq CriticalKinds \cup {"none"}
  /\ Rebase \in BOOLEAN
ASSUME BoundsAssumption ==
  /\ MaxAge \in Nat /\ MaxVersions \in Nat /\ MaxBacklog \in Nat
  /\ MaxTime \in Nat /\ MaxLost \in Nat

VARIABLES
  now,         \* the clock
  lost,        \* recordings whose answer was lost
  versions,    \* trust.subject_trust_state_versions, by update_version
  transitions, \* trust.subject_trust_transitions, in the order of recording;
               \* the last is what subject_trust_transition_current points at
  engine       \* each trust engine: what it holds of the database

vars == <<now, lost, versions, transitions, engine>>

Version ==
  [score : Scores, observedAt : Nat, evidence : Evidence]

(* previous is the place of the preceding transition, 0 at a cold start;   *)
(* the previous columns repeat it, except the band "uninitialized", which  *)
(* the place 0 tells.                                                      *)
Transition ==
  [version : Nat \ {0}, previous : Nat, before : Control, after : Control,
   kind : Kinds, eligible : BOOLEAN, evidence : Evidence,
   temporal : Temporal, evaluatedAt : Nat]

(* "reading" has the state version, "ready" the transition before it too.  *)
Idle == [phase |-> "idle"]
Reading == [phase : {"reading"}, version : Nat \ {0}]
Ready == [phase : {"ready"}, version : Nat \ {0}, previous : Nat,
          rebased : BOOLEAN]

TypeOK ==
  /\ now \in 0..MaxTime
  /\ lost \in 0..MaxLost
  /\ versions \in Seq(Version)
  /\ transitions \in Seq(Transition)
  /\ engine \in [Engines -> {Idle} \cup Reading \cup Ready]

----------------------------------------------------------------------------
(* Helpers *)

Current == Len(transitions)

(* What an evaluation starts from: newState of the preceding transition, or*)
(* initializeTrustControlState.                                            *)
ControlBefore(previous) ==
  IF previous = 0 THEN InitialControl ELSE transitions[previous].after

TemporalBefore(e) ==
  IF engine[e].previous = 0 THEN ColdTemporal
  ELSE LET before == transitions[engine[e].previous]
       IN  IF engine[e].rebased
           THEN [before.temporal EXCEPT !.score = before.after.score]
           ELSE before.temporal

(* normalizePrevious: the transition precedes the version, its temporal    *)
(* state has its score, and both parts of it are states of their kind.     *)
PreviousAccepted(e) ==
  LET previous == engine[e].previous
  IN  previous # 0 =>
        /\ transitions[previous].version < engine[e].version
        /\ TemporalBefore(e).score = ControlBefore(previous).score
        /\ ControlAccepted(ControlBefore(previous))

(* The observation of an evaluation can be used, whatever precedes it.     *)
Evaluable(e) ==
  LET observed == versions[engine[e].version]
  IN  SmoothingDefined(TemporalBefore(e), observed.observedAt, now)

(* buildTrustTransitionExplanation, one result for each temporal state the *)
(* decay may end in.                                                       *)
Built(e) ==
  LET observed == versions[engine[e].version]
      before   == ControlBefore(engine[e].previous)
  IN  {LET result == Controlled(before, temporal.score, observed.evidence)
       IN  [version     |-> engine[e].version,
            previous    |-> engine[e].previous,
            before      |-> before,
            after       |-> [score  |-> result.score, band |-> result.band,
                             streak |-> result.streak],
            kind        |-> result.kind,
            eligible    |-> result.eligible,
            evidence    |-> observed.evidence,
            temporal    |-> temporal,
            evaluatedAt |-> now] :
         temporal \in NextTemporals(TemporalBefore(e), observed.score,
                                    observed.observedAt, now)}

\* An operator named Bug... is what a plausible mistake would turn the definition
\* after it into; no specification uses it.

(* The order checks of record_subject_trust_transition: the state version  *)
(* is current, the preceding transition is current and older.              *)
BugOrderAccepted(t) == t.version = Len(versions)

OrderAccepted(t) ==
  /\ t.version = Len(versions)
  /\ t.previous = Current
  /\ Current # 0 => transitions[Current].version < t.version

(* Its consistency checks of the state change.                             *)
ChangeAccepted(t) ==
  /\ t.previous # 0 =>
       LET from == BandRank[t.before.band]
           to   == BandRank[t.after.band]
       IN  /\ t.kind = "held" => to = from
           /\ t.kind = "deteriorated" => to < from
           /\ t.kind = "recovered" => to = from + 1
  /\ t.kind = "critical-override"
       => t.after.band = "low" /\ t.after.score <= t.before.score

----------------------------------------------------------------------------
(* Actions *)

Init ==
  /\ now = 0
  /\ lost = 0
  /\ versions = <<>>
  /\ transitions = <<>>
  /\ engine = [e \in Engines |-> Idle]

(* store_subject_trust_state: the next version, whatever it was observed.  *)
(* A writer that expected another current version is refused.              *)
StoreState ==
  /\ Len(versions) < MaxVersions
  /\ Len(versions) < MaxBacklog + (IF Current = 0 THEN 0
                                   ELSE transitions[Current].version)
  /\ \E observed \in Observations, age \in 0..MaxAge, cap \in Caps,
        sources \in SourceCounts, critical \in Criticals :
       /\ age <= now
       /\ versions' = Append(versions,
            [score |-> observed, observedAt |-> now - age,
             evidence |-> [cap |-> cap, sources |-> sources,
                           critical |-> critical]])
  /\ UNCHANGED <<now, lost, transitions, engine>>

(* get_current_subject_trust_state                                         *)
ReadState(e) ==
  /\ engine[e].phase = "idle"
  /\ versions # <<>>
  /\ engine' = [engine EXCEPT ![e] = [phase |-> "reading",
                                      version |-> Len(versions)]]
  /\ UNCHANGED <<now, lost, versions, transitions>>

(* The caller of createTrustTransitionExplanationService.record supplies   *)
(* the preceding transition.                                               *)
ReadTransition(e) ==
  /\ engine[e].phase = "reading"
  /\ \E rebased \in {FALSE, Rebase} :
       engine' = [engine EXCEPT ![e] =
                    [phase |-> "ready", version |-> engine[e].version,
                     previous |-> Current, rebased |-> rebased]]
  /\ UNCHANGED <<now, lost, versions, transitions>>

(* record: build the transition and store it.  When the answer is lost the *)
(* engine still holds what it read, and may record again under a new       *)
(* transition id.                                                          *)
Record(e) ==
  /\ engine[e].phase = "ready"
  /\ PreviousAccepted(e)
  /\ Evaluable(e)
  /\ \E t \in Built(e) :
       /\ OrderAccepted(t)
       /\ ChangeAccepted(t)
       /\ transitions' = Append(transitions, t)
  /\ \/ engine' = [engine EXCEPT ![e] = Idle] /\ UNCHANGED lost
     \/ lost < MaxLost /\ lost' = lost + 1 /\ UNCHANGED engine
  /\ UNCHANGED <<now, versions>>

(* record throws: the builder or the database refuses.                     *)
Refuse(e) ==
  /\ engine[e].phase = "ready"
  /\ \/ ~PreviousAccepted(e)
     \/ ~Evaluable(e)
     \/ \E t \in Built(e) : ~(OrderAccepted(t) /\ ChangeAccepted(t))
  /\ engine' = [engine EXCEPT ![e] = Idle]
  /\ UNCHANGED <<now, lost, versions, transitions>>

Tick ==
  /\ now < MaxTime
  /\ now' = now + 1
  /\ UNCHANGED <<lost, versions, transitions, engine>>

Work(e) == ReadState(e) \/ ReadTransition(e) \/ Record(e) \/ Refuse(e)

Next == StoreState \/ Tick \/ \E e \in Engines : Work(e)

Spec == Init /\ [][Next]_vars

----------------------------------------------------------------------------
(* Properties *)

ScoreBefore(i) == ControlBefore(i - 1).score
BandBefore(i) == ControlBefore(i - 1).band

(* The transitions of a subject form one chain: each was computed from the *)
(* one recorded before it, for a later state version, although engines     *)
(* read, evaluate and record in transactions of their own                  *)
(* (record_subject_trust_transition, "Trust transition ordering conflict").*)
ChainedHistory ==
  \A i \in 1..Current :
    /\ transitions[i].previous = i - 1
    /\ transitions[i].before = ControlBefore(i - 1)
    /\ i > 1 => transitions[i - 1].version < transitions[i].version

(* An observation enters the smoothed score once: later transitions rest on*)
(* no older observation, and as long as they rest on the same one, decay   *)
(* starts from the score it led to (advanceSmoothedTrustScore,             *)
(* TRUST_OBSERVATION_NOT_NEWER, over state versions that are observed out  *)
(* of order).                                                              *)
ObservationsCountOnce ==
  \A i, j \in 1..Current :
    i < j =>
      /\ transitions[i].temporal.lastFresh <= transitions[j].temporal.lastFresh
      /\ transitions[i].temporal.lastFresh = transitions[j].temporal.lastFresh
           => transitions[i].temporal.anchor = transitions[j].temporal.anchor

(* From one recorded score to the next, a receipt moves the score of the   *)
(* subject by at most its influence cap; only critical evidence moves it   *)
(* further, and only down (applyTrustTransitionControls).                  *)
CapHolds ==
  \A i \in 1..Current :
    LET moved == transitions[i].after.score - ScoreBefore(i)
        cap   == Points(transitions[i].evidence.cap)
    IN  IF transitions[i].evidence.critical = "none"
        THEN moved \in -cap..cap
        ELSE moved <= 0

(* A band is only ever left upward, by one, because of two evaluations in a*)
(* row that stayed in it, both with a score at its recovery threshold and  *)
(* with two distinct sources, neither critical (the hysteresis of          *)
(* applyTrustTransitionControls, through the streak it keeps in the        *)
(* database).                                                              *)
RiseIsCorroborated ==
  \A i \in 1..Current :
    LET band == BandBefore(i)
    IN  BandRank[transitions[i].after.band] > BandRank[band] =>
          /\ transitions[i].after.band = NextBand(band)
          /\ i > 1
          /\ BandBefore(i - 1) = band
          /\ \A j \in {i - 1, i} :
               /\ transitions[j].after.score >= RecoveryThreshold(band)
               /\ transitions[j].evidence.sources >= RequiredSources
               /\ transitions[j].evidence.critical = "none"

(* The state change an engine computes passes the checks the database      *)
(* makes of it: the controls in JavaScript and the consistency checks in   *)
(* SQL state the same rules.                                               *)
DatabaseAgrees ==
  \A e \in Engines :
    engine[e].phase = "ready" /\ PreviousAccepted(e) /\ Evaluable(e)
      => \A t \in Built(e) : ChangeAccepted(t)

(* An engine that holds the current state version and the current          *)
(* transition is not refused for the transition: evaluation goes on after  *)
(* whatever was recorded, a capped score or critical evidence included     *)
(* (normalizePrevious of transition-explanation.mjs).                      *)
EvaluationContinues ==
  \A e \in Engines :
    /\ engine[e].phase = "ready"
    /\ engine[e].version = Len(versions)
    /\ engine[e].previous = Current
    /\ Current # 0 => transitions[Current].version < engine[e].version
    => PreviousAccepted(e)
=============================================================================
