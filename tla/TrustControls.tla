--------------------------- MODULE TrustControls ---------------------------
(***************************************************************************)
(* How one evaluation turns a subject's previous trust into the next one:  *)
(* the temporal smoothing of services/trust/src/temporal-smoothing.mjs and *)
(* the transition controls of services/trust/src/                          *)
(* trust-transition-controls.mjs.                                          *)
(*                                                                         *)
(* Scores are whole hundredths of a point: the code rounds every score to  *)
(* two decimals, half up, so sums of scores need no rounding and averages  *)
(* are rounded as below.                                                   *)
(***************************************************************************)
EXTENDS Integers, FiniteSets

CONSTANTS
  InitialScore,   \* configuration.initialScore
  AlphaPercent,   \* configuration.smoothingAlpha, in percent
  StaleAfter      \* configuration.staleAfterSeconds

Points(n) == 100 * n
Scores == Points(0)..Points(100)

ASSUME ConfigurationAssumption ==
  /\ InitialScore \in Scores
  /\ AlphaPercent \in 1..100
  /\ StaleAfter \in Nat \ {0}

Bands == {"low", "medium", "high"}
BandRank == [b \in Bands |-> CASE b = "low" -> 0 [] b = "medium" -> 1
                               [] b = "high" -> 2]
Kinds == {"held", "deteriorated", "recovered", "critical-override"}

(* CRITICAL_EVIDENCE_OVERRIDE_RULES: the ceiling of each kind; every kind  *)
(* forces the low band.  An evaluation without one has "none".             *)
CriticalKinds == {"identity-compromised", "device-compromised",
                  "account-takeover-pattern", "certificate-revoked",
                  "blocking-compliance-breach"}
ScoreCeiling(kind) ==
  IF kind = "certificate-revoked" THEN Points(0) ELSE Points(20)

(* DEFAULT_TRUST_TRANSITION_CONFIGURATION                                  *)
DeteriorationThreshold(band) ==
  CASE band = "high" -> Points(65) [] band = "medium" -> Points(35)
    [] band = "low" -> Points(0)
RecoveryThreshold(band) ==
  IF band = "low" THEN Points(45) ELSE Points(75)
RequiredStreak == 2
RequiredSources == 2

Smaller(a, b) == IF a < b THEN a ELSE b
Larger(a, b) == IF a < b THEN b ELSE a

----------------------------------------------------------------------------
(* Temporal smoothing *)

(* freezeState: what one evaluation leaves for the next.  lastFresh is the *)
(* time of the last fresh observation, or Never.                           *)
Never == -1
Temporal == [score : Scores, anchor : Scores,
             lastFresh : Nat \cup {Never}, lastEvaluated : Nat]

(* (1 - alpha) * prior + alpha * observed, half up.                        *)
Smoothed(prior, observed) ==
  (AlphaPercent * observed + (100 - AlphaPercent) * prior + 50) \div 100

(* baseline + excess * 2^-n, half up.                                      *)
Halved(baseline, excess, n) == baseline + (2 * excess + 2 ^ n) \div 2 ^ (n + 1)

(* The exponential decay toward the baseline has a half-life of StaleAfter.*)
(* After a whole number of half-lives it is exact; in between, the scores  *)
(* of the half-lives around it stand for all that lie between them.        *)
Decayed(state, elapsed) ==
  LET baseline == Smaller(InitialScore, state.anchor)
      excess   == state.anchor - baseline
      n        == elapsed \div StaleAfter
      around   == IF elapsed % StaleAfter = 0 THEN {n} ELSE {n, n + 1}
  IN  {Halved(baseline, excess, m) : m \in around}
        \cap (baseline..state.anchor)

IsFresh(observedAt, time) == time - observedAt <= StaleAfter

(* Faulty variants, named Bug..., are what a plausible mistake would turn  *)
(* the definition after them into; no specification uses them.             *)

(* advanceSmoothedTrustScore refuses a state from the future, a state that *)
(* has moved without a fresh observation, and an observation that is fresh *)
(* but not newer than the last one it used.                                *)
SmoothingDefined(state, observedAt, time) ==
  /\ state.lastEvaluated <= time
  /\ state.lastFresh = Never
       => state.score = InitialScore /\ state.anchor = InitialScore
  /\ IsFresh(observedAt, time) => observedAt > state.lastFresh

(* The state of a subject that was never evaluated.                        *)
ColdTemporal == [score |-> InitialScore, anchor |-> InitialScore,
                 lastFresh |-> Never, lastEvaluated |-> 0]

NextTemporals(state, observed, observedAt, time) ==
  IF IsFresh(observedAt, time)
  THEN LET score == Smoothed(state.score, observed)
       IN  {[score |-> score, anchor |-> score, lastFresh |-> observedAt,
             lastEvaluated |-> time]}
  ELSE LET elapsed == time - state.lastFresh - StaleAfter
           scores  == IF state.lastFresh = Never THEN {InitialScore}
                      ELSE IF elapsed <= 0 THEN {state.score}
                      ELSE Decayed(state, elapsed)
       IN  {[state EXCEPT !.score = s, !.lastEvaluated = time] : s \in scores}

----------------------------------------------------------------------------
(* Transition controls *)

Control == [score : Scores, band : Bands, streak : 0..(RequiredStreak - 1)]

(* initializeTrustControlState                                             *)
InitialControl ==
  [score  |-> InitialScore,
   band   |-> IF InitialScore < Points(40) THEN "low"
              ELSE IF InitialScore < Points(70) THEN "medium" ELSE "high",
   streak |-> 0]

(* normalizePreviousState: the control states an evaluation accepts.       *)
ControlAccepted(c) ==
  /\ c.score >= DeteriorationThreshold(c.band)
  /\ c.streak > 0 => c.band # "high" /\ c.score >= RecoveryThreshold(c.band)

(* What an evaluation knows of the evidence that caused it: the influence  *)
(* cap of its receipt in points, the number of distinct sources behind it  *)
(* and the kind of critical evidence, if any.                              *)
Evidence == [cap : 1..100, sources : Nat \ {0},
             critical : CriticalKinds \cup {"none"}]

(* The score moves toward the candidate by at most the influence cap.      *)
BoundedScore(score, candidate, cap) ==
  score + Larger(-Points(cap), Smaller(Points(cap), candidate - score))

(* deteriorationBand                                                       *)
LowerBand(band, score) ==
  IF score < DeteriorationThreshold("medium") THEN "low"
  ELSE IF band = "high" /\ score < DeteriorationThreshold("high")
  THEN "medium" ELSE band

(* nextRecoveryBand                                                        *)
NextBand(band) == IF band = "low" THEN "medium" ELSE "high"

BugQualifiesUncorroborated(band, score, sources) ==
  band # "high" /\ score >= RecoveryThreshold(band)

(* Whether an evaluation counts toward a recovery.                         *)
Qualifies(band, score, sources) ==
  /\ band # "high"
  /\ score >= RecoveryThreshold(band)
  /\ sources >= RequiredSources

BugOverriddenByCeiling(c, candidate, kind) ==
  [score    |-> ScoreCeiling(kind),
   band     |-> "low",
   kind     |-> "critical-override",
   streak   |-> 0,
   eligible |-> FALSE]

(***************************************************************************)
(* applyTrustTransitionControls.  Critical evidence lowers the score past  *)
(* the cap and forces the low band.  Otherwise the band falls at once with *)
(* the score, and rises by one after RequiredStreak consecutive qualifying *)
(* evaluations, which starts the count again.                              *)
(***************************************************************************)
Overridden(c, candidate, kind) ==
  [score    |-> Smaller(Smaller(c.score, candidate), ScoreCeiling(kind)),
   band     |-> "low",
   kind     |-> "critical-override",
   streak   |-> 0,
   eligible |-> FALSE]

BugStreakKeptOnMiss(streak, qualifies) ==
  IF qualifies THEN (streak + 1) % RequiredStreak ELSE streak

(* The streak after an evaluation that leaves the band or raises it.       *)
NextStreak(streak, qualifies) ==
  IF qualifies THEN (streak + 1) % RequiredStreak ELSE 0

Ordinary(c, candidate, basis) ==
  LET score     == BoundedScore(c.score, candidate, basis.cap)
      lower     == LowerBand(c.band, score)
      qualifies == Qualifies(c.band, score, basis.sources)
      recovered == qualifies /\ c.streak + 1 >= RequiredStreak
  IN  IF lower # c.band
      THEN [score |-> score, band |-> lower, kind |-> "deteriorated",
            streak |-> 0, eligible |-> FALSE]
      ELSE [score    |-> score,
            band     |-> IF recovered THEN NextBand(c.band) ELSE c.band,
            kind     |-> IF recovered THEN "recovered" ELSE "held",
            streak   |-> NextStreak(c.streak, qualifies),
            eligible |-> qualifies]

Controlled(c, candidate, basis) ==
  IF basis.critical # "none"
  THEN Overridden(c, candidate, basis.critical)
  ELSE Ordinary(c, candidate, basis)
=============================================================================
