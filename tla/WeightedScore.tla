--------------------------- MODULE WeightedScore ---------------------------
(***************************************************************************)
(* The weighted trust score (services/trust/src/weighted-score.mjs with    *)
(* packages/trust-model), the contributions an explanation lists beside it *)
(* (services/trust/src/transition-explanation.mjs), and the arithmetic     *)
(* with which the database checks both before it records the transition    *)
(* (migration 023).                                                        *)
(*                                                                         *)
(* The program computes with exact decimals and rounds the score from the  *)
(* exact sum; the database adds the contributions that were rounded one by *)
(* one.  Where the two differ, a transition cannot be recorded, now or on  *)
(* any retry.                                                              *)
(*                                                                         *)
(* A decimal is its digits and its scale, as decimalParts has it.  A       *)
(* normalized value keeps the two decimals of its column (migration 020),  *)
(* a weight the four of its own (migration 005).                           *)
(***************************************************************************)
EXTENDS Integers, Sequences, FiniteSetsExt, Functions

CONSTANTS
  SampleValues,     \* the normalized values to try, as decimals
  SampleWeights,    \* the weight vectors to try
  SampleReferences  \* the reference lists to try

Components == {"identity", "device", "behaviour", "certificate", "compliance"}

Decimal(integer, scale) == [integer |-> integer, scale |-> scale]
Whole(n) == Decimal(n, 0)

(* A decimal at a scale no smaller than its own, and the comparisons.      *)
Digits(d, scale) == d.integer * 10 ^ (scale - d.scale)
CommonScale(l, r) == IF l.scale >= r.scale THEN l.scale ELSE r.scale
SameValue(l, r) ==
  Digits(l, CommonScale(l, r)) = Digits(r, CommonScale(l, r))
AtMost(l, r) ==
  Digits(l, CommonScale(l, r)) <= Digits(r, CommonScale(l, r))

Times(l, r) == Decimal(l.integer * r.integer, l.scale + r.scale)

SumOf(decimals) ==
  LET scale == Max({decimals[c].scale : c \in DOMAIN decimals})
  IN  Decimal(FoldFunction(LAMBDA d, total : Digits(d, scale) + total,
                           0, decimals), scale)

(* Half up, away from the exact value by at most half a unit.              *)
Rounded(d, places) ==
  IF d.scale > places
  THEN LET divisor == 10 ^ (d.scale - places)
           up == IF 2 * (d.integer % divisor) >= divisor THEN 1 ELSE 0
       IN  Decimal(d.integer \div divisor + up, places)
  ELSE Decimal(Digits(d, places), places)

-----------------------------------------------------------------------------
(* What the program accepts as values, weights and evidence references.    *)

DefinedValues(values) ==
  /\ DOMAIN values = Components
  /\ \A c \in Components : AtMost(values[c], Whole(100))

DefinedWeights(weights) ==
  /\ DOMAIN weights = Components
  /\ \A c \in Components : AtMost(weights[c], Whole(1))
  /\ SameValue(SumOf(weights), Whole(1))

Pairwise(references, field) ==
  IsInjective([i \in DOMAIN references |-> references[i][field]])

DefinedReferences(references) ==
  /\ Len(references) = Cardinality(Components)
  /\ \A i \in DOMAIN references : references[i].evidenceType \in Components
  /\ \A field \in {"evidenceType", "evidenceId", "sourceEventId"} :
       Pairwise(references, field)

ReferenceOf(references, component) ==
  CHOOSE reference \in Range(references) :
    reference.evidenceType = component

(* What the columns hold: two decimals of a value (migration 020) and four *)
(* of a weight (migration 005).  A reference list is an array.             *)
StoredDecimals(places) == [integer : Nat, scale : 0..places]
FitColumns ==
  /\ SampleValues \subseteq StoredDecimals(2)
  /\ SampleWeights \subseteq [Components -> StoredDecimals(4)]
  /\ \A references \in SampleReferences : DOMAIN references = 1..Len(references)

-----------------------------------------------------------------------------
(* The calculation and the contributions that explain it.                  *)

Exact(values, weights) ==
  [c \in Components |-> Times(values[c], weights[c])]

WeightedTrustScore(values, weights) ==
  Rounded(SumOf(Exact(values, weights)), 2)

\* An operator named Bug... is what a plausible mistake would turn the definition
\* after it into; no specification uses it.

(* The contributions rounded like the score.                               *)
BugContributionPlaces(values, weights, references) ==
  [c \in Components |->
    [normalizedValue |-> values[c], weight |-> weights[c],
     weightedContribution |-> Rounded(Times(values[c], weights[c]), 2),
     evidenceId |-> ReferenceOf(references, c).evidenceId,
     sourceEventId |-> ReferenceOf(references, c).sourceEventId]]

ContributionRecords(values, weights, references) ==
  [c \in Components |->
    [normalizedValue |-> values[c], weight |-> weights[c],
     weightedContribution |-> Rounded(Times(values[c], weights[c]), 6),
     evidenceId |-> ReferenceOf(references, c).evidenceId,
     sourceEventId |-> ReferenceOf(references, c).sourceEventId]]

-----------------------------------------------------------------------------
(* The database reads the state version, the configuration and the         *)
(* evidence of that version from its own tables, counts the contributions  *)
(* that match and adds them up.                                            *)

MatchedContributions(values, weights, references, contributions) ==
  {c \in Components :
    LET supplied == contributions[c]
    IN  /\ \E evidence \in Range(references) :
             /\ evidence.evidenceType = c
             /\ evidence.evidenceId = supplied.evidenceId
             /\ evidence.sourceEventId = supplied.sourceEventId
        /\ SameValue(supplied.normalizedValue, values[c])
        /\ SameValue(supplied.weight, weights[c])
        /\ SameValue(supplied.weightedContribution,
             Rounded(Times(supplied.normalizedValue, supplied.weight), 6))}

ContributionTotal(contributions) ==
  SumOf([c \in DOMAIN contributions |-> contributions[c].weightedContribution])

ExplanationMatches(values, weights, references, contributions, score) ==
  /\ MatchedContributions(values, weights, references, contributions)
       = Components
  /\ SameValue(Rounded(ContributionTotal(contributions), 2), score)

(* Every score the program computes from stored values and weights, and    *)
(* explains by the evidence of the state version in any order, passes the  *)
(* check of the database and stays in range: the sum of the rounded        *)
(* contributions rounds to what the exact sum rounds to                    *)
(* (weighted-score.mjs:81-106, 023_trust_transition_explanations.sql:358-  *)
(* 394).                                                                   *)
EveryScoreRecordable ==
  \A weights \in SampleWeights, values \in [Components -> SampleValues],
     references \in SampleReferences :
    /\ DefinedValues(values) /\ DefinedWeights(weights)
    /\ DefinedReferences(references)
    => LET score == WeightedTrustScore(values, weights)
       IN  /\ AtMost(score, Whole(100))
           /\ ExplanationMatches(values, weights, references,
                ContributionRecords(values, weights, references), score)
=============================================================================
