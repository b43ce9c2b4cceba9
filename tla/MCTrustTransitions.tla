------------------------- MODULE MCTrustTransitions -------------------------
(* TrustTransitions with scores in points and the symmetry of its engines, *)
(* and the weighted score with samples of stored values and weights.       *)
EXTENDS TrustTransitions, WeightedScore, TLC

ScoresInPoints(points) == {Points(n) : n \in points}
Extremes == ScoresInPoints({0, 100})
Cold == Points(50)

Symmetry == Permutations(Engines)

Hundredths == {Decimal(0, 0), Decimal(3333, 2), Decimal(9999, 2)}

Weights(identity, device, behaviour, certificate, compliance, scale) ==
  [c \in Components |->
    Decimal(CASE c = "identity" -> identity [] c = "device" -> device
              [] c = "behaviour" -> behaviour
              [] c = "certificate" -> certificate
              [] c = "compliance" -> compliance, scale)]

(* The prototype's weights, and some with all four decimals of the column. *)
StoredWeights ==
  {Weights(20, 25, 25, 15, 15, 2), Weights(1999, 2503, 2497, 1501, 1500, 4),
   Weights(9999, 0, 0, 1, 0, 4)}

(* One list per reference that comes first, and one with a repetition.     *)
Listed(sequence) ==
  [i \in 1..Len(sequence) |->
    [evidenceType |-> sequence[i], evidenceId |-> sequence[i],
     sourceEventId |-> sequence[i]]]
Order == <<"identity", "device", "behaviour", "certificate", "compliance">>
ReferenceLists ==
  {Listed([i \in 1..5 |-> Order[((i + k) % 5) + 1]]) : k \in 1..4}
    \cup {Listed([i \in 1..5 |-> Order[6 - i]]),
          Listed(<<"identity", "identity", "behaviour", "device",
                   "certificate">>)}

(* Five decimals, which the program accepts and the column cannot hold,    *)
(* and the values of a score that ends just under a half.                  *)
FinerWeights == {Weights(19995, 25007, 24997, 14996, 15005, 5)}
OneList == {Listed(Order)}
NearHalf == {Decimal(n, 2) : n \in {3721, 881, 1984, 4424, 8216}}

(* Every score can be recorded with its contributions (WeightedScore: what *)
(* weighted-score.mjs rounds once is what 023 adds up), which does not     *)
(* depend on the history: it is judged before the first version.           *)
ScoresAreRecordable == versions = <<>> => EveryScoreRecordable
=============================================================================
