SPECIFICATION Spec
CONSTANTS
  SevereEvidence <- Sightings
  TriggerScores <- AroundThresholds
  InitialScore <- Medium
  AlphaPercent = 100
  StaleAfter = 1
  Requests = {r1, r2}
  Resolved = {r1, r2}
  Proofs = {p1, p2}
  Candidates <- FallAndRise
  SourceCounts = {1, 2}
  Criticals = {"none"}
  InitialPostures <- Revoked
  Explanations = {"ids", "count"}
  MaxVersions = 4
  MaxEvaluations = 3
  MaxTime = 1
  MaxEvidence = 1
  MaxLost = 1
SYMMETRY Symmetry
CHECK_DEADLOCK FALSE
INVARIANTS
  AuthorizationJustified
  TwoStageRecovery
  AuthorizationListsSources
  EvidenceNeverWeakens
