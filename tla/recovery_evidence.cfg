SPECIFICATION Spec
CONSTANTS
  SevereEvidence <- Sightings
  TriggerScores <- AroundThresholds
  InitialScore <- Medium
  AlphaPercent = 100
  StaleAfter = 1
  Requests = {r1}
  Resolved = {r1}
  Proofs = {p1}
  Candidates <- FallAndRise
  SourceCounts = {1, 2}
  Criticals = {"none"}
  InitialPostures <- Suspended
  Explanations = {"ids", "count"}
  MaxVersions = 2
  MaxEvaluations = 3
  MaxTime = 1
  MaxEvidence = 1
  MaxLost = 1
CHECK_DEADLOCK FALSE
INVARIANTS
  ReplayAnswered
  RecoveredIsEligible
PROPERTIES
  EvidenceBlocksRecovery
