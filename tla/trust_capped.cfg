SPECIFICATION Spec
CONSTANTS
  SampleValues <- Hundredths
  SampleWeights <- StoredWeights
  SampleReferences <- ReferenceLists
  InitialScore <- Cold
  AlphaPercent = 50
  StaleAfter = 9
  Engines = {g1}
  Observations <- Extremes
  Caps = {30, 100}
  SourceCounts = {1, 2}
  Criticals = {"none", "device-compromised"}
  Rebase = FALSE
  MaxAge = 0
  MaxVersions = 3
  MaxBacklog = 1
  MaxTime = 3
  MaxLost = 0

CHECK_DEADLOCK FALSE
INVARIANTS
  EvaluationContinues
