SPECIFICATION Spec
CONSTANTS
  SampleValues <- Hundredths
  SampleWeights <- StoredWeights
  SampleReferences <- ReferenceLists
  InitialScore <- Cold
  AlphaPercent = 50
  StaleAfter = 1
  Engines = {g1, g2}
  Observations <- Extremes
  Caps = {30}
  SourceCounts = {1, 2}
  Criticals = {"none", "device-compromised"}
  Rebase = TRUE
  MaxAge = 0
  MaxVersions = 3
  MaxBacklog = 1
  MaxTime = 2
  MaxLost = 1
SYMMETRY Symmetry
CHECK_DEADLOCK FALSE
INVARIANTS
  ChainedHistory
  DatabaseAgrees
  ScoresAreRecordable
  RiseIsCorroborated
