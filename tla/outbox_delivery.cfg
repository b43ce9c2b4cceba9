SPECIFICATION FairSpec
CONSTANTS
  Events = {e1}
  Values = {v1, v2}
  NoValue = NoValue
  Workers = {w1, w2}
  LeaseTime = 2
  InitialRetryDelay = 1
  MaxRetryDelay = 2
  ClockTolerance = 1
  MaxOffset = 1
  MaxTime = 12
  MaxClaims = 7
  MaxFaults = 1
CHECK_DEADLOCK FALSE
INVARIANTS
  CommittedIsAnchored
  OutcomeNeverInvented
PROPERTIES
  EventuallyCommitted
