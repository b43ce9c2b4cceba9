SPECIFICATION Spec
CONSTANTS
  Events = {e1}
  Values = {v1}
  NoValue = NoValue
  Workers = {w1}
  LeaseTime = 1
  InitialRetryDelay = 1
  MaxRetryDelay = 2
  ClockTolerance = 0
  MaxOffset = 0
  MaxTime = 4
  MaxClaims = 3
  MaxFaults = 1
CHECK_DEADLOCK FALSE
INVARIANTS
  SubmissionsRetained
