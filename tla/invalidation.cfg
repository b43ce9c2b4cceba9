SPECIFICATION InvalidationFairSpec
CONSTANTS
  Subjects = {s1}
  ActionIds = {a1, a2}
  Entries = {e1}
  Workers = {w1, w2}
  NoAction = NoAction
  LeaseTime = 1
  InitialRetryDelay = 1
  MaxRetryDelay = 1
  ClockTolerance = 0
  MaxOffset = 0
  MaxDbClock = 8
  MaxAttempts = 4
  MaxFaults = 1
CHECK_DEADLOCK FALSE
INVARIANTS
  EnforcedWhenCompleted
  OneExecutingPerSubject
PROPERTIES
  InvalidationCompletes
