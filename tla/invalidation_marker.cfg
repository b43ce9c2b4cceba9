SPECIFICATION InvalidationSpec
CONSTANTS
  Subjects = {s1}
  ActionIds = {a1, a2}
  Entries = {e1}
  Workers = {w1}
  NoAction = NoAction
  LeaseTime = 1
  InitialRetryDelay = 1
  MaxRetryDelay = 1
  ClockTolerance = 0
  MaxOffset = 0
  MaxDbClock = 4
  MaxAttempts = 2
  MaxFaults = 1
SYMMETRY Symmetry
CHECK_DEADLOCK FALSE
INVARIANTS
  EffectAtMostOnce
  StoredCountsExact
