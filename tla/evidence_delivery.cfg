SPECIFICATION FairSpec
CONSTANTS
  e1 = e1
  e2 = e2
  t1 = t1
  w1 = w1
  w2 = w2
  Evidence = {e1, e2}
  Types = {t1}
  TypeOf <- MCTypeOf
  Observed <- MCObserved
  Ahead = {}
  Publishers = {w1, w2}
  RetryDelay = 1
  DuplicateWindow = 1
  ClaimTimeout = 1
  AckWait = 1
  MaxDeliver = 2
  MaxStored = 1
  MaxFaults = 1
CHECK_DEADLOCK FALSE
INVARIANTS
  StagedIsNewest
PROPERTIES
  VersionsAreEarned
  EventuallyPublished
