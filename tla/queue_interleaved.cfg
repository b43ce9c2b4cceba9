SPECIFICATION Spec
CONSTANTS
  Targets = {c1}
  ActionIds = {a1, a2, a3}
  RequestedTypes = {"restrict-access", "revoke-certificate",
    "restore-access", "issue-replacement-certificate"}
  Workers = {w1, w2}
  Infinity = Infinity
  LeaseTime = 1
  RecoveryValidity = 1
  TransitionWindow = 1
  InitialRetryDelay = 1
  MaxRetryDelay = 2
  OutsideRevocation = TRUE
  MaxLag = 0
  MaxTime = 1
  MaxAttempts = 2
  MaxFaults = 1
  MaxTransitions = 1
SYMMETRY Symmetry
CHECK_DEADLOCK FALSE
INVARIANTS
  ClaimsExclusive
PROPERTIES
  SettledIsFinal
  ImplementsPosture
