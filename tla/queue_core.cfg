SPECIFICATION Spec
CONSTANTS
  Targets = {c1}
  ActionIds = {a1, a2}
  RequestedTypes = {"restrict-access", "suspend-subject", "block-renewal",
    "revoke-certificate", "restore-access", "issue-replacement-certificate"}
  Workers = {w1, w2}
  Infinity = Infinity
  LeaseTime = 1
  RecoveryValidity = 1
  TransitionWindow = 1
  InitialRetryDelay = 1
  MaxRetryDelay = 2
  OutsideRevocation = TRUE
  MaxLag = 1
  MaxTime = 1
  MaxAttempts = 2
  MaxFaults = 1
  MaxTransitions = 1
SYMMETRY Symmetry
CHECK_DEADLOCK FALSE
INVARIANTS
  TypeOK
  OneExecutingPerTarget
  AttemptLedger
  ResultAccepted
  RevokedInInventory
  PostureDefined
PROPERTIES
  SettledIsFinal
