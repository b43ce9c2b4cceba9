SPECIFICATION Spec
CONSTANTS
  Targets = {c1}
  ActionIds = {a1}
  RequestedTypes = {"restrict-access", "suspend-subject", "block-renewal",
    "revoke-certificate", "restore-access", "issue-replacement-certificate"}
  Workers = {w1}
  Infinity = Infinity
  LeaseTime = 1
  RecoveryValidity = 1
  TransitionWindow = 1
  InitialRetryDelay = 1
  MaxRetryDelay = 2
  OutsideRevocation = TRUE
  MaxLag = 0
  MaxTime = 1
  MaxAttempts = 2
  MaxFaults = 0
  MaxTransitions = 0
SYMMETRY Symmetry
CHECK_DEADLOCK FALSE
INVARIANTS
  ExactReplayReturnsAction
PROPERTIES
  SuppressedControlInForce
