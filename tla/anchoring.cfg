SPECIFICATION AnchoringFairSpec
CONSTANTS
  Actions = {a1}
  Types = {"revoke-certificate", "issue-replacement-certificate"}
  Projectors = {p1, p2}
  None = None
  Forged = Forged
  MaxAttempts = 1
  MaxMishaps = 1
CHECK_DEADLOCK FALSE
INVARIANTS
  TrailIsConnected
  VerifiedIsAnchored
PROPERTIES
  EventuallyAnchored
