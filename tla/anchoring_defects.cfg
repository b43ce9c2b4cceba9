SPECIFICATION AnchoringFairSpec
CONSTANTS
  Actions = {a1}
  Types = {"revoke-certificate", "issue-replacement-certificate"}
  Projectors = {p1}
  None = None
  Forged = Forged
  MaxAttempts = 2
  MaxMishaps = 1  \* 0 is enough for all but VerifiedIsGenuine
CHECK_DEADLOCK FALSE
INVARIANTS
  EveryAttemptCaptured
  VerifiedStaysVerifiable
  OutcomesPassCausally
  VerifiedIsGenuine
PROPERTIES
  ReplacementIsAnchored
