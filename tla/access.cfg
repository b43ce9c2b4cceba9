SPECIFICATION Spec
CONSTANTS
  Requests = {r1, r2}
  Proofs = {p1}
  Contents = {c1, c2}
  None = None
  Modes <- MCBothModes
  Operations <- MCOperations
  StateAge = 2
  StaleAfter = 1
  ProofLife = 1
  ChallengeLife = 1
  MaxTime = 2
  MaxChanges = 1
SYMMETRY MCSymmetry
CHECK_DEADLOCK FALSE
INVARIANTS
  ServedIsAccounted
  ProofServesOneDecision
  OneOperationPerKey
