SPECIFICATION IngestionSpec
CONSTANTS
  s1 = s1
  k1 = k1
  k2 = k2
  u1 = u1
  u2 = u2
  r1 = r1
  r2 = r2
  Subjects = {u1, u2}
  Admins = {u2}
  Sources = {s1}
  Keys = {k1, k2}
  NoKey = NoKey
  Envelopes <- MCEnvelopes
  Requests = {r1, r2}
  Kind <- MCKind
  MaxAge = 2
  Skew = 1
  Retention = 1
  Window = 2
  Quotas = {2}
  Threshold = 1
  MaxTime = 3
SYMMETRY Symmetry
CHECK_DEADLOCK FALSE
INVARIANTS
  OrderedEpochs
PROPERTIES
  AcceptedWhileActive
  GuardsAgree
