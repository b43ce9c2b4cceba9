SPECIFICATION Spec
CONSTANTS
  alice = alice
  admin = admin
  k1 = k1
  k2 = k2
  c1 = c1
  c2 = c2
  Subjects = {alice, admin}
  Admins = {admin}
  Leavers = {admin}
  Keys = {k1, k2}
  Requests <- MCRequests
  Clients = {c1, c2}
  Validity = 4
  Skew = 1
  StatusTimeout = 1
  ResultLifetime = 1
  MaxSigned = 3
  MaxRefused = 3
  Instants = {0, 3, 4}
SYMMETRY Symmetry
CHECK_DEADLOCK FALSE
INVARIANTS
  SkewIsTolerated
  RedeliveryIsDuplicate
