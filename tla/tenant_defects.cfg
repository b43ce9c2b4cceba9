SPECIFICATION MCSpec
CONSTANTS
  Administrators = {a1, a2}
  Contents = {c1}
  None = None
  Ahead = 0
  Behind = 0
  Registries = {"policy"}
  MaxTime = 0
  MaxVersions = 2
  MaxEvents = 2
  MaxSuspensions = 2
  MaxClock = 4
  MaxFeed = 0
SYMMETRY Symmetry
CHECK_DEADLOCK FALSE
INVARIANTS
  TornDownHasNoAuthority
  AdministratorRemains
