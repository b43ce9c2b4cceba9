SPECIFICATION MCSpec
CONSTANTS
  Administrators = {a1, a2}
  Contents = {c1, c2}
  None = None
  Ahead = 1
  Behind = 0
  Registries = {"trust", "policy"}
  MaxTime = 1
  MaxVersions = 3
  MaxEvents = 5
  MaxSuspensions = 2
  MaxClock = 5
  MaxFeed = 3
SYMMETRY Symmetry
CHECK_DEADLOCK FALSE
INVARIANTS
  TimesTile
  HistoryExplains
  RenewalChain
PROPERTIES
  ChangesAreExplained
