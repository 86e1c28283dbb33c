CONSTANTS
  Indices = {i1, i2}
  Names = {n1, n2}
  Jobs = {j1, j2}
  HoldIds = {}
  MaxSurface = 2
  TTL = 1
  Retention = 2
  Interference = {}
  None = None
SPECIFICATION Spec
INVARIANTS NotLiveIsOwned CommittedNotLive
PROPERTIES DeletedWasExact CommittedIsIrreversible
SYMMETRY Symmetry
CHECK_DEADLOCK FALSE
