CONSTANTS
  Indices = {i1}
  Names = {n1}
  Jobs = {j1, j2}
  HoldIds = {h1, h2}
  MaxSurface = 2
  TTL = 1
  Retention = 2
  Interference = {"jobless", "resume", "stuck"}
  None = None
SPECIFICATION Spec
INVARIANTS TypeOK HoldKeepsNotLive
SYMMETRY Symmetry
CHECK_DEADLOCK FALSE
