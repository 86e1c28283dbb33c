CONSTANTS
  Transfers = {t1, t2}
  MaxAttempts = 1
  MaxFaults = 0
  MaxStored = 2
  Environment = {}
  NoLock = NoLock
SPECIFICATION Spec
INVARIANTS NeverBothLive
CHECK_DEADLOCK FALSE
