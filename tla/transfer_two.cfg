CONSTANTS
  Transfers = {t1, t2}
  MaxAttempts = 1
  MaxFaults = 0
  MaxStored = 1
  Environment <- Disturbances
  NoLock = NoLock
SPECIFICATION Spec
INVARIANTS LockAttended
SYMMETRY Symmetry
CHECK_DEADLOCK FALSE
