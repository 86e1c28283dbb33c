CONSTANTS
  Transfers = {t1}
  MaxAttempts = 2
  MaxFaults = 3
  MaxStored = 1
  Environment <- Interruptions
  NoLock = NoLock
SPECIFICATION Spec
INVARIANTS NeverBothLive
CHECK_DEADLOCK FALSE
