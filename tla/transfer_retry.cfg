CONSTANTS
  Transfers = {t1}
  MaxAttempts = 2
  MaxFaults = 2
  MaxStored = 1
  Environment <- Everything
  NoLock = NoLock
SPECIFICATION FairSpec
INVARIANTS TypeOK NeverBothGone CompletedImpliesGone
PROPERTIES CustodySpec AwaitingSettles TransferEndsItsLock
CHECK_DEADLOCK FALSE
