CONSTANTS
  Instances = {i1}
  Transfers = {t1}
  Slots = {1, 2}
  Errors = TRUE
  MaxVersion = 1
  MaxSteps = 2
  MaxMounts = 1
  MaxFaults = 1
SPECIFICATION Spec
INVARIANTS TypeOK LiveMeansSubscribed
PROPERTIES SummariesNeverRegress PageCatchesUp
CHECK_DEADLOCK FALSE
