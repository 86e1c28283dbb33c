CONSTANTS
  Ids = {a, b}
  Cap = 2
  Reserved = 1
  MaxActive = 1
  MaxRows = 1
  MaxFiles = 2
  MaxTime = 5
  MaxFaults = 1
SPECIFICATION Spec
SYMMETRY Symmetry
INVARIANTS TypeOK IndexIsFold RecordedSurvivesRestart EveryVerdictShown
PROPERTIES VerdictBeforeDetail FileNeverRegresses SuccessesSurvive
CHECK_DEADLOCK FALSE
