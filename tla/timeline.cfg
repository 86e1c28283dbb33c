CONSTANTS
  Floor = 1
  Lag = 1
  Spans <- MCSpans
  Ticks = {3}
  MaxTime = 4
  MaxVerdicts = 2
SPECIFICATION Spec
INVARIANTS TimeCountedOnce AttributionIsTrue
CHECK_DEADLOCK FALSE
