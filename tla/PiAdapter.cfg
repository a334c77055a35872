SPECIFICATION Spec
CONSTANTS
  MaxRuns = 3
INVARIANTS AbortHitsItsRun AsksUnderItsOwnRun
PROPERTIES RefusedOnlyBehindStopped
CHECK_DEADLOCK FALSE
