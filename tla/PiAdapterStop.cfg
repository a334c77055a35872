SPECIFICATION Spec
CONSTANTS
  MaxRuns = 3
INVARIANTS StopHeard
CHECK_DEADLOCK FALSE
