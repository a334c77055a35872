SPECIFICATION Spec
CONSTANTS
  MaxRuns = 3
  AskingRuns = {}
  TimedRuns = {}
  SteeredRuns = {}
  MaxCrashes = 0
  MaxFaults = 0
INVARIANT QueuedHasPredecessor
CHECK_DEADLOCK FALSE
