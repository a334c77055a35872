SPECIFICATION Spec
CONSTANTS
  MaxRuns = 2
  AskingRuns = {}
  TimedRuns = {}
  SteeredRuns = {}
  MaxCrashes = 0
  MaxFaults = 0
INVARIANT OneLiveRun
CHECK_DEADLOCK FALSE
