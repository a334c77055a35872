SPECIFICATION Spec
CONSTANTS
  MaxRuns = 2
  AskingRuns = {}
  TimedRuns = {}
  SteeredRuns = {}
  MaxCrashes = 1
  MaxFaults = 0
PROPERTY SleepOnlyQuiescent
CHECK_DEADLOCK FALSE
