SPECIFICATION Spec
CONSTANTS
  MaxRuns = 2
  AskingRuns = {}
  TimedRuns = {}
  SteeredRuns = {}
  MaxCrashes = 1
  MaxFaults = 0
PROPERTY RecoveryHoldsQueue
CHECK_DEADLOCK FALSE
