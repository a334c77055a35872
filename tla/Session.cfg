SPECIFICATION FairSpec
CONSTANTS
  MaxRuns = 2
  AskingRuns = {1}
  TimedRuns = {1}
  SteeredRuns = {1}
  MaxCrashes = 1
  MaxFaults = 1
INVARIANTS EscalationArmed ArchivedIsQuiet NeverReplayed StopReachesItsWorker
PROPERTIES StopEnds ContractSpec
CHECK_DEADLOCK FALSE
