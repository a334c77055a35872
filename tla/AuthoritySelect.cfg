SPECIFICATION Spec
CONSTANTS
  Objects = {o1}
  MaxGens = 4
  Holdable = {1}
  MaxCrashes = 1
  MaxFaults = 1
  MaxLosses = 1
INVARIANTS NewestLossRecoverable PredecessorKept
PROPERTIES NoSilentRegression ClosureKept
CHECK_DEADLOCK FALSE
