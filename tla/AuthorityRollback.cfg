SPECIFICATION Spec
CONSTANTS
  Objects = {o1}
  MaxGens = 3
  Holdable = {}
  MaxCrashes = 1
  MaxFaults = 0
  MaxLosses = 1
INVARIANT NoSilentRollback
CHECK_DEADLOCK FALSE
