SPECIFICATION Spec
CONSTANTS
  Objects = {o1}
  MaxGens = 3
  Holdable = {}
  MaxCrashes = 0
  MaxFaults = 0
  MaxLosses = 0
PROPERTY CleanupKeepsStartup
CHECK_DEADLOCK FALSE
