CONSTANTS
  Objects = {o1}
  MaxPoints = 2
  Keep = 1
  MaxChanges = 2
  MaxRestores = 1
  MaxMishaps = 2
SPECIFICATION RecoverySpec
PROPERTIES RestoresStoppedHosts
CHECK_DEADLOCK FALSE
