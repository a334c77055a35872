SPECIFICATION Spec
CONSTANTS
  First = rel0
  Releases = {rel0, rel1}
  Attempts = 2
  MaxWork = 2
  MaxFaults = 1
  MaxOps = 1
PROPERTY NoRollbackAfterAcceptance
CHECK_DEADLOCK FALSE
