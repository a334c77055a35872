SPECIFICATION Spec
CONSTANTS
  First = rel0
  Releases = {rel0, rel1}
  Attempts = 2
  MaxWork = 2
  MaxFaults = 2
  MaxOps = 2
INVARIANTS PublishedIsVerified SelectedTogether OneSupervisionJob
PROPERTIES AcceptanceReturns
CHECK_DEADLOCK FALSE
