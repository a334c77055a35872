SPECIFICATION Spec
CONSTANTS
  Submits = {submit}
  Stops = {}
  Releases = {}
  MaxIssued = 1
  Recoveries = {r1}
  MaxMishaps = 1
PROPERTY RetryReturnsOutcome
CHECK_DEADLOCK FALSE
