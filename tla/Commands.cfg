SPECIFICATION Spec
CONSTANTS
  Submits = {submit}
  Stops = {stop}
  Releases = {release}
  MaxIssued = 1
  Recoveries = {r1, r2}
  MaxMishaps = 2
INVARIANTS AtMostOnce AcceptedIsTrue
PROPERTIES FirstRejectionIsTrue PendingSettles
CHECK_DEADLOCK FALSE
