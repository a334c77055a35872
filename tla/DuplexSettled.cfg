CONSTANTS
  MaxExecutes = 2
  MaxAsks = 2
  MaxMishaps = 1
SPECIFICATION DuplexSpec
INVARIANT SettledWithdraws
CHECK_DEADLOCK FALSE
