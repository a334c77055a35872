CONSTANTS
  MaxExecutes = 2
  MaxAsks = 2
  MaxMishaps = 1
SPECIFICATION DuplexSpec
INVARIANTS LifecycleAccepts OutcomesAreProven RespondedWasConsumed
CHECK_DEADLOCK FALSE
