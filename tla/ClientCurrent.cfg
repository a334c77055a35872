SPECIFICATION ViewSpec
CONSTANTS
  Sessions = {s1, s2}
  MaxChanges = 2
  MaxCalls = 3
  MaxMishaps = 1
SYMMETRY Symmetry
INVARIANTS CurrentIsComplete
CHECK_DEADLOCK FALSE
