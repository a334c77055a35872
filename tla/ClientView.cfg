SPECIFICATION ViewSpec
CONSTANTS
  Sessions = {s1, s2}
  MaxChanges = 2
  MaxCalls = 3
  MaxMishaps = 1
SYMMETRY Symmetry
INVARIANTS ReadWasShown
PROPERTIES AttentionAdvances
CHECK_DEADLOCK FALSE
