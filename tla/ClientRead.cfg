SPECIFICATION ViewSpec
CONSTANTS
  Sessions = {s1, s2}
  MaxChanges = 2
  MaxCalls = 6
  MaxMishaps = 0
SYMMETRY Symmetry
CONSTRAINT LeftAndOpenedAgain
INVARIANTS NothingReadUnseen
CHECK_DEADLOCK FALSE
