SPECIFICATION SyncSpec
CONSTANTS
  Sessions = {s1, s2}
  MaxSeq = 5
  MaxEpochs = 1
  Limit = 3
SYMMETRY SessionSymmetry
CHECK_DEADLOCK FALSE
INVARIANT CurrentIsTrue
