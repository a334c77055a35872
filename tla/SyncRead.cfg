SPECIFICATION SyncSpec
CONSTANTS
  Sessions = {s1, s2}
  MaxSeq = 5
  MaxEpochs = 2
  Limit = 3
SYMMETRY SessionSymmetry
CHECK_DEADLOCK FALSE
INVARIANTS SyncTypeOK CurrentReadIsTrue
