SPECIFICATION LogSpec
CONSTANTS
  Sessions = {s1, s2}
  Retention = 0
  ClockMayStepBack = FALSE
  MaxSeq = 5
  MaxTimeline = 4
  MaxRuns = 1
  MaxClock = 2
  MaxEpochs = 2
SYMMETRY SessionSymmetry
CHECK_DEADLOCK FALSE
INVARIANTS ReplayIsComplete
PROPERTIES ReadRevisionExact ImplementsFeed
