SPECIFICATION Spec
CONSTANTS
  Slices = {s1}
  PersistenceWindows = 2
  CatchUpCap = 2
  MaxClock = 4
  Ticks = {t1, t2}
SYMMETRY TickSymmetry
INVARIANT FailedBucketIsRetried
