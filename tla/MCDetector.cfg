SPECIFICATION FairSpec
CONSTANTS
  Slices = {s1}
  PersistenceWindows = 2
  CatchUpCap = 2
  MaxClock = 5
  Ticks = {t1, t2}
INVARIANTS
  ConfirmedIsJustified
  DeliveredInOrder
  OnlyTheCapSkips
PROPERTIES
  KeepsUp
