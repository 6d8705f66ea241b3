SPECIFICATION FairSpec
CONSTANTS
  Conns = {c1, c2}
  MaxWrites = 1
  MaxOverlap = 2
  MaxWire = 1
  MaxDrops = 1
INVARIANTS
  OneConnection
PROPERTIES
  EveryHandlerEnds
  ScreenCatchesUp
CHECK_DEADLOCK FALSE
