SPECIFICATION Spec
CONSTANTS
  Catalog <- MCCatalog
  MinDeclines = 4
  TemporalMinDeclines = 6
  DeclineWindows <- MCWindows
  DeclineLookback = 2
  MinVolume = 8
  DeltaPp = 1
  PersistenceWindows = 3
  Lookback = 3
  Coverage <- MCCoverage
  BeamWidth = 4
  MaxDepth = 3
  Inputs <- TwoFaults
  Now = 3
  ExpectedConversion <- MCExpected
  MaxPeels = 3
  ThinCellWindow = 2
  MaxSignals = 2
INVARIANT CostIsAFloor
CHECK_DEADLOCK FALSE
