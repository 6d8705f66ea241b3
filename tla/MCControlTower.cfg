SPECIFICATION TowerSpec
CONSTANTS
  Cells <- MCCells
  RootDims <- MCRootDims
  Slices <- MCSlices
  Codes = {"51"}
  Diagnoses <- MCDiagnoses
  IncidentIds = {i1, i2}
  Ticks = {t1}
  PersistenceWindows = 2
  ResolveAfterQuietWindows = 2
  CatchUpCap = 2
  MaxClock = 4
  MaxRestarts = 1
INVARIANTS
  IncidentsGoBackToDrops
  RetiredByItsWindow
PROPERTIES
  OutageStaysOnTheBoard
VIEW MCView
SYMMETRY MCSymmetry
CHECK_DEADLOCK FALSE
