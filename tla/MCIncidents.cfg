SPECIFICATION FairSpec
CONSTANTS
  Cells <- MCCells
  RootDims <- MCRootDims
  Codes <- MCCodes
  Diagnoses <- MCDiagnoses
  GapSets <- MCGapSets
  IncidentIds = {i1, i2}
  ResolveAfterQuietWindows = 1
  MaxBucket = 3
  MaxQueued = 2
  FallbackEnabled = TRUE
INVARIANTS
  AgentTripleTogether
  ReconcileLeavesNoneStale
PROPERTIES
  ReconfirmedNotRetired
  OneIncidentPerPlace
  AtomicBoard
  EveryBucketSettles
CHECK_DEADLOCK FALSE
