SPECIFICATION PassSpec
CONSTANTS
  Tools = {residual, slice}
  RequiredTools = {residual}
  Cells <- MCCells
  RateOf <- MCRateOf
  DimensionOf <- MCDimensionOf
  FallbackEnabled = TRUE
  MaxToolCalls = 2
  MaxCalls = 3
INVARIANTS
  EvidenceStands
  OnlyTheDeadlineLeavesStepsBehind
  ProseIsFromTheEvidence
PROPERTIES
  PassMovesOn
CHECK_DEADLOCK FALSE
