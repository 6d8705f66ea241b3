SPECIFICATION FairSpec
CONSTANTS
  Catalogs <- MCCatalogs
  Injectable <- MCInjectable
  Rates = {1, 3}
  Unit = 2
  Whole = 2
  MaxCarry = 3
  MaxTicks = 6
  MaxBatches = 3
INVARIANTS
  TrafficFollowsWeights
  InFlightIsCapped
PROPERTIES
  VolumeIsKept
  EmissionGoesOn
CHECK_DEADLOCK FALSE
