SPECIFICATION Spec
CONSTANTS
  IncidentIds = {i1}
  Calls = {c1, c2}
  Recovery = recovery
  MaxRuns = 3
  FallbackEnabled = FALSE
PROPERTY FailedRunIsRecorded
SYMMETRY CallSymmetry
CHECK_DEADLOCK FALSE
