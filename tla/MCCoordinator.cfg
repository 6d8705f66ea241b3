SPECIFICATION FairSpec
CONSTANTS
  IncidentIds = {i1}
  Calls = {c1, c2}
  Recovery = recovery
  MaxRuns = 4
  FallbackEnabled = TRUE
INVARIANTS
  InvestigatedOnce
  CompletedIsLinked
  FallbacksDoNotChain
  RecoveryLeavesNoOrphan
PROPERTIES
  TerminalIsFinal
  OrphansGetClosed
CHECK_DEADLOCK FALSE
