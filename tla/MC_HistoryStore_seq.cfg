CONSTANTS
  NRuns = 2
  Sec <- MCSecApart
  MaxWrites = 2
  MaxUpdates = 2
  Failures = FALSE
  TornWrites = FALSE
  UpdateAfterClose = TRUE
SPECIFICATION Spec
INVARIANT FindReturnsLastWrite
INVARIANT LatestStatusCurrent
