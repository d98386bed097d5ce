CONSTANTS
  NRuns = 2
  Sec <- MCSecApart
  MaxWrites = 2
  MaxUpdates = 0
  Failures = TRUE
  TornWrites = TRUE
  UpdateAfterClose = TRUE
SPECIFICATION Spec
INVARIANT FindReturnsLastWrite
