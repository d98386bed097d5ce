CONSTANTS
  NRuns = 1
  Sec <- MCSecOne
  MaxWrites = 2
  MaxUpdates = 1
  Failures = FALSE
  TornWrites = FALSE
  UpdateAfterClose = FALSE
SPECIFICATION Spec
INVARIANT FindReturnsLastWrite
