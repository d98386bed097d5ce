CONSTANTS
  NRuns = 1
  Sec <- MCSecOne
  MaxWrites = 1
  MaxUpdates = 0
  Failures = FALSE
  TornWrites = FALSE
  UpdateAfterClose = TRUE
  RecentN = 2
  MaxReads = 1
SPECIFICATION ReaderSpec
INVARIANT ReadSeesHistory
