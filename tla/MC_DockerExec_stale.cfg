CONSTANTS
  AutoRemove = TRUE
  Pull = FALSE
  ExecMode = FALSE
  KillReadsStale = TRUE
  MaxKills = 3
  GraceOutlastsSetup = TRUE
SPECIFICATION FairSpec
INVARIANT NoOrphanProcess
