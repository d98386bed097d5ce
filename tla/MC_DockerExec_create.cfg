CONSTANTS
  AutoRemove = TRUE
  Pull = TRUE
  ExecMode = FALSE
  KillReadsStale = FALSE
  MaxKills = 3
  GraceOutlastsSetup = TRUE
SPECIFICATION FairSpec
INVARIANT NoOrphanProcess
PROPERTY KillEndsRun
