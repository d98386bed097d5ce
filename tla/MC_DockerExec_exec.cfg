CONSTANTS
  AutoRemove = TRUE
  Pull = FALSE
  ExecMode = TRUE
  KillReadsStale = TRUE
  MaxKills = 3
  GraceOutlastsSetup = TRUE
SPECIFICATION FairSpec
PROPERTY KillEndsRun
