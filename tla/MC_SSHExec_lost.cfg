CONSTANTS
  MaxKills = 3
  GraceOutlastsSetup = TRUE
SPECIFICATION FairSpec
PROPERTY KillEndsRun
