CONSTANTS
  Node <- GraphNode
  Depends <- GraphDepends
  ContinueOnFailure = {"s1"}
  ContinueOnSkipped = {"s2"}
  Preconditioned = {"s2", "s3"}
  Repeating = {}
  RetryLimit <- GraphRetryLimit
  MaxActiveRuns = 1
  HasTimeout = TRUE
  Handlers <- AllHandlers
  MailOnError = {"s1"}
  MailOnFailure = TRUE
  MailOnSuccess = TRUE
  MaxRuns = 1

SPECIFICATION FairSpec

INVARIANT AllTerminalAtReturn
