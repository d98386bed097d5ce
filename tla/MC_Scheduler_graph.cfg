CONSTANTS
  Node <- GraphNode
  Depends <- GraphDepends
  ContinueOnFailure = {"s1"}
  ContinueOnSkipped = {"s2"}
  Preconditioned = {"s2", "s3"}
  Repeating = {"s3"}
  RetryLimit <- GraphRetryLimit
  MaxActiveRuns = 1
  HasTimeout = TRUE
  Handlers <- AllHandlers
  MailOnError = {"s1"}
  MailOnFailure = TRUE
  MailOnSuccess = TRUE
  MaxRuns = 2

SPECIFICATION FairSpec

INVARIANT TypeOK
INVARIANT DependencyOrder
INVARIANT ConcurrencyCap
INVARIANT HandlersRunLast
INVARIANT HandlerMatchesOutcome
INVARIANT FailureMailed

PROPERTY TerminalIsFinal
PROPERTY Termination
PROPERTY StopTerminates
