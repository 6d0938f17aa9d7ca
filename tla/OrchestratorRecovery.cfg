SPECIFICATION FairSpec
CONSTANTS
  Tickets = {1}
  Procs = {p1}
  Commits = {c1}
  NoCommit = NoCommit
  NoOne = NoOne
  MaxWorkerAttempts = 1
  MaxInfrastructureRetries = 2
  MaxReviewerRetries = 1
  MaxReported = 2
  Deps <- MCNoDeps
  Priority <- MCPriority
  Dispatching = {p1}
  AtomicCas = FALSE
  MaxCrashes = 1
  MaxRaises = 1
  MaxRevision = 30
INVARIANT
  IInv
PROPERTIES
  WorkflowsEnd
