SPECIFICATION Spec
CONSTANTS
  Tickets = {1}
  Procs = {p1}
  Commits = {c1}
  NoCommit = NoCommit
  NoOne = NoOne
  MaxWorkerAttempts = 2
  MaxInfrastructureRetries = 2
  MaxReviewerRetries = 2
  MaxReported = 3
  Deps <- MCNoDeps
  Priority <- MCPriority
  Dispatching = {p1}
  AtomicCas = FALSE
  MaxCrashes = 1
  MaxRaises = 1
  MaxRevision = 30
INVARIANTS
  ClaimHasState
