SPECIFICATION Spec
CONSTANTS
  Tickets = {1}
  Procs = {p1}
  Commits = {c1, c2}
  NoCommit = NoCommit
  NoOne = NoOne
  MaxWorkerAttempts = 2
  MaxInfrastructureRetries = 1
  MaxReviewerRetries = 1
  MaxReported = 3
  Deps <- MCNoDeps
  Priority <- MCPriority
  Dispatching = {p1}
  AtomicCas = FALSE
  MaxCrashes = 1
  MaxRaises = 0
  MaxRevision = 30
INVARIANTS
  ApprovalIsBacked
  CompletionIsExternal
  RetriesWithinPolicy
PROPERTIES
  ImplementsLifecycle
SYMMETRY MCSymmetry
