SPECIFICATION Spec
CONSTANTS
  Tickets = {1}
  Procs = {p1, p2}
  Commits = {c1}
  NoCommit = NoCommit
  NoOne = NoOne
  MaxWorkerAttempts = 1
  MaxInfrastructureRetries = 2
  MaxReviewerRetries = 1
  MaxReported = 2
  Deps <- MCNoDeps
  Priority <- MCPriority
  Dispatching = {p1, p2}
  AtomicCas = TRUE
  MaxCrashes = 0
  MaxRaises = 0
  MaxRevision = 5
INVARIANTS
  StateBelongsToClaimant
  IInv
PROPERTIES
  NoLostUpdate
