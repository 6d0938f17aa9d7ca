SPECIFICATION FairSpec
CONSTANTS
  Tickets = {1, 2}
  Procs = {p1}
  Commits = {c1}
  NoCommit = NoCommit
  NoOne = NoOne
  MaxWorkerAttempts = 1
  MaxInfrastructureRetries = 1
  MaxReviewerRetries = 1
  MaxReported = 2
  Deps <- MCChain
  Priority <- MCPriority
  Dispatching = {p1}
  AtomicCas = TRUE
  MaxCrashes = 0
  MaxRaises = 0
  MaxRevision = 30
INVARIANTS
  TypeOK
  StatusFollowsStage
  ClaimHasState
  DependenciesFirst
PROPERTIES
  ReadyIsClaimed
  MergedIsDone
