SPECIFICATION MCFairSpec
CONSTANTS
  p1 = p1
  p2 = p2
  weights = weights
  config = config
  other = other
  Procs = {p1, p2}
  NoOne = NoOne
  Unreadable = Unreadable
  Missing = Missing
  Directory = Directory
  Names <- MCNames
  Targets <- MCTargets
  Contents <- MCContents
  Size <- MCSize
  Namespace <- MCNamespace
  Wanted <- MCWanted
  Allowance <- MCAllowance
  Spoilt <- MCSpoilt
  Found = {Missing, weights, config}
  CHUNK_SIZE = 2
  MAX_RETRIES = 1
  RedirectBody = 1
  MaxLost = 1
  MaxCrashes = 1
  MaxSpoils = 1
INVARIANTS TypeOK MutualExclusion BudgetRespected NoNeedlessDownload LiveTempKept NoTempsAfterSuccess LockStands IInv
PROPERTIES ImplementsVerifiedCache AcquisitionEnds 
CHECK_DEADLOCK FALSE
