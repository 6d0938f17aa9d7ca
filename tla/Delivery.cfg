SPECIFICATION DeliverySpec
CONSTANTS
  alice = alice
  bob = bob
  Workers = {w1, w2}
  Reviewers = {r1}
  Commits = {c1, c2}
  FirstCommit = c1
  NoCommit = NoCommit
  Checks = {k1}
  Buckets = {"pass", "pending"}
  Packages <- MCPackages
  Accounts = {alice, bob}
  Author = alice
  MaxPulls = 2
  QuietPeople = TRUE
  Dispatches = {d1, d2}
  Shas = {s1, s2}
  Releases = {v1}
  NoRelease = NoRelease
  Digests = {g1, g2}
  NoDigest = NoDigest
  NoRun = NoRun
INVARIANTS PullInv OnePullRequest ApprovalHasEvidence DecisionsAgree PubInv NoTokenAfterSuccess RefusalJustified
PROPERTIES ImplementsImmutableTags
SYMMETRY Symmetry
CHECK_DEADLOCK FALSE
