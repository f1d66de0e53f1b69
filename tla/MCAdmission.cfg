\* One comment, two pull requests, any dispatch.
\* The system stops once its bounds are reached: no deadlock check.
SPECIFICATION Spec
CONSTANTS
  p1 = p1
  p2 = p2
  c1 = c1
  m1 = m1
  m2 = m2
  h1 = h1
  h2 = h2
  h3 = h3
  None = None
  Missing = Missing
  Path <- Paths
  ClassOf <- Classes
  Commit = {m1, m2, h1, h2, h3}
  Tree <- Trees
  MergeBase <- MergeBases
  ListLimit = 2
  TrustBase = m1
  TrustHead = h2
  TrustPaths = {"shared", "doc"}
  TrustPath = "shared"
  Pull = {p1, p2}
  HeadSha = {h1, h2, h3}
  BaseSha = {m1, m2}
  InitialHead <- Heads
  InitialBase = m1
  Comment = {c1}
  PullOf <- Pulls
  Operation <- Operations
  Author = {"owner", "writer"}
  Said <- Commands
  IntakeAge = 0
  CommandAge = 0
  MaxClock = 1
  MaxChanges = 1
  MaxDispatch = 2
INVARIANTS
  ConsumedOnce
  AdmitsTheComment
  AdmittedAtOneMoment
  SelectionCovers
  SelectionIsCanonical
  ExpiredIsRefused
CHECK_DEADLOCK FALSE
