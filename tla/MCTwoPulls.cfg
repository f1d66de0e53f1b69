\* Two pull requests deploy the platform to both accounts.
\* The system stops once its runs have ended: no deadlock check.
SPECIFICATION Spec
CONSTANTS
  r1 = r1
  r2 = r2
  p1 = p1
  p2 = p2
  c1 = c1
  c2 = c2
  h1 = h1
  h2 = h2
  NoContract = NoContract
  Outside = Outside
  Run = {r1, r2}
  Comment = {c1, c2}
  PR = {p1, p2}
  Scope = {3}
  CommentOf <- OwnComment
  Head = {h1, h2}
  HeadOf <- OwnHead
  PROf <- OwnPull
  CommentPR <- PullOfComment
  Requested <- FullUps
  Fickle = {}
  MaxMain = 0
  MaxAttempt = 1
INVARIANTS
  AppliedPlanIsCurrent
CHECK_DEADLOCK FALSE
