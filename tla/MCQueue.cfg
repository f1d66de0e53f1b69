\* Two dispatches of one comment, in the group of its pull request.
\* The system stops once its runs have ended: no deadlock check.
SPECIFICATION FairSpec
CONSTANTS
  r1 = r1
  r2 = r2
  p1 = p1
  p2 = p2
  c1 = c1
  c2 = c2
  h1 = h1
  h2 = h2
  NoContract = NoContract
  Outside = Outside
  Run = {r1, r2}
  Comment = {c1}
  PR = {p1}
  Scope = {3}
  CommentOf <- OneComment
  Head = {h1, h2}
  HeadOf <- OneHead
  PROf <- OnePull
  CommentPR <- PullOfComment
  Requested <- TestUps
  Fickle = {"review"}
  MaxMain = 0
  MaxAttempt = 2
INVARIANTS
  ClaimedOnce
PROPERTIES
  EveryRunFinishes
CHECK_DEADLOCK FALSE
