\* One run with every possible contract over the three stacks.
\* The system stops once its runs have ended: no deadlock check.
SPECIFICATION Spec
CONSTANTS
  r1 = r1
  r2 = r2
  p1 = p1
  p2 = p2
  c1 = c1
  c2 = c2
  h1 = h1
  h2 = h2
  NoContract = NoContract
  Outside = Outside
  Run = {r1}
  Comment = {c1}
  PR = {p1}
  Scope = {1, 2, 3}
  CommentOf <- OneComment
  Head = {h1, h2}
  HeadOf <- OneHead
  PROf <- OnePull
  CommentPR <- PullOfComment
  Requested <- Anything
  Fickle = {"source"}
  MaxMain = 1
  MaxAttempt = 2
INVARIANTS
  StacksInOrder
  AtMostOneApply
  AtMostOneLateApply
PROPERTIES
  RerunsNeverDeploy
  ImplementsSchedule
CHECK_DEADLOCK FALSE
