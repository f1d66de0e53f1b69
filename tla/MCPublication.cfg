\* A publisher and two scope reports of two pull requests with one head.
\* The system stops once its jobs have ended: no deadlock check.
SPECIFICATION Spec
CONSTANTS
  q1 = q1
  s1 = s1
  s2 = s2
  p1 = p1
  p2 = p2
  NoRun = NoRun
  Publisher = {q1}
  Reporter = {s1, s2}
  PR = {p1, p2}
  PullOf <- SharedHead
  Slow = {q1, s1, s2}
INVARIANTS
  NoDuplicateDeployment
  SuccessIsPublished
  WriterUndisturbed
PROPERTIES
  ImplementsStatus
CHECK_DEADLOCK FALSE
