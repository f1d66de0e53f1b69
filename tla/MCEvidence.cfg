SPECIFICATION Spec
CONSTANTS
  Run = {r1, r2}
  Question = {"q1", "q2"}
  Control = {"c1", "c2"}
  MaxReviewAge = 2
  ClockGrace = 0
  FanoutLimit = 3
  ThreadPages = 2
  RequiredStatusChecks = {"tests", "Infrastructure Promotion"}
  Unanswered = Unanswered
  ResultAge = 0
  MaxClock = 1
  MaxChanges = 2
  h1 = h1
  h2 = h2
  PillarOf <- MCPillarOf
  Approval <- MCApproval
  World <- MCWorld
  Alternatives <- MCAlternatives
  Request <- MCRequest
  Replies <- MCReplies
INVARIANTS
  VerdictIsApproved
PROPERTIES
  SuccessMeansHeld
  FailureHasCause
  SuccessIsComplete
SYMMETRY RunSymmetry
CHECK_DEADLOCK FALSE
