\* An installed run whose messages reappear while it receives.
\* The system stops once its runs have ended: no deadlock check.
SPECIFICATION TriageSpec
CONSTANTS
  t0 = t0
  t1 = t1
  b1 = b1
  s1 = s1
  s2 = s2
  m1 = m1
  m2 = m2
  Unmarked = Unmarked
  Message = {m1, m2}
  Event <- Events
  Stream = {s1, s2}
  TriageRun = {t0}
  Workflow <- Workflows
  Target <- Target1
  PageSize = 2
  MaxPages = 3
  MaxReceipt = 2
INVARIANTS
  CountsMessagesOnce
CHECK_DEADLOCK FALSE
