\* An installed run, a staged run and a backfill over two messages.
\* The system stops once its runs have ended: no deadlock check.
SPECIFICATION TriageSpec
CONSTANTS
  t0 = t0
  t1 = t1
  b1 = b1
  s1 = s1
  s2 = s2
  m1 = m1
  m2 = m2
  Unmarked = Unmarked
  Message = {m1, m2}
  Event <- Events
  Stream = {s1, s2}
  TriageRun = {t0, t1, b1}
  Workflow <- Workflows
  Target <- Target1
  PageSize = 2
  MaxPages = 2
  MaxReceipt = 2
INVARIANTS
  DeletedIsRecorded
  OneOpenIssue
  RepeatedAfterFailure
SYMMETRY Symmetry
CHECK_DEADLOCK FALSE
