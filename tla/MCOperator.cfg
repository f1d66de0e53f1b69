\* Two workers of one account, two changes by others.
\* The system stops once its bounds are reached: no deadlock check.
SPECIFICATION Spec
CONSTANTS
  None = None
  NotFrozen = NotFrozen
  Role = {"deploy", "config"}
  Policy = {"guard", "work", "shared", "limit"}
  Document = {"trust1", "trust2", "bad", "doc1"}
  RoleRead = {"deploy", "config"}
  RoleWrite = {"deploy"}
  PolicyRead = {"guard", "work", "shared", "limit"}
  PolicyWrite = {"work", "shared"}
  Secret = {"token"}
  Oidc = "github"
  Quota = 2
  Boundary <- Boundaries
  Guards <- GuardSets
  Attached <- Inventory
  Frozen <- Trusts
  ExclusiveRole = "deploy"
  Rejected = {"bad"}
  Wanted <- Wants
  Forgery <- Written
  InitialRows <- Starts
  InitialLive <- Lives
  Outside <- Others
  Provider = {"key1", "key2"}
  MaxEdits = 2
  MaxForged = 1
  MaxRuns = 2
  MaxChanges = 2
INVARIANTS
  AppliedIsPreviewed
  CheckpointStaysValid
  DriftIsSeen
PROPERTIES
  OperatorsKeep
CHECK_DEADLOCK FALSE
