SPECIFICATION Spec
CONSTANTS
    Run = {r1, r2}
    Protected <- TwoProtected
    Unattended <- OneUnattended
    Evidence = "evidence"
    FirstId = 2
    Reviewer = "reviewer"
    App = "app"
    Before <- Sites
    HandSettings <- ByPeople
    HandRulesets <- RulesByPeople
    MaxEdits = 1
INVARIANTS
    AppliedVerifies
    ChecksKept
PROPERTIES
    OnlyMainIsAdded
CHECK_DEADLOCK FALSE
SYMMETRY Runs
