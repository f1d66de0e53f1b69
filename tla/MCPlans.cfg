SPECIFICATION Spec
CONSTANTS
  Worker = {"w1", "w2"}
  Stacks <- TwoStacks
  Commit = {"good", "late", "replaces", "stray", "flagged"}
  Urn = {"bucket", "encryption", "policy"}
  Program <- TestProgram
  Inputs <- TestInputs
  Late <- TestLate
  InitialStates <- TestInitial
  StatementsOf <- TestStatements
  ReviewedDocuments <- NoReviewed
  Flagged = {"flagged"}
  RequiredTags = {"Owner"}
  AllowedRegions = {"here"}
  ProductionEnvironments = {"prod"}
  PublicBuckets = {}
  Sources <- TestSources
  MaxEdits = 1
  MaxRuns <- TestRuns
PROPERTIES
  UpdatesAreReviewed
  StartsFromPlannedCheckpoint
  EarlierStacksFirst
  ProtectedWhenApplied
CHECK_DEADLOCK FALSE
