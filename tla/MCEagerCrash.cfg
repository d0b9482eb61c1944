CONSTANTS
  Node <- MCNode
  Deps <- MCDeps
  Settled = {"answer"}
  Registered <- MCNode
  MaxNodes = 6
  Data <- MCData
  NoData = "none"
  Writes = {"file"}
  Previewable = {"file"}
  Asking = {"follow"}
  Flaky = {"gate", "file"}
  Faulty = {}
  Outcomes <- MCOutcomes
  MaxTries = 2
  MaxWorkers = 2
  Plan <- MCPlan
  Rules <- MCRules
  MaxCrashes = 1
SPECIFICATION Spec
INVARIANTS
  FollowUpsSurviveCrash
CHECK_DEADLOCK FALSE
