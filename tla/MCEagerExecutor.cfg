CONSTANTS
  Node <- MCNode
  Deps <- MCDeps
  Settled = {"answer"}
  Registered <- MCNode
  MaxNodes = 5
  Data <- MCData
  NoData = "none"
  Writes = {"file"}
  Previewable = {"file"}
  Asking = {"follow"}
  Flaky = {"gate", "file"}
  Faulty = {"rev", "follow"}
  Outcomes <- MCOutcomes
  MaxTries = 2
  MaxWorkers = 2
  Plan <- MCPlan
  Rules <- MCRules
  MaxCrashes = 1
SPECIFICATION FairSpec
INVARIANTS
  GraphsSound
  NothingStranded
  FollowUpsJoined
PROPERTIES
  DoneIsDurable
  CallsAreSafe
  EveryNodeEnds
CHECK_DEADLOCK FALSE
