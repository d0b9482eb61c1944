CONSTANTS
  Node <- MCNode
  Deps <- MCDeps
  Settled = {"join"}
  Registered <- MCNode
  MaxNodes = 5
  Data <- MCData
  NoData = "none"
  Writes = {"join"}
  Previewable = {"join"}
  Asking = {"ask"}
  Flaky = {"left"}
  Faulty = {"right"}
  Outcomes <- MCOutcomes
  MaxTries = 2
  MaxWorkers = 2
  Rules <- MCRules
  Channel <- MCChannel
  Kind <- MCKind
  Names <- MCNames
  Value <- MCNode
  Combine <- MCCombine
  Initial <- MCInitial
  NameOrder <- MCNameOrder
  IdOrder <- MCIdOrder
  Plan = {"left", "right", "join"}
  WritesOf <- MCWritesOf
  MaxSteps = 3
  MaxCrashes = 1
SPECIFICATION FairSpec
PROPERTIES
  TimingIsInvisible
  OneSnapshot
  KeepsItsPromise
  RunEnds
CHECK_DEADLOCK FALSE
