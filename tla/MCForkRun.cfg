CONSTANTS
  Node <- MCNode
  Deps <- MCDeps
  Settled = {}
  Registered <- MCNode
  MaxNodes = 5
  Data <- MCData
  NoData = "none"
  Rules <- MCRules
  Modes <- MCModes
  Plan = {"gate", "rev", "join"}
  Outcomes <- MCOutcomes
  WritesOf <- MCWritesOf
  Text = 9
  Updates <- MCUpdates
  Channel <- MCChannel
  Kind <- MCKind
  Names <- MCNames
  Value <- MCValue
  Combine <- MCCombine
  Initial <- MCInitial
  NameOrder <- MCNameOrder
  IdOrder <- MCIdOrder
  MaxForks = 1
  MaxCrashes = 1
  MaxConsumes = 1
SPECIFICATION Spec
INVARIANTS
  NothingStale
  FollowUpsMatchResults
  ReplayMakesTheSame
  HistoryLosesFew
PROPERTIES
  ReadersMissNothing
CHECK_DEADLOCK FALSE
