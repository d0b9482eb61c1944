CONSTANTS
  Node <- MCNode
  Deps <- MCDeps
  Asks = {"file", "notify"}
  Timed = {"read"}
  MaxCrashes = 2
SPECIFICATION Spec
INVARIANTS
  PausedCanBeContinued
CHECK_DEADLOCK FALSE
