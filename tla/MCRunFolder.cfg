CONSTANTS
  Node <- MCNode
  Deps <- MCDeps
  Asks = {"file", "notify"}
  Timed = {"read"}
  MaxCrashes = 2
SPECIFICATION Spec
INVARIANTS
  JournalIsSound
  SentOnceAfterYes
PROPERTIES
  FinalIsFinal
CHECK_DEADLOCK FALSE
