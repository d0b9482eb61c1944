CONSTANTS
  Caller = {a, w}
  Writer = {w}
  ReadAttempts = 2
  MaxTokens = 3
SPECIFICATION FairSessionSpec
INVARIANTS
  OneLoginPerToken
  WritesAppliedOnce
PROPERTIES
  CallsEnd
CHECK_DEADLOCK FALSE
