SPECIFICATION Spec
CONSTANTS
  Ids <- MCIds
  Supported <- MCSupported
  Accesses <- MCAccesses
  Rejects = TRUE
  Timeouts = TRUE
  AnyTime = FALSE
  MaxCalls = 3
INVARIANTS LastAccessInForce StopLeavesNothing SessionSurvives
CHECK_DEADLOCK FALSE
