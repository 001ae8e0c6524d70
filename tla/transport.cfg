SPECIFICATION FairSpec
CONSTANTS
    Calls = {"connect", "disconnect", "delete"}
    MaxCalls = 5
    Reconnects = TRUE
    Retries <- MCRetries
    Timeouts = FALSE
    Durations = FALSE
    Failures = {"eof", "fatal", "error"}
    MaxSessions = 3
INVARIANTS TypeOK NotifiedOnce NotifiedAtAll NoOrphanSocket
PROPERTIES ClosesItsOwn LossResolved
CHECK_DEADLOCK FALSE
