SPECIFICATION FairSpec
CONSTANTS
    Calls = {"connect", "disconnect", "hard_disconnect", "delete"}
    MaxCalls = 3
    Reconnects = FALSE
    Retries = {2}
    Timeouts = TRUE
    Durations = TRUE
    Failures = {"eof", "fatal", "error", "giveup"}
    MaxSessions = 1
PROPERTIES DisconnectEnds HardDisconnectEnds
CHECK_DEADLOCK FALSE
