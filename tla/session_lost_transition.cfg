SPECIFICATION Spec
CONSTANTS
    Configs <- MCConfigs
    InitialConfig <- Base
    Unsupported <- MCUnsupported
    Impinj = FALSE
    ResetOnConnect = TRUE
    StartInventoryOnConnect = TRUE
    Ops = {"apply"}
    MaxOps = 1
    AnyTime = FALSE
    Outcomes = {"ok"}
    Timeouts = FALSE
    MayLose = TRUE
    MaxSessions = 1
INVARIANTS OldStaysAuthoritative
CHECK_DEADLOCK FALSE
