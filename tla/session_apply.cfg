SPECIFICATION Spec
CONSTANTS
    Configs <- MCConfigs
    InitialConfig <- Base
    Unsupported <- MCUnsupported
    Impinj = TRUE
    ResetOnConnect = TRUE
    StartInventoryOnConnect = TRUE
    Ops = {"start", "apply", "pause", "force_pause", "resume", "txpower", "disconnect"}
    MaxOps = 3
    AnyTime = FALSE
    Outcomes = {"ok", "fail"}
    Timeouts = FALSE
    MayLose = TRUE
    MaxSessions = 2
INVARIANTS TypeOK AppliedIsReal
PROPERTIES SuccessIsApplied FailureRollsBack
CHECK_DEADLOCK FALSE
