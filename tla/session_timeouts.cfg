SPECIFICATION FairSpec
CONSTANTS
    Configs <- MCConfigs
    InitialConfig <- Base
    Unsupported <- MCUnsupported
    Impinj = FALSE
    ResetOnConnect = FALSE
    StartInventoryOnConnect = TRUE
    Ops = {"apply", "pause", "resume"}
    MaxOps = 3
    AnyTime = FALSE
    Outcomes = {"ok", "fail", "silent"}
    Timeouts = TRUE
    MayLose = FALSE
    MaxSessions = 1
PROPERTIES TransitionEnds
CHECK_DEADLOCK FALSE
