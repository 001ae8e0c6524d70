SPECIFICATION FairSpec
CONSTANTS
    Configs <- MCConfigs
    InitialConfig <- Base
    Unsupported <- MCUnsupported
    Impinj = FALSE
    ResetOnConnect = TRUE
    StartInventoryOnConnect = TRUE
    Ops = {"start", "apply", "pause", "resume", "txpower", "disconnect"}
    MaxOps = 4
    AnyTime = FALSE
    Outcomes = {"ok"}
    Timeouts = FALSE
    MayLose = FALSE
    MaxSessions = 2
PROPERTIES Settles CleanDisconnect DisconnectCompletes
CHECK_DEADLOCK FALSE
