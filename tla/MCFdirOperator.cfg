CONSTANTS
    Threads = {"snapshot_watchdog", "operator"}
    NoThread = "nobody"
    CameraType = "color_camera"
    MaxAttempts <- MCAttempts
    Cooldown <- MCPipelineCooldown
    CmdTimeout <- MCTimeout
    DedupWindow = 1
    RebootCounterReset = 1
    MaxFdirReboots = 0
    RebootEnabled = FALSE
    StorageFaults = FALSE
    AgeCap = 2
    SafeAutoReset = 1
    CmdFaults = TRUE
    Domains = {"PIPELINE", "SENSOR", "JANUS"}
    Ttls <- MCTtls
    Ceiling = 3
    SettleMargin = 1
    EscalationDedup = 1
    Grace = 1
    NominalChecks = 1
    MaxSuppress = 1
    StaleAfter = 1
    MaxFaults = 1
    MaxCrashes = 0
SPECIFICATION FdirSpec
INVARIANTS
    BlindOnlyForOwnRestart
