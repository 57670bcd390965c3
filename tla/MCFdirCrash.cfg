CONSTANTS
    Threads = {"janus_watchdog", "thermal"}
    NoThread = "nobody"
    CameraType = "color_camera"
    MaxAttempts <- MCAttempts
    Cooldown <- MCCooldown
    CmdTimeout <- MCTimeout
    DedupWindow = 1
    RebootCounterReset = 1
    MaxFdirReboots = 1
    RebootEnabled = TRUE
    StorageFaults = FALSE
    AgeCap = 1
    SafeAutoReset = 1
    CmdFaults = FALSE
    Domains = {"PIPELINE", "SENSOR", "JANUS"}
    Ttls <- MCTtls
    Ceiling = 3
    SettleMargin = 1
    EscalationDedup = 1
    Grace = 1
    NominalChecks = 2
    MaxSuppress = 1
    StaleAfter = 1
    MaxFaults = 1
    MaxCrashes = 1
SPECIFICATION FdirFairSpec
PROPERTIES
    LadderSpec
    QuiesceSpec
    Recovers
    PersistentFaultEnds
    SafeIsLeft
    CriticalTempAnswered
