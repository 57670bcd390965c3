CONSTANTS
    Threads = {t1, t2, t3}
    NoThread = NoThread
    CameraType = "depth_camera"
    MaxAttempts <- MCAttempts
    Cooldown <- MCCooldown
    CmdTimeout <- MCTimeout
    DedupWindow = 1
    RebootCounterReset = 6
    MaxFdirReboots = 2
    RebootEnabled = TRUE
    StorageFaults = FALSE
    AgeCap = 4
    SafeAutoReset = 0
    CmdFaults = FALSE
    Domains = {PIPELINE, SENSOR, JANUS}
    Ttls = {2, 6}
    Ceiling = 4
    Serial = "D435"
    Sensors = {depth, ir1, ir2}
    Admins = {"admin"}
    MpIdMax = 1307
    PortMax = 5011
    DashboardPorts = {5008}
    MaxFaults = 1
    MaxBoots = 1
    MaxCalls = 2
SPECIFICATION PartsSpec
SYMMETRY SensorSymmetry
INVARIANTS
    BudgetsSurviveCrashes
    RebootIsLastResort
    RebootsBounded
    EnforcedWhenSerial
    BlindnessBounded
    GateFollowsHolders
    SlotsDisjoint
    ReusedMountpointFits
    EncoderSendsToItsRow
    BootBringsUp
PROPERTIES
    CooldownKept
CHECK_DEADLOCK FALSE
