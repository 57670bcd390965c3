SPECIFICATION BringupSpec
CONSTANTS
    Cameras = {1, 2}
    Ports = {2, 3}
    MaxFaults = 1
    MaxCommands = 1
INVARIANTS
    HealthyMeansDelivered
    ExitZeroMeansFixed
PROPERTIES
    DriftCloses
CHECK_DEADLOCK FALSE
