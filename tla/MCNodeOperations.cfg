SPECIFICATION NodeOpsSpec
CONSTANTS
    Nodes = {n1}
    MaxOps = 3
    MaxRecords = 1
    MaxCalls = 3
    MaxFaults = 1
    MaxCrashes = 1
INVARIANTS
    ReadyMeansManageable
PROPERTIES
    ServiceImplemented
    NodeUnstuck
CHECK_DEADLOCK FALSE
