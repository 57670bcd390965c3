SPECIFICATION RemoteSpec
CONSTANTS
    Nodes = {n1}
    Sensors = {s1, s2}
    Hosts = {h1}
    Clients = {c1, c2}
    Onboarded = {}
    Window = 2
    Throttle = 1
    MaxOps = 3
    MaxFaults = 1
INVARIANTS
    RemoteSlotsDisjoint
    BindingHasNode
CHECK_DEADLOCK FALSE
