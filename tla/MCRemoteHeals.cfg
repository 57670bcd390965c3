SPECIFICATION RemoteSpec
CONSTANTS
    Nodes = {n1}
    Sensors = {s1}
    Hosts = {h1}
    Clients = {c1}
    Onboarded = {n1}
    Window = 2
    Throttle = 2
    MaxOps = 1
    MaxFaults = 3
PROPERTY
    Heals
