SPECIFICATION NatSpec
CONSTANTS
    Posts = {p1, p2}
    Bodies <- MCBodies
    Maps = {m1}
    NoMap = NoMap
    Ttl = 2
    Before = 1
    MaxNow = 1
    MaxFaults = 1
SYMMETRY Sym
INVARIANTS
    AppliedIsLive
PROPERTIES
    NoLostPatch
    ExitZeroMeansLive
CHECK_DEADLOCK FALSE
