\* The operator switches the primary checkout to the base branch once.
SPECIFICATION RovingSpec
CONSTANTS
    u1 = u1
    u2 = u2
    u3 = u3
    hot = hot
    Base = base
    Main = main
    State = state
    N = 1
    Unit = {u1}
    StationOf <- MCStationOf
    Upstream = {}
    Clash <- AllClash
    Gated <- NoGate
    Orderly = TRUE
    MaxCrashes = 0
    MaxSoils = 0
    MaxLeaves = 1
PROPERTY MainAccumulates
CHECK_DEADLOCK FALSE
