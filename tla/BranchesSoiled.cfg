\* Somebody edits a file at the repository root while a station lands.
SPECIFICATION Spec
CONSTANTS
    u1 = u1
    u2 = u2
    u3 = u3
    hot = hot
    Base = base
    Main = main
    State = state
    N = 1
    Unit = {u1}
    StationOf <- MCStationOf
    Upstream = {}
    Clash <- AllClash
    Gated <- NoGate
    Orderly = TRUE
    MaxCrashes = 0
    MaxSoils = 1
    MaxLeaves = 0
INVARIANT SealedIsLanded
CHECK_DEADLOCK FALSE
