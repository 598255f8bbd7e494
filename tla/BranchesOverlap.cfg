\* A worker locks its unit while a tick is on its way.
SPECIFICATION Spec
CONSTANTS
    u1 = u1
    u2 = u2
    u3 = u3
    hot = hot
    Base = base
    Main = main
    State = state
    N = 1
    Unit = {u1}
    StationOf <- MCStationOf
    Upstream = {}
    Clash <- AllClash
    Gated <- NoGate
    Orderly = FALSE
    MaxCrashes = 0
    MaxSoils = 0
    MaxLeaves = 0
INVARIANT LockedWorkKept
CHECK_DEADLOCK FALSE
