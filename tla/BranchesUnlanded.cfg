\* Two units of one station and a change on the base branch that conflicts with
\* the first; nothing fails.
SPECIFICATION Spec
CONSTANTS
    u1 = u1
    u2 = u2
    u3 = u3
    hot = hot
    Base = base
    Main = main
    State = state
    N = 1
    Unit = {u1, u2}
    StationOf <- MCStationOf
    Upstream = {hot}
    Clash <- AllClash
    Gated <- NoGate
    Orderly = TRUE
    MaxCrashes = 0
    MaxSoils = 0
    MaxLeaves = 0
PROPERTY UnitsLandFirst
CHECK_DEADLOCK FALSE
