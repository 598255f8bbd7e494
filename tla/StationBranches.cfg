SPECIFICATION FairSpec
CONSTANTS
    u1 = u1
    u2 = u2
    u3 = u3
    hot = hot
    Base = base
    Main = main
    State = state
    N = 2
    Unit = {u1, u2, u3}
    StationOf <- MCStationOf
    Upstream = {hot}
    Clash <- HotAtTwo
    Gated <- First
    Orderly = TRUE
    MaxCrashes = 2
    MaxSoils = 1
    MaxLeaves = 0
INVARIANT TypeOK
PROPERTIES WorkKept MainTakesVerified LandsAreClean WorkArrives
CHECK_DEADLOCK FALSE
