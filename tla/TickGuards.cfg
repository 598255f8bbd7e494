SPECIFICATION FairSpec
CONSTANTS
    Gate = {g1}
    R = 1
    W = 1
    HaltThreshold = 4
    ChurnWindow = 10
    ChurnMinTicks = 8
    DeferAfter = 2
    MaxPasses = 1
    MaxForgets = 1
    Unasked = FALSE
INVARIANTS TypeOK DiligentNeverHalted WedgeSurfaces
PROPERTIES KeepsSurfacing DiligentArrives
CHECK_DEADLOCK FALSE
