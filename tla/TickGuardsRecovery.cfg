SPECIFICATION Spec
CONSTANTS
    Gate = {g1}
    R = 2
    W = 1
    HaltThreshold = 4
    ChurnWindow = 10
    ChurnMinTicks = 8
    DeferAfter = 2
    MaxPasses = 1
    MaxForgets = 0
    Unasked = FALSE
PROPERTIES ProgressResetsGuard
CHECK_DEADLOCK FALSE
