SPECIFICATION LightsOutSpec
CONSTANTS
    u1 = u1
    u2 = u2
    q1 = q1
    r1 = r1
    N = 1
    Unit = {u1}
    StationOf <- AllAtOne
    Deps <- NoDeps
    W = 2
    Reviewer = {r1}
    Effective = {r1}
    RunReviewer = {q1}
    Gated = {u1}
    Promised = {}
    Mode = "dark"
    MaxPasses = 2
    MaxFilings = 1

INVARIANTS TypeOK
PROPERTIES GatesHoldAtLock SignalledLockIsSigned FindingsHoldLocks
