SPECIFICATION FairSpec
CONSTANTS
    u1 = u1
    u2 = u2
    r1 = r1
    r2 = r2
    N = 1
    Unit = {u1}
    StationOf <- AllAtOne
    Deps <- NoDeps
    W = 1
    Reviewer = {r1, r2}
    Effective = {r1}
    RunReviewer = {}
    Gated = {}
    Promised = {}
    Mode = "dark"
    MaxPasses = 1
    MaxFilings = 0

PROPERTIES RunSeals
