SPECIFICATION ObedientSpec
CONSTANTS
    u1 = u1
    u2 = u2
    q1 = q1
    r1 = r1
    N = 1
    Unit = {u1}
    StationOf <- AllAtOne
    Deps <- NoDeps
    W = 1
    Reviewer = {r1}
    Effective = {r1}
    RunReviewer = {q1}
    Gated = {}
    Promised = {}
    Mode = "solo"
    MaxPasses = 1
    MaxFilings = 1

PROPERTIES SealedIsClean
