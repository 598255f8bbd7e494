SPECIFICATION ObedientSpec
CONSTANTS
    u1 = u1
    u2 = u2
    r1 = r1
    N = 1
    Unit = {u1}
    StationOf <- AllAtOne
    Deps <- NoDeps
    W = 1
    Reviewer = {r1}
    Effective = {r1}
    RunReviewer = {}
    Gated = {u1}
    Promised = {u1}
    Mode = "dark"
    MaxPasses = 1
    MaxFilings = 0

PROPERTIES ProducedBeforeAudit
