SPECIFICATION ObedientSpec
CONSTANTS
    u1 = u1
    u2 = u2
    r1 = r1
    N = 2
    Unit = {u1, u2}
    StationOf <- OneEach
    Deps <- NoDeps
    W = 1
    Reviewer = {r1}
    Effective = {r1}
    RunReviewer = {}
    Gated = {}
    Promised = {}
    Mode = "solo"
    MaxPasses = 1
    MaxFilings = 1

INVARIANTS ApprovableGate
