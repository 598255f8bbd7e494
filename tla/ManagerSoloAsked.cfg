SPECIFICATION ObedientSpec
CONSTANTS
    u1 = u1
    u2 = u2
    q1 = q1
    r1 = r1
    N = 1
    Unit = {u1, u2}
    StationOf <- AllAtOne
    Deps <- Chain
    W = 2
    Reviewer = {r1}
    Effective = {r1}
    RunReviewer = {q1}
    Gated = {u1}
    Promised = {u2}
    Mode = "solo"
    MaxPasses = 2
    MaxFilings = 2

INVARIANTS SpecGate ApprovableGate
