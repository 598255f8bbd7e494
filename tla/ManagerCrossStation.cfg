SPECIFICATION ObedientSpec
CONSTANTS
    u1 = u1
    u2 = u2
    r1 = r1
    N = 2
    Unit = {u1, u2}
    StationOf <- OneEach
    Deps <- Chain
    W = 1
    Reviewer = {r1}
    Effective = {r1}
    RunReviewer = {}
    Gated = {}
    Promised = {}
    Mode = "dark"
    MaxPasses = 1
    MaxFilings = 0

PROPERTIES NoopIsMidWave
