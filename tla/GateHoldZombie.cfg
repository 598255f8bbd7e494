SPECIFICATION Spec
CONSTANTS
    a1 = a1
    h1 = h1
    Agent = {a1}
    Operator = {h1}
    Waker = {h1}
    Viewer = {h1}
    Talker = {}
    MaxGates = 2
    MayAsk = FALSE
    MayReset = TRUE
INVARIANTS RetiredStaysGone
CHECK_DEADLOCK FALSE
