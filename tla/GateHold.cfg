SPECIFICATION FairSpec
CONSTANTS
    a1 = a1
    h1 = h1
    Agent = {a1}
    Operator = {h1}
    Waker = {h1}
    Viewer = {h1}
    Talker = {h1}
    MaxGates = 2
    MayAsk = TRUE
    MayReset = TRUE
INVARIANTS TypeOK NoFalseSuccess RawGateOnlyOfAGoneRun
PROPERTIES NoSpin DecisionIsTold
CHECK_DEADLOCK FALSE
