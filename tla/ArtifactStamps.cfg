SPECIFICATION MixedSpec
CONSTANTS
    p1 = p1
    p2 = p2
    p3 = p3
    Proc = {p1, p2, p3}
    Engine = {p2, p3}
    NoProc = NoProc
INVARIANT StampsSurvive
CHECK_DEADLOCK FALSE
