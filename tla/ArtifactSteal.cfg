SPECIFICATION AgingSpec
CONSTANTS
    p1 = p1
    p2 = p2
    p3 = p3
    Proc = {p1, p2}
    Engine = {}
    NoProc = NoProc
PROPERTY StampedLiveLockKept
CHECK_DEADLOCK FALSE
