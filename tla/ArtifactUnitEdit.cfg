SPECIFICATION MixedSpec
CONSTANTS
    p1 = p1
    p2 = p2
    p3 = p3
    Proc = {p1, p2, p3}
    Engine = {p3}
    NoProc = NoProc
PROPERTY GuardedNeverClobbers
CHECK_DEADLOCK FALSE
