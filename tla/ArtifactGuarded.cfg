SPECIFICATION FairPunctualSpec
CONSTANTS
    p1 = p1
    p2 = p2
    p3 = p3
    Proc = {p1, p2}
    Engine = {}
    NoProc = NoProc
INVARIANTS TypeOK MutualExclusion AcknowledgedEditsSurvive
PROPERTIES StampedLiveLockKept AcquireEnds IsAtomic
CHECK_DEADLOCK FALSE
