SPECIFICATION FairSpec
CONSTANTS
    Cmd = {1, 2}
    MaxAttempts = 2
    MaxReconnects = 2
    Capacity = 2
    MaxRuns = 2

INVARIANTS TypeOK AtMostOnce VerdictIsTrue
PROPERTIES VerdictIsFinal CommandsSettle
CHECK_DEADLOCK FALSE
