SPECIFICATION Spec
CONSTANTS
    Cmd = {1}
    MaxAttempts = 2
    MaxReconnects = 2
    Capacity = 2
    MaxRuns = 2

INVARIANTS AtMostOnce
CHECK_DEADLOCK FALSE
