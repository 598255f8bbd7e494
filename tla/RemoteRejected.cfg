SPECIFICATION SessionSpec
CONSTANTS
    Cmd = {1}
    MaxAttempts = 2
    MaxReconnects = 2
    Capacity = 2
    MaxRuns = 2

INVARIANTS RejectedHadNoEffect
CHECK_DEADLOCK FALSE
