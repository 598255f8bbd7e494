SPECIFICATION SessionSpec
CONSTANTS
    Cmd = {1, 2}
    MaxAttempts = 2
    MaxReconnects = 2
    Capacity = 2
    MaxRuns = 2

PROPERTIES OutcomeIsOfTheLatest
CHECK_DEADLOCK FALSE
