CONSTANTS
    None = None
    Calls = {r1, r2, r3}
    Limit = 1
    Executions = {e1, e2}
    Limited = {e1, e2}
    HasTimeout = FALSE
    MaxStarts = 1
    MaxThrows = 0
SPECIFICATION FairSpec
PROPERTIES
    EnqueuedRunsAfterRestart
CHECK_DEADLOCK FALSE
