CONSTANTS
    None = None
    Calls = {r1, r2, r3}
    Limit = 1
    Executions = {e1}
    Limited = {e1}
    HasTimeout = TRUE
    MaxStarts = 1
    MaxThrows = 0
SPECIFICATION FairSpec
PROPERTIES
    FinishedStaysFinished
    RunningRowSettles
    QueueEmpties
CHECK_DEADLOCK FALSE
