CONSTANTS
    None = None
    Calls = {r1, r2}
    Limit = 1
    Executions = {e1}
    Limited = {e1}
    HasTimeout = FALSE
    MaxStarts = 0
    MaxThrows = 0
SPECIFICATION Spec
INVARIANTS
    StoppedStaysStopped
CHECK_DEADLOCK FALSE
