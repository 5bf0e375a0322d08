CONSTANTS
    Mains = {m1, m2}
    Workers = {w}
    Executions = {e}
    None = None
    MaxTrouble = 2
SPECIFICATION FairSpec
INVARIANTS
    ScalingTypeOK
    OneWorkerRuns
    SuccessIsKept
    RemovedNeverRuns
PROPERTIES
    RowsSettle
    CallsEnd
