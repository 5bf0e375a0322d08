CONSTANTS
    None = None
    Calls = {r1, r2, r3}
    Limit = 1
    Executions = {e1, e2}
    Limited = {e1, e2}
    HasTimeout = FALSE
    MaxStarts = 0
    MaxThrows = 1
SPECIFICATION Spec
SYMMETRY CallSymmetry
INVARIANTS
    TypeOK
    AtMostOneRun
    SlotsAttended
PROPERTIES
    QueueSpec
    NoStartWhileDraining
    ResultNeverReplacesCanceled
CHECK_DEADLOCK FALSE
