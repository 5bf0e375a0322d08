CONSTANTS
    None = None
    p = p
    c = c
    Mains = {m1, m2}
    Executions = {p, c}
    Parent <- Family
    MaxWaits = 1
    MaxAttempts = 2
    MaxTrouble = 2
SPECIFICATION Spec
SYMMETRY MainSymmetry
INVARIANTS
    WaitTypeOK
    RunsOnce
    OutputReachesParent
PROPERTIES
    EndedStaysEnded
CHECK_DEADLOCK FALSE
