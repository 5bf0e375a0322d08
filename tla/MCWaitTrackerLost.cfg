CONSTANTS
    None = None
    p = p
    c = c
    Mains = {m1}
    Executions = {p}
    Parent <- NoParents
    MaxWaits = 1
    MaxAttempts = 2
    MaxTrouble = 1
SPECIFICATION FairSpec
PROPERTIES
    TimedWaitsEnd
CHECK_DEADLOCK FALSE
