CONSTANTS
    None = None
    p = p
    c = c
    Mains = {m1}
    Executions = {p, c}
    Parent <- Family
    MaxWaits = 2
    MaxAttempts = 2
    MaxTrouble = 1
SPECIFICATION FairSpec
PROPERTIES
    TrackedWaitsEnd
    ParentsResume
CHECK_DEADLOCK FALSE
