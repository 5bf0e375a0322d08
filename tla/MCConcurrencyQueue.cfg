CONSTANTS
    Calls = {c1, c2, c3, c4, c5}
    Limit = 2
SPECIFICATION QueueSpec
INVARIANTS
    Accounting
    QueueIsWaiting
    NoIdleCapacity
    OvershootBounded
PROPERTIES
    NoOvertaking
