CONSTANTS
    None = None
    js = js
    Requests = {q1}
    Runners = {r1, r2}
    Launchers = {r2}
    Types = {js}
    RequestType <- JsRequests
    RunnerType <- JsRunners
    MaxConcurrency = 1
    MaxOffers = 1
    Mode = "external"
SPECIFICATION FairSpec
INVARIANTS
    TasksHaveRunners
PROPERTIES
    CallsEnd
    TasksEnd
CHECK_DEADLOCK FALSE
