CONSTANTS
    None = None
    js = js
    Requests = {q1, q2}
    Runners = {r1}
    Launchers = {}
    Types = {js}
    RequestType <- JsRequests
    RunnerType <- JsRunners
    MaxConcurrency = 2
    MaxOffers = 3
    Mode = "internal"
SYMMETRY RequestSymmetry
SPECIFICATION Spec
INVARIANTS
    BrokerTypeOK
    CallsMatchTasks
    TasksCanEnd
    InProgressExact
    SlotsRespected
    SettingsExpected
PROPERTIES
    ImplementsCalls
CHECK_DEADLOCK FALSE
