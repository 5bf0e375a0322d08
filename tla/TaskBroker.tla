----------------------------- MODULE TaskBroker -----------------------------
(***************************************************************************)
(* Task requests of Code nodes, the broker that matches them with offers,  *)
(* and the runners that execute them.                                      *)
(*                                                                         *)
(*   cli/src/task-runners/task-managers/task-requester.ts      startTask   *)
(*   cli/src/task-runners/task-broker/task-broker.service.ts   the broker  *)
(*   cli/src/task-runners/task-broker/task-broker-ws-server.ts connections *)
(*   @n8n/task-runner/src/task-runner.ts                       the runner  *)
(*                                                                         *)
(* Requester and broker live in the same process and call each other       *)
(* directly: what they do in answer to one event, promise continuations    *)
(* included, is one action.  Broker and runner exchange messages over a    *)
(* web socket, in order.  Each offer is matched at most once, so the task  *)
(* that acceptOffer makes for it carries the name of the offer.            *)
(*                                                                         *)
(* The runners are JavaScript runners.  The Python runner answers the same *)
(* messages in other ways (it sets no timer for a task that waits for its  *)
(* settings) and is not modelled.                                          *)
(***************************************************************************)
EXTENDS Filters, FiniteSets

CONSTANTS
    Requests,           \* calls of startTask, each with its request id
    Runners,            \* runner ids; a runner process connects once
    Launchers,          \* the runner ids used by launchers
    Types,
    RequestType,        \* task type of each request
    RunnerType,         \* task type of each runner
    MaxConcurrency,     \* tasks a runner works on at a time
    MaxOffers,          \* bound: offers of one runner
    Mode,               \* N8N_RUNNERS_MODE
    None

ASSUME BrokerAssumption ==
    /\ IsFiniteSet(Requests) /\ IsFiniteSet(Runners) /\ Launchers \subseteq Runners
    /\ RequestType \in [Requests -> Types] /\ RunnerType \in [Runners -> Types]
    /\ MaxConcurrency \in Nat \ {0} /\ MaxOffers \in Nat
    /\ Mode \in {"internal", "external"}
    /\ None \notin Requests

(* The k-th offer of runner r, and the task that comes of it.              *)
Offers == Runners \X (1..MaxOffers)

VARIABLES
    call,           \* requester: what startTask of a request has come to
    knownRunners,   \* broker, as the maps and lists of the class
    pendingTaskOffers,
    pendingTaskRequests,
    acceptInProgress,    \* requests with that flag
    runnerAcceptRejects,
    tasks,
    isDraining,
    request,        \* the request argument of each acceptOffer
    awaiting,       \* offers whose acceptOffer awaits the runner's answer
    settled,        \* tasks whose settings were sent, which starts their timeout
    conn,           \* the web socket of a runner
    toRunner, toBroker,  \* messages on their way
    offering,       \* runners with canSendOffers
    draining,       \* runners that committed to draining
    sent,           \* number of offers a runner has made
    openOffers,
    status          \* runningTasks: the status of each task

requesterVars == <<call>>
brokerVars == <<knownRunners, pendingTaskOffers, pendingTaskRequests, acceptInProgress,
                runnerAcceptRejects, tasks, isDraining, request, awaiting, settled>>
runnerVars == <<offering, draining, sent, openOffers, status>>
vars == <<requesterVars, brokerVars, conn, toRunner, toBroker, runnerVars>>

OffersOf(r) == {o \in Offers : o[1] = r}
RunningTasks(r) == {o \in OffersOf(r) : status[o] # "none"}

BrokerTypeOK ==
    /\ call \in [Requests -> {"new", "requested", "running", "done", "error",
                              "expired", "cancelled"}]
    /\ knownRunners \subseteq Runners
    /\ pendingTaskOffers \in Seq(Offers) /\ IsInjective(pendingTaskOffers)
    /\ pendingTaskRequests \in Seq(Requests) /\ IsInjective(pendingTaskRequests)
    /\ acceptInProgress \subseteq Requests
    /\ awaiting \subseteq runnerAcceptRejects /\ runnerAcceptRejects \subseteq Offers
    /\ tasks \subseteq Offers /\ settled \subseteq Offers
    /\ isDraining \in BOOLEAN
    /\ request \in [Offers -> Requests \cup {None}]
    /\ conn \in [Runners -> {"off", "up", "closing", "closed"}]
    /\ offering \subseteq Runners /\ draining \subseteq Runners
    /\ sent \in [Runners -> 0..MaxOffers]
    /\ openOffers \subseteq Offers
    /\ status \in [Offers -> {"none", "waitingForSettings", "running",
                              "aborting:cancelled", "aborting:timeout"}]

Init ==
    /\ call = [q \in Requests |-> "new"]
    /\ knownRunners = {}
    /\ pendingTaskOffers = <<>>
    /\ pendingTaskRequests = <<>>
    /\ acceptInProgress = {}
    /\ runnerAcceptRejects = {}
    /\ tasks = {}
    /\ isDraining = FALSE
    /\ request = [o \in Offers |-> None]
    /\ awaiting = {}
    /\ settled = {}
    /\ conn = [r \in Runners |-> "off"]
    /\ toRunner = [r \in Runners |-> <<>>]
    /\ toBroker = [r \in Runners |-> <<>>]
    /\ offering = {}
    /\ draining = {}
    /\ sent = [r \in Runners |-> 0]
    /\ openOffers = {}
    /\ status = [o \in Offers |-> "none"]

-----------------------------------------------------------------------------
(* Messages.  The broker only sends to runners it knows, and what is sent  *)
(* on a closed socket is lost.                                             *)

Message(type, o) == [type |-> type, id |-> o]
Reachable(r) == r \in knownRunners /\ conn[r] = "up"
Sending(r, messages) ==
    [toRunner EXCEPT ![r] = IF Reachable(r) THEN @ \o messages ELSE @]
MessageRunner(o, type) == toRunner' = Sending(o[1], <<Message(type, o)>>)

(* The next message of a runner, dropped if the broker does not know it.   *)
FromRunner(r, types) ==
    /\ toBroker[r] # <<>>
    /\ Head(toBroker[r]).type \in types
    /\ toBroker' = [toBroker EXCEPT ![r] = Tail(@)]

(* The next message of the broker, and the answers of the runner to it.    *)
FromBroker(r, type) ==
    /\ conn[r] \in {"up", "closing"}
    /\ toRunner[r] # <<>>
    /\ Head(toRunner[r]).type = type
    /\ toRunner' = [toRunner EXCEPT ![r] = Tail(@)]
Send(r, messages) == toBroker' = [toBroker EXCEPT ![r] = @ \o messages]

-----------------------------------------------------------------------------
(* settleTasks: expired offers go, and each request that is not being      *)
(* accepted takes the first offer of its type that is left.                *)

Ready(requests, t) ==
    Filter(requests, {q \in Requests \ acceptInProgress : RequestType[q] = t})
OffersOfType(offers, t) == Filter(offers, {o \in Offers : RunnerType[o[1]] = t})
Matches(offers, requests) ==
    UNION {{<<OffersOfType(offers, t)[i], Ready(requests, t)[i]>> :
               i \in DOMAIN OffersOfType(offers, t) \cap DOMAIN Ready(requests, t)} : t \in Types}

(* expireTasks: a launcher's offers do not expire. *)
Expirable(offers) == {o \in ToSet(offers) : o[1] \notin Launchers}

(* acceptOffer up to the point where it awaits the runner's answer, for    *)
(* each offer that was matched.                                            *)
AcceptOffers(offers, matches) ==
    LET matched == {m[1] : m \in matches}
        For(r)  == Filter(offers, matched \cap OffersOf(r))
    IN  /\ request' = [o \in Offers |-> IF o \in matched
                                        THEN (CHOOSE m \in matches : m[1] = o)[2]
                                        ELSE request[o]]
        /\ awaiting' = awaiting \cup matched
        /\ runnerAcceptRejects' = runnerAcceptRejects \cup matched
        /\ toRunner' = [r \in Runners |->
              Sending(r, [i \in DOMAIN For(r) |-> Message("taskofferaccept", For(r)[i])])[r]]

SettleTasks(offers, requests) ==
    \E expired \in SUBSET Expirable(offers) :
       LET valid   == Filter(offers, Offers \ expired)
           matches == Matches(valid, requests)
       IN  /\ pendingTaskOffers' = Filter(valid, Offers \ {m[1] : m \in matches})
           /\ pendingTaskRequests' = requests
           /\ acceptInProgress' = acceptInProgress \cup {m[2] : m \in matches}
           /\ AcceptOffers(valid, matches)

-----------------------------------------------------------------------------
(* The requester. *)

(* requestExpired *)
RequestExpired(q) == call' = [call EXCEPT ![q] = "expired"]

(* The broker's taskRequested: a broker that drains refuses at once. *)
TaskRequested(q) ==
    IF isDraining
    THEN /\ RequestExpired(q)
         /\ UNCHANGED <<brokerVars, toRunner>>
    ELSE /\ call' = [call EXCEPT ![q] = "requested"]
         /\ SettleTasks(pendingTaskOffers, Append(pendingTaskRequests, q))
         /\ UNCHANGED <<knownRunners, tasks, isDraining, settled>>

(* startTask; it goes on in TaskReady and ends in Answers. *)
StartTask(q) ==
    /\ call[q] = "new"
    /\ TaskRequested(q)
    /\ UNCHANGED <<conn, toBroker, runnerVars>>

(* The call that awaits the result of a task, if there is one. *)
Answers(o, result) ==
    call' = IF o \in settled /\ call[request[o]] = "running"
            THEN [call EXCEPT ![request[o]] = result]
            ELSE call

(* The broker's cancelTask *)
DropTask(o) ==
    /\ tasks' = tasks \ {o}
    /\ IF o \in tasks THEN MessageRunner(o, "taskcancel") ELSE UNCHANGED toRunner

(* cancelTasks, when the execution is cancelled *)
CancelTask(o) ==
    /\ o \in settled
    /\ call[request[o]] = "running"
    /\ Answers(o, "cancelled")
    /\ DropTask(o)
    /\ UNCHANGED <<knownRunners, pendingTaskOffers, pendingTaskRequests, acceptInProgress,
                   runnerAcceptRejects, isDraining, request, awaiting, settled,
                   conn, toBroker, runnerVars>>

-----------------------------------------------------------------------------
(* The broker. *)

(* handleRequestTimeout *)
RequestTimeout(q) ==
    /\ q \in ToSet(pendingTaskRequests)
    /\ pendingTaskRequests' = Filter(pendingTaskRequests, Requests \ {q})
    /\ IF call[q] = "requested" THEN RequestExpired(q) ELSE UNCHANGED call
    /\ UNCHANGED <<knownRunners, pendingTaskOffers, acceptInProgress, runnerAcceptRejects, tasks,
                   isDraining, request, awaiting, settled, conn, toRunner, toBroker, runnerVars>>

(* runner:taskoffer *)
TaskOffered(r) ==
    /\ FromRunner(r, {"taskoffer"})
    /\ IF r \in knownRunners
       THEN /\ SettleTasks(Append(pendingTaskOffers, Head(toBroker[r]).id), pendingTaskRequests)
            /\ UNCHANGED <<knownRunners, tasks, isDraining, settled>>
       ELSE UNCHANGED <<brokerVars, toRunner>>
    /\ UNCHANGED <<call, conn, runnerVars>>

(* Mutant of Accepted: the request stays pending and may be matched again. *)
AcceptedLeavingRequest(o) ==
    LET q == request[o]
    IN  /\ tasks' = tasks \cup {o}
        /\ settled' = settled \cup {o}
        /\ call' = [call EXCEPT ![q] = "running"]
        /\ MessageRunner(o, "tasksettings")
        /\ acceptInProgress' = acceptInProgress \ {q}
        /\ UNCHANGED pendingTaskRequests

(* Mutant of Accepted: settings are sent although the request expired. *)
AcceptedUnchecked(o) ==
    LET q == request[o]
    IN  /\ tasks' = tasks \cup {o}
        /\ settled' = settled \cup {o}
        /\ pendingTaskRequests' = Filter(pendingTaskRequests, Requests \ {q})
        /\ call' = [call EXCEPT ![q] = IF @ = "requested" THEN "running" ELSE @]
        /\ MessageRunner(o, "tasksettings")
        /\ UNCHANGED acceptInProgress

(* sendTaskSettings, which starts the timeout of the task *)
SendTaskSettings(o) ==
    /\ settled' = settled \cup {o}
    /\ MessageRunner(o, "tasksettings")

(* broker:taskready: startTask goes on and answers with the settings.  A   *)
(* requester that does not know the request cancels the task.              *)
TaskReady(o) ==
    IF call[request[o]] = "requested"
    THEN /\ call' = [call EXCEPT ![request[o]] = "running"]
         /\ tasks' = tasks \cup {o}
         /\ SendTaskSettings(o)
    ELSE /\ MessageRunner(o, "taskcancel")
         /\ UNCHANGED <<tasks, settled, call>>

(* acceptOffer once the runner has accepted.  If the request is no longer  *)
(* pending, an error is logged and the task stays.                         *)
Accepted(o) ==
    /\ pendingTaskRequests' = Filter(pendingTaskRequests, Requests \ {request[o]})
    /\ IF request[o] \in ToSet(pendingTaskRequests)
       THEN TaskReady(o)
       ELSE /\ tasks' = tasks \cup {o}
            /\ UNCHANGED <<settled, call, toRunner>>
    /\ UNCHANGED acceptInProgress

(* handleRunnerAccept, with what acceptOffer does next.  After its accept  *)
(* timeout acceptOffer no longer listens.                                  *)
HandleRunnerAccept(r) ==
    /\ FromRunner(r, {"taskaccepted"})
    /\ LET o == Head(toBroker[r]).id
       IN  IF r \in knownRunners /\ o \in runnerAcceptRejects
           THEN /\ runnerAcceptRejects' = runnerAcceptRejects \ {o}
                /\ awaiting' = awaiting \ {o}
                /\ IF o \in awaiting
                   THEN Accepted(o)
                   ELSE UNCHANGED <<tasks, settled, call, toRunner, pendingTaskRequests,
                                    acceptInProgress>>
                /\ UNCHANGED <<knownRunners, pendingTaskOffers, isDraining, request>>
           ELSE UNCHANGED <<call, brokerVars, toRunner>>
    /\ UNCHANGED <<conn, runnerVars>>

(* Mutant of GiveUp: the entry is deleted before its reject is called. *)
GiveUpUncalled(o) ==
    UNCHANGED <<awaiting, acceptInProgress>>

(* Mutant of GiveUp: the flag of the request is not reset. *)
GiveUpKeepingFlag(o) ==
    /\ awaiting' = awaiting \ {o}
    /\ UNCHANGED acceptInProgress

(* acceptOffer after a rejection, a deferral or the accept timeout. *)
GiveUp(o) ==
    /\ awaiting' = awaiting \ {o}
    /\ acceptInProgress' = IF o \in awaiting THEN acceptInProgress \ {request[o]}
                                             ELSE acceptInProgress

(* handleRunnerReject, handleRunnerDeferred.  A deferral also starts the   *)
(* timeout of the request anew, see RequestTimer.                          *)
HandleRunnerReject(r) ==
    /\ FromRunner(r, {"taskrejected", "taskdeferred"})
    /\ LET o == Head(toBroker[r]).id
       IN  IF r \in knownRunners /\ o \in runnerAcceptRejects
           THEN /\ runnerAcceptRejects' = runnerAcceptRejects \ {o}
                /\ GiveUp(o)
           ELSE UNCHANGED <<runnerAcceptRejects, awaiting, acceptInProgress>>
    /\ UNCHANGED <<call, knownRunners, pendingTaskOffers, pendingTaskRequests, tasks, isDraining,
                   request, settled, conn, toRunner, runnerVars>>

(* The two seconds in which a runner has to answer; the entry in           *)
(* runnerAcceptRejects stays.                                              *)
AcceptTimeout(o) ==
    /\ o \in awaiting
    /\ GiveUp(o)
    /\ UNCHANGED <<call, knownRunners, pendingTaskOffers, pendingTaskRequests, runnerAcceptRejects,
                   tasks, isDraining, request, settled, conn, toRunner, toBroker, runnerVars>>

(* taskDoneHandler and taskErrorHandler *)
TaskEnds(o, result) ==
    IF o \in tasks
    THEN /\ tasks' = tasks \ {o}
         /\ Answers(o, result)
    ELSE UNCHANGED <<tasks, call>>

TaskResult(r) ==
    /\ FromRunner(r, {"taskdone", "taskerror"})
    /\ LET m == Head(toBroker[r])
       IN  IF r \in knownRunners
           THEN TaskEnds(m.id, IF m.type = "taskdone" THEN "done" ELSE "error")
           ELSE UNCHANGED <<tasks, call>>
    /\ UNCHANGED <<knownRunners, pendingTaskOffers, pendingTaskRequests, acceptInProgress,
                   runnerAcceptRejects, isDraining, request, awaiting, settled,
                   conn, toRunner, runnerVars>>

(* A runner process that ends, and with it all it was doing.  What it sent *)
(* before may still arrive.                                                *)
Ended(ended) ==
    /\ conn' = [r \in Runners |-> IF r \in ended THEN "closed" ELSE conn[r]]
    /\ toRunner' = [r \in Runners |-> IF r \in ended THEN <<>> ELSE toRunner[r]]
    /\ offering' = offering \ ended
    /\ draining' = draining \ ended
    /\ openOffers' = {o \in openOffers : o[1] \notin ended}
    /\ status' = [o \in Offers |-> IF o[1] \in ended THEN "none" ELSE status[o]]
    /\ UNCHANGED sent

(* handleTaskTimeout.  In internal mode the event runner:timed-out-during- *)
(* task makes every runner process of the main be killed and restarted.    *)
TaskTimeout(o) ==
    /\ o \in tasks \cap settled
    /\ TaskEnds(o, "error")
    /\ IF Mode = "internal"
       THEN Ended({r \in Runners : conn[r] \in {"up", "closing"}})
       ELSE /\ MessageRunner(o, "taskcancel")
            /\ UNCHANGED <<conn, runnerVars>>
    /\ UNCHANGED <<knownRunners, pendingTaskOffers, pendingTaskRequests, acceptInProgress,
                   runnerAcceptRejects, isDraining, request, awaiting, settled, toBroker>>

(* The socket of a runner opens; the runner tells who it is (runner:info), *)
(* and is registered.  A server that stops accepts no connections.         *)
Connect(r) ==
    /\ conn[r] = "off"
    /\ ~isDraining
    /\ conn' = [conn EXCEPT ![r] = "up"]
    /\ UNCHANGED <<call, brokerVars, toRunner, toBroker, runnerVars>>

RegisterRunner(r) ==
    /\ conn[r] = "up"
    /\ r \notin knownRunners
    /\ knownRunners' = knownRunners \cup {r}
    /\ toRunner' = [toRunner EXCEPT ![r] = Append(@, [type |-> "runnerregistered"])]
    /\ UNCHANGED <<call, pendingTaskOffers, pendingTaskRequests, acceptInProgress,
                   runnerAcceptRejects, tasks, isDraining, request, awaiting, settled,
                   conn, toBroker, runnerVars>>

(* Mutant of DeregisterRunner: its tasks stay. *)
DeregisterKeepingTasks(r) ==
    /\ knownRunners' = knownRunners \ {r}
    /\ pendingTaskOffers' = Filter(pendingTaskOffers, Offers \ OffersOf(r))
    /\ UNCHANGED <<tasks, call>>

(* Mutant of DeregisterRunner: its tasks go, and nobody is told. *)
DeregisterSilently(r) ==
    /\ knownRunners' = knownRunners \ {r}
    /\ pendingTaskOffers' = Filter(pendingTaskOffers, Offers \ OffersOf(r))
    /\ tasks' = tasks \ OffersOf(r)
    /\ UNCHANGED call

(* deregisterRunner: its offers go, its tasks fail. *)
DeregisterRunner(r) ==
    LET failed == {q \in Requests : call[q] = "running"
                      /\ \E o \in tasks \cap settled \cap OffersOf(r) : request[o] = q}
    IN  /\ knownRunners' = knownRunners \ {r}
        /\ pendingTaskOffers' = Filter(pendingTaskOffers, Offers \ OffersOf(r))
        /\ tasks' = tasks \ OffersOf(r)
        /\ call' = [q \in Requests |-> IF q \in failed THEN "error" ELSE call[q]]

(* removeConnection: after the socket closed, after a missed heartbeat, or *)
(* at the end of draining.                                                 *)
RemoveConnection(r) ==
    /\ r \in knownRunners
    /\ DeregisterRunner(r)
    /\ conn' = [conn EXCEPT ![r] = IF @ = "up" THEN "closing" ELSE @]
    /\ UNCHANGED <<pendingTaskRequests, acceptInProgress, runnerAcceptRejects, isDraining,
                   request, awaiting, settled, toRunner, toBroker, runnerVars>>

(* drainActiveTasks: startDraining and broker:drain to the runners that    *)
(* are registered.                                                         *)
StartDraining ==
    /\ ~isDraining
    /\ isDraining' = TRUE
    /\ toRunner' = [r \in Runners |-> Sending(r, <<[type |-> "drain"]>>)[r]]
    /\ UNCHANGED <<call, knownRunners, pendingTaskOffers, pendingTaskRequests, acceptInProgress,
                   runnerAcceptRejects, tasks, request, awaiting, settled,
                   conn, toBroker, runnerVars>>

-----------------------------------------------------------------------------
(* The runner. *)

Alive(r) == conn[r] \in {"up", "closing"}

(* Mutant of FreeSlots: running tasks are not counted. *)
FreeSlotsIgnoringTasks(open, running) == MaxConcurrency - Cardinality(open)

FreeSlots(open, running) == MaxConcurrency - (Cardinality(open) + Cardinality(running))

(* sendOffers, with `running` the tasks in runningTasks: stale offers go,  *)
(* and the free slots without an open offer are offered.  The messages in  *)
(* `first` were sent just before.                                          *)
SendOffers(r, running, first) ==
    \E stale \in SUBSET (openOffers \cap OffersOf(r)) :
       LET open  == (openOffers \cap OffersOf(r)) \ stale
           count == IF r \notin offering THEN 0
                    ELSE CHOOSE n \in 0..MaxConcurrency :
                            \/ n = FreeSlots(open, running) /\ sent[r] + n <= MaxOffers
                            \/ n < FreeSlots(open, running) /\ sent[r] + n = MaxOffers
           offer == [i \in 1..count |-> <<r, sent[r] + i>>]
       IN  /\ openOffers' = (openOffers \ stale) \cup ToSet(offer)
           /\ sent' = [sent EXCEPT ![r] = @ + count]
           /\ Send(r, first \o [i \in 1..count |-> Message("taskoffer", offer[i])])

(* The offer interval *)
OfferInterval(r) ==
    /\ Alive(r)
    /\ r \in offering
    /\ SendOffers(r, RunningTasks(r), <<>>)
    /\ openOffers' # openOffers
    /\ UNCHANGED <<call, brokerVars, conn, toRunner, offering, draining, status>>

(* finishTask, after messages were sent *)
FinishTask(o, first) ==
    /\ status' = [status EXCEPT ![o] = "none"]
    /\ SendOffers(o[1], RunningTasks(o[1]) \ {o}, first)

(* broker:runnerregistered, startTaskOffers *)
StartTaskOffers(r) ==
    /\ FromBroker(r, "runnerregistered")
    /\ offering' = offering \cup {r}
    /\ UNCHANGED <<call, brokerVars, conn, toBroker, draining, sent, openOffers, status>>

(* offerAccepted *)
Rejects(r, o) ==
    \/ r \in draining
    \/ Cardinality(RunningTasks(r)) >= MaxConcurrency
    \/ o \notin openOffers

OfferAccepted(r) ==
    /\ r \notin Launchers
    /\ FromBroker(r, "taskofferaccept")
    /\ LET o == Head(toRunner[r]).id
       IN  /\ openOffers' = IF r \in draining THEN openOffers ELSE openOffers \ {o}
           /\ IF Rejects(r, o)
              THEN /\ Send(r, <<Message("taskrejected", o)>>)
                   /\ UNCHANGED status
              ELSE /\ Send(r, <<Message("taskaccepted", o)>>)
                   /\ status' = [status EXCEPT ![o] = "waitingForSettings"]
    /\ UNCHANGED <<call, brokerVars, conn, offering, draining, sent>>

(* A launcher keeps the task for the runner it starts. *)
LauncherDefers(r) ==
    /\ r \in Launchers
    /\ FromBroker(r, "taskofferaccept")
    /\ openOffers' = openOffers \ {Head(toRunner[r]).id}
    /\ Send(r, <<Message("taskdeferred", Head(toRunner[r]).id)>>)
    /\ UNCHANGED <<call, brokerVars, conn, offering, draining, sent, status>>

(* taskCancelled *)
TaskCancelled(r) ==
    /\ FromBroker(r, "taskcancel")
    /\ LET o == Head(toRunner[r]).id
       IN  IF status[o] = "waitingForSettings"
           THEN FinishTask(o, <<>>)
           ELSE /\ status' = [status EXCEPT ![o] =
                                 IF @ = "running" THEN "aborting:cancelled" ELSE @]
                /\ UNCHANGED <<toBroker, sent, openOffers>>
    /\ UNCHANGED <<call, brokerVars, conn, offering, draining>>

(* receivedSettings; in any other status an assertion fails *)
ReceivedSettings(r) ==
    /\ FromBroker(r, "tasksettings")
    /\ status' = [status EXCEPT ![Head(toRunner[r]).id] =
                     IF @ = "waitingForSettings" THEN "running" ELSE @]
    /\ UNCHANGED <<call, brokerVars, conn, toBroker, offering, draining, sent, openOffers>>

(* Mutant of TimedOut: a task without settings is aborted like any other. *)
TimedOutAborting(o) ==
    /\ status' = [status EXCEPT ![o] = "aborting:timeout"]
    /\ UNCHANGED <<toBroker, sent, openOffers>>

(* Mutant of TimedOut: a task without settings is dropped, not reported. *)
TimedOutSilently(o) ==
    IF status[o] = "waitingForSettings"
    THEN FinishTask(o, <<>>)
    ELSE TimedOutAborting(o)

(* taskTimedOut *)
TimedOut(o) ==
    IF status[o] = "waitingForSettings"
    THEN FinishTask(o, <<Message("taskerror", o)>>)
    ELSE /\ status' = [status EXCEPT ![o] = "aborting:timeout"]
         /\ UNCHANGED <<toBroker, sent, openOffers>>

TaskTimedOut(o) ==
    /\ Alive(o[1])
    /\ status[o] \in {"waitingForSettings", "running"}
    /\ TimedOut(o)
    /\ UNCHANGED <<call, brokerVars, conn, toRunner, offering, draining>>

(* taskExecutionSucceeded and taskExecutionFailed *)
TaskExecuted(o, result) ==
    /\ Alive(o[1])
    /\ status[o] \in {"running", "aborting:cancelled", "aborting:timeout"}
    /\ FinishTask(o, IF status[o] = "aborting:cancelled" THEN <<>> ELSE <<Message(result, o)>>)
    /\ UNCHANGED <<call, brokerVars, conn, toRunner, offering, draining>>

(* broker:drain *)
BrokerDrain(r) ==
    /\ FromBroker(r, "drain")
    /\ draining' = draining \cup {r}
    /\ offering' = offering \ {r}
    /\ UNCHANGED <<call, brokerVars, conn, toBroker, sent, openOffers, status>>

(* stop, from the moment it no longer waits for the broker to drain *)
Stop(r) ==
    /\ Alive(r)
    /\ r \notin draining
    /\ draining' = draining \cup {r}
    /\ offering' = offering \ {r}
    /\ openOffers' = openOffers \ OffersOf(r)
    /\ UNCHANGED <<call, brokerVars, conn, toRunner, toBroker, sent, status>>

(* The end of stop, onConnectionClose, or a crash of the runner *)
Disconnect(r) ==
    /\ Alive(r)
    /\ Ended({r})
    /\ UNCHANGED <<call, brokerVars, toBroker>>

-----------------------------------------------------------------------------

FromRunnerStep(r) ==
    TaskOffered(r) \/ HandleRunnerAccept(r) \/ HandleRunnerReject(r) \/ TaskResult(r)

FromBrokerStep(r) ==
    \/ StartTaskOffers(r) \/ OfferAccepted(r) \/ LauncherDefers(r) \/ TaskCancelled(r)
    \/ ReceivedSettings(r) \/ BrokerDrain(r)

TaskStep(o) ==
    \/ CancelTask(o) \/ AcceptTimeout(o) \/ TaskTimeout(o) \/ TaskTimedOut(o)
    \/ \E result \in {"taskdone", "taskerror"} : TaskExecuted(o, result)

ConnectionStep(r) ==
    Connect(r) \/ RegisterRunner(r) \/ RemoveConnection(r) \/ Stop(r) \/ Disconnect(r)

Next ==
    \/ \E q \in Requests : StartTask(q) \/ RequestTimeout(q)
    \/ \E o \in Offers : TaskStep(o)
    \/ \E r \in Runners : FromRunnerStep(r) \/ FromBrokerStep(r) \/ OfferInterval(r)
                          \/ ConnectionStep(r)
    \/ StartDraining

Spec == Init /\ [][Next]_vars

(* The runner, a launcher, defers a request that is being accepted.        *)
Deferred(q) ==
    \E r \in Runners :
        /\ HandleRunnerReject(r)
        /\ Head(toBroker[r]).type = "taskdeferred"
        /\ \E o \in awaiting : o = Head(toBroker[r]).id /\ request[o] = q

DeferredForEver(q) == []<><<Deferred(q)>>_vars

(* The timer of a pending request fires, unless deferrals start it anew    *)
(* again and again.                                                        *)
RequestTimer(q) == DeferredForEver(q) \/ WF_vars(RequestTimeout(q))

(* Timers fire, the messages of a runner are handled, and a closed socket  *)
(* is noticed.  Nothing is assumed of the code a task runs, of offers, or  *)
(* of the broker's messages being handled by the runner.                   *)
Fairness ==
    /\ \A q \in Requests : RequestTimer(q)
    /\ \A o \in Offers : WF_vars(AcceptTimeout(o)) /\ WF_vars(TaskTimeout(o))
                         /\ WF_vars(TaskTimedOut(o))
    /\ \A r \in Runners : WF_vars(FromRunnerStep(r))
                          /\ WF_vars(conn[r] = "closed" /\ RemoveConnection(r))

FairSpec == Spec /\ Fairness

-----------------------------------------------------------------------------
(* Properties *)

Attempts(q) == {o \in awaiting : request[o] = q}
RunsOf(q) == {o \in tasks \cap settled : request[o] = q}

(* Requester and broker never disagree about a call of startTask: while it *)
(* awaits a task its request is pending, so that an offer or the request   *)
(* timeout will end the wait, and while it awaits a result its task is in  *)
(* tasks with a timeout; no other request or settled task is kept.         *)
CallsMatchTasks ==
    \A q \in Requests : /\ call[q] = "requested" <=> q \in ToSet(pendingTaskRequests)
                        /\ call[q] = "running" <=> RunsOf(q) # {}

(* The code of a Code node is sent to at most one runner per call, however *)
(* often its request was matched, rejected, deferred or left unanswered.   *)
OneRunPerCall ==
    \A o, p \in settled : request[o] = request[p] => o = p

(* The flag acceptInProgress of a pending request is set exactly while one *)
(* acceptOffer works on it: a request is neither offered to two runners at *)
(* once nor left marked after a rejection or a timeout, never to be        *)
(* matched again.                                                          *)
InProgressExact ==
    \A q \in ToSet(pendingTaskRequests) :
        Cardinality(Attempts(q)) = IF q \in acceptInProgress THEN 1 ELSE 0

(* Whatever offers expire, are rejected or accepted late, a runner never   *)
(* has more tasks and open offers than slots.                              *)
SlotsRespected ==
    \A r \in Runners :
        Cardinality(openOffers \cap OffersOf(r)) + Cardinality(RunningTasks(r)) <= MaxConcurrency

(* When a runner is gone the broker keeps no task and no offer of it, even *)
(* if its messages arrive after it was removed.                            *)
TasksHaveRunners ==
    \A o \in tasks \cup ToSet(pendingTaskOffers) : o[1] \in knownRunners

(* Settings reach a task that waits for them or has ended: the assertions  *)
(* in receivedSettings do not fail.                                        *)
SettingsExpected ==
    \A r \in Runners : \A i \in DOMAIN toRunner[r] :
        i = 1 /\ toRunner[r][i].type = "tasksettings" =>
            status[toRunner[r][i].id] \in {"waitingForSettings", "none"}

(* startTask keeps what TaskCalls promises a Code node, whatever offers are *)
(* matched twice, answered late or given up: its code is given to one task, *)
(* while the call waits for it, the call ends once, and when a runner is   *)
(* lost exactly the calls fail whose code it has.                          *)
Calls == INSTANCE TaskCalls WITH
             Tasks <- Offers,
             code <- {<<request[o], o>> : o \in settled}

ImplementsCalls == Calls!CallsSpec

(* A task that the broker keeps can come to an end: it has a timeout, or   *)
(* its runner waits for the settings, for which a JavaScript runner has a  *)
(* timer, or has given up and the error is under way, or the socket has    *)
(* closed and the runner will be deregistered.  The broker itself never    *)
(* ends a task whose request expired while the runner was asked.           *)
ErrorUnderWay(o) ==
    \E m \in ToSet(toBroker[o[1]]) : m.type = "taskerror" /\ m.id = o

TasksCanEnd ==
    \A o \in tasks :
        \/ o \in settled
        \/ status[o] = "waitingForSettings"
        \/ ErrorUnderWay(o)
        \/ conn[o[1]] = "closed"

(* Every call of startTask that was made ends, by its result, by a timeout *)
(* or with its runner, unless launchers defer it again and again: each     *)
(* deferral starts its timeout anew (acceptOffer).                         *)
CallsEnd ==
    \A q \in Requests :
        \/ DeferredForEver(q)
        \/ call[q] \in {"requested", "running"} ~>
              call[q] \in {"done", "error", "expired", "cancelled"}

(* No task of a JavaScript runner stays in tasks for good, so that it does *)
(* not hold the draining: not even one whose request expired while the     *)
(* runner was asked, which the broker itself never ends.                   *)
TasksEnd ==
    \A o \in Offers : o \in tasks ~> o \notin tasks
=============================================================================
