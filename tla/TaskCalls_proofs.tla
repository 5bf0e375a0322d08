-------------------------- MODULE TaskCalls_proofs --------------------------
(***************************************************************************)
(* What the task broker promises its callers, from the invariant of        *)
(* TaskBroker_proofs: it implements TaskCalls, an answer is final, and a   *)
(* task the broker keeps can come to an end.                               *)
(***************************************************************************)
EXTENDS TaskBroker_proofs

-----------------------------------------------------------------------------
(* The refinement.  Each action of TaskBroker is a step of TaskCalls or    *)
(* leaves call and code alone.                                             *)

Code == {<<request[o], o>> : o \in settled}

(* The argument of acceptOffer never changes: an offer that was matched    *)
(* is not matched again.                                                   *)
RequestsKept == \A o \in Offers : request[o] # None => request'[o] = request[o]

(* settleTasks takes offers that were not matched before.                  *)
LEMMA SettleKeeps ==
    ASSUME BrokerInv, NEW offers \in Seq(Offers), IsInjective(offers),
           NEW requests \in Seq(Requests), IsInjective(requests),
           \A o \in ToSet(offers) : request[o] = None,
           SettleTasks(offers, requests)
    PROVE  RequestsKept
<1>1. MessagesOK /\ BrokerTypeOK
  BY InvParts
<1>2. PICK matches : MatchedBy(offers, requests, matches)
  BY <1>1, SettleTasksMatches
<1>3. /\ \A m \in matches : m[1] \in ToSet(offers)
      /\ \A o \in Offers \ {m[1] : m \in matches} : request'[o] = request[o]
  BY <1>2 DEF MatchedBy
<1>4. QED
  BY <1>3 DEF RequestsKept

(* Code is given by settings alone.                                        *)
LEMMA CodeKept ==
    ASSUME BrokerInv, RequestsKept, UNCHANGED settled
    PROVE  Code' = Code
<1>1. \A o \in settled : o \in Offers /\ request[o] # None
  BY InvParts DEF AcceptsOpen, BrokerTypes
<1>2. QED
  BY <1>1 DEF RequestsKept, Code

(* Of a call that awaits a result, the code is at the task that is kept.   *)
LEMMA CodeOfRunning ==
    ASSUME BrokerInv, NEW o \in Offers, o \in tasks \cup settled
    PROVE  /\ request[o] \in Requests
           /\ o \in tasks \cap settled <=> o \in settled /\ call[request[o]] = "running"
<1>1. CallsMatchTasks /\ OneRunPerCall /\ AcceptsOpen /\ BrokerTypes
  BY InvParts
<1>2. request[o] \in Requests
  BY <1>1 DEF AcceptsOpen, BrokerTypes
<1>3. ASSUME o \in tasks \cap settled PROVE call[request[o]] = "running"
  <2>1. o \in RunsOf(request[o])
    BY <1>3 DEF RunsOf
  <2>2. QED
    BY <1>1, <1>2, <2>1 DEF CallsMatchTasks
<1>4. ASSUME o \in settled, call[request[o]] = "running" PROVE o \in tasks
  <2>1. PICK p \in RunsOf(request[o]) : TRUE
    BY <1>1, <1>2, <1>4 DEF CallsMatchTasks
  <2>2. p = o
    BY <1>1, <1>4, <2>1 DEF OneRunPerCall, RunsOf
  <2>3. QED
    BY <2>1, <2>2 DEF RunsOf
<1>5. QED
  BY <1>2, <1>3, <1>4

CallsStep == Calls!CallsNext \/ UNCHANGED <<call, Code>>

(* Steps that are no business of the caller.                               *)
LEMMA Stutters ==
    ASSUME BrokerInv, UNCHANGED <<call, settled>>, RequestsKept
    PROVE  CallsStep
BY CodeKept DEF CallsStep

(* startTask asks the broker.                                              *)
LEMMA StartTaskAsks ==
    ASSUME BrokerInv, NEW q \in Requests, StartTask(q)
    PROVE  CallsStep
<1>1. BrokerTypes /\ OffersFresh /\ CallsMatchTasks
  BY InvParts
<1>2. call[q] = "new" /\ (\/ call' = [call EXCEPT ![q] = "requested"]
                          \/ call' = [call EXCEPT ![q] = "expired"])
  BY DEF StartTask, TaskRequested, RequestExpired
<1>3. RequestsKept /\ UNCHANGED settled
  <2>1. CASE isDraining
    BY <2>1 DEF StartTask, TaskRequested, brokerVars, RequestsKept
  <2>2. CASE ~isDraining
    <3>1. /\ Append(pendingTaskRequests, q) \in Seq(Requests)
          /\ IsInjective(Append(pendingTaskRequests, q))
      <4>1. q \notin ToSet(pendingTaskRequests)
        BY <1>1, <1>2 DEF CallsMatchTasks
      <4>2. QED
        BY <1>1, <4>1, AppendElement DEF BrokerTypes
    <3>2. /\ SettleTasks(pendingTaskOffers, Append(pendingTaskRequests, q))
          /\ UNCHANGED settled
      BY <2>2 DEF StartTask, TaskRequested
    <3>3. \A o \in ToSet(pendingTaskOffers) : request[o] = None
      BY <1>1 DEF OffersFresh
    <3>4. QED
      BY <1>1, <3>1, <3>2, <3>3, SettleKeeps DEF BrokerTypes
  <2>3. QED
    BY <1>1, <2>1, <2>2 DEF BrokerTypes
<1>4. Calls!Ask(q)
  BY <1>2, <1>3, CodeKept DEF Calls!Ask, Calls!Becomes, Code
<1>5. QED
  BY <1>4 DEF Calls!CallsNext, CallsStep

(* handleRequestTimeout ends a call that still waits.                      *)
LEMMA RequestTimeoutExpires ==
    ASSUME BrokerInv, NEW q \in Requests, RequestTimeout(q)
    PROVE  CallsStep
<1>1. RequestsKept /\ UNCHANGED settled
  BY DEF RequestTimeout, RequestsKept
<1>2. CASE call[q] = "requested"
  <2>1. Calls!Expire(q)
    BY <1>1, <1>2, CodeKept
       DEF RequestTimeout, RequestExpired, Calls!Expire, Calls!Becomes, Code
  <2>2. QED
    BY <2>1 DEF Calls!CallsNext, CallsStep
<1>3. CASE call[q] # "requested"
  BY <1>1, <1>3, Stutters DEF RequestTimeout
<1>4. QED
  BY <1>2, <1>3

(* The end of a task answers the call whose code it has, if that waits.    *)
LEMMA AnswersCall ==
    ASSUME BrokerInv, NEW o \in Offers, o \in tasks \cup settled,
           NEW result \in {"done", "error", "cancelled"}, Answers(o, result),
           RequestsKept, UNCHANGED settled
    PROVE  CallsStep
<1>1. CASE o \in settled /\ call[request[o]] = "running"
  <2>1. request[o] \in Requests
    BY CodeOfRunning
  <2>2. Calls!Answer(request[o])
    BY <1>1, CodeKept DEF Answers, Calls!Answer, Calls!Becomes, Code
  <2>3. QED
    BY <2>1, <2>2 DEF Calls!CallsNext, CallsStep
<1>2. CASE ~(o \in settled /\ call[request[o]] = "running")
  BY <1>2, Stutters DEF Answers
<1>3. QED
  BY <1>1, <1>2

LEMMA TaskEndsAnswers ==
    ASSUME BrokerInv, NEW o, NEW result \in {"done", "error"}, TaskEnds(o, result),
           RequestsKept, UNCHANGED settled
    PROVE  CallsStep
<1>1. CASE o \in tasks
  <2>1. o \in Offers
    BY <1>1, InvParts DEF BrokerTypes
  <2>2. QED
    BY <1>1, <2>1, AnswersCall DEF TaskEnds
<1>2. CASE o \notin tasks
  BY <1>2, Stutters DEF TaskEnds
<1>3. QED
  BY <1>1, <1>2

(* taskready and the settings: the request is pending, so that its call    *)
(* waits, and the offer is awaited, so that nothing was sent for it.       *)
LEMMA AcceptedGives ==
    ASSUME BrokerInv, NEW o \in awaiting, Accepted(o), UNCHANGED request
    PROVE  CallsStep
<1>1. AcceptsOpen /\ CallsMatchTasks /\ BrokerTypes
  BY InvParts
<1>2. o \in Offers /\ request[o] \in Requests /\ o \notin settled
  BY <1>1 DEF AcceptsOpen, BrokerTypes
<1>3. CASE request[o] \in ToSet(pendingTaskRequests)
  <2>1. call[request[o]] = "requested"
    BY <1>1, <1>2, <1>3 DEF CallsMatchTasks
  <2>2. /\ call' = [call EXCEPT ![request[o]] = "running"]
        /\ settled' = settled \cup {o}
    BY <1>3, <2>1 DEF Accepted, TaskReady, SendTaskSettings
  <2>3. Code' = Code \cup {<<request[o], o>>}
    BY <2>2 DEF Code
  <2>4. \A q \in Requests : <<q, o>> \notin Code
    BY <1>2 DEF Code
  <2>5. Calls!Give(request[o], o)
    BY <2>1, <2>2, <2>3, <2>4 DEF Calls!Give, Calls!Becomes, Code
  <2>6. QED
    BY <1>2, <2>5 DEF Calls!CallsNext, CallsStep
<1>4. CASE request[o] \notin ToSet(pendingTaskRequests)
  BY <1>4, Stutters DEF Accepted, RequestsKept
<1>5. QED
  BY <1>3, <1>4

LEMMA RunnerAcceptGives ==
    ASSUME BrokerInv, NEW r \in Runners, HandleRunnerAccept(r)
    PROVE  CallsStep
<1> DEFINE o == Head(toBroker[r]).id
<1>1. CASE r \in knownRunners /\ o \in runnerAcceptRejects /\ o \in awaiting
  <2>1. Accepted(o) /\ UNCHANGED request
    BY <1>1 DEF HandleRunnerAccept
  <2> HIDE DEF o
  <2>2. QED
    BY <1>1, <2>1, AcceptedGives
<1>2. CASE ~(r \in knownRunners /\ o \in runnerAcceptRejects /\ o \in awaiting)
  <2>1. UNCHANGED <<call, settled, request>>
    BY <1>2 DEF HandleRunnerAccept, brokerVars
  <2>2. QED
    BY <2>1, Stutters DEF RequestsKept
<1>3. QED
  BY <1>1, <1>2

(* deregisterRunner fails the calls whose settled task is in tasks: these  *)
(* are all that wait for a task of this runner, and no others.             *)
LEMMA RemoveConnectionLoses ==
    ASSUME BrokerInv, NEW r \in Runners, RemoveConnection(r)
    PROVE  CallsStep
<1>1. DeregisterRunner(r) /\ UNCHANGED <<request, settled>>
  BY DEF RemoveConnection
<1>2. BrokerTypes /\ AcceptsOpen
  BY InvParts
<1>3. ASSUME NEW q \in Requests, call[q] = "running"
      PROVE  (\E o \in tasks \cap settled \cap OffersOf(r) : request[o] = q)
             <=> q \in Calls!RunningOn(r)
  <2>1. ASSUME NEW o \in tasks \cap settled \cap OffersOf(r), request[o] = q
        PROVE  o \in Offers /\ o[1] = r /\ <<q, o>> \in Code
    BY <2>1 DEF OffersOf, Code
  <2>2. ASSUME NEW o \in Offers, o[1] = r, <<q, o>> \in Code
        PROVE  o \in tasks \cap settled \cap OffersOf(r) /\ request[o] = q
    <3>1. o \in settled /\ request[o] = q
      BY <2>2 DEF Code
    <3>2. QED
      BY <1>3, <2>2, <3>1, CodeOfRunning DEF OffersOf
  <2>3. q \in Calls!RunningOn(r) <=> \E o \in Offers : o[1] = r /\ <<q, o>> \in Code
    BY <1>3 DEF Calls!RunningOn, Code
  <2>4. QED
    BY <2>1, <2>2, <2>3
<1>4. \A q \in Calls!RunningOn(r) : q \in Requests /\ call[q] = "running"
  BY DEF Calls!RunningOn
<1>5. call' = [q \in Requests |-> IF q \in Calls!RunningOn(r) THEN "error" ELSE call[q]]
  BY <1>1, <1>3, <1>4 DEF DeregisterRunner
<1>6. Code' = Code
  BY <1>1 DEF Code
<1>7. Calls!Lose(r)
  BY <1>5, <1>6 DEF Calls!Lose, Code
<1>8. QED
  BY <1>7 DEF Calls!CallsNext, CallsStep

(* The steps of runners and sockets, and those of the broker that only     *)
(* match or give up offers.                                                *)
LEMMA OtherStepsStutter ==
    ASSUME BrokerInv,
           \/ \E o \in Offers : \/ AcceptTimeout(o) \/ TaskTimedOut(o)
                                \/ \E result \in {"taskdone", "taskerror"} : TaskExecuted(o, result)
           \/ \E r \in Runners : \/ HandleRunnerReject(r) \/ FromBrokerStep(r) \/ OfferInterval(r)
                                 \/ Connect(r) \/ RegisterRunner(r) \/ Stop(r) \/ Disconnect(r)
           \/ StartDraining
           \/ UNCHANGED vars
    PROVE  CallsStep
<1>1. UNCHANGED <<call, settled, request>>
  BY DEF AcceptTimeout, TaskTimedOut, TaskExecuted, HandleRunnerReject, FromBrokerStep,
         StartTaskOffers, OfferAccepted, LauncherDefers, TaskCancelled, ReceivedSettings,
         BrokerDrain, OfferInterval, Connect, RegisterRunner, Stop, Disconnect, StartDraining,
         vars, requesterVars, brokerVars
<1>2. QED
  BY <1>1, Stutters DEF RequestsKept

(* An offer that arrives was not matched.                                  *)
LEMMA TaskOfferedStutters ==
    ASSUME BrokerInv, NEW r \in Runners, TaskOffered(r)
    PROVE  CallsStep
<1>1. BrokerTypes /\ BrokerTypeOK /\ MessagesOK /\ OffersFresh
  BY InvParts
<1>2. UNCHANGED <<call, settled>>
  BY DEF TaskOffered, brokerVars
<1>3. CASE r \notin knownRunners
  BY <1>2, <1>3, Stutters DEF TaskOffered, brokerVars, RequestsKept
<1>4. CASE r \in knownRunners
  <2> DEFINE o == Head(toBroker[r]).id
             offers == Append(pendingTaskOffers, o)
  <2>1. FromRunner(r, {"taskoffer"}) /\ UNCHANGED sent /\ SettleTasks(offers, pendingTaskRequests)
    BY <1>4 DEF TaskOffered, runnerVars
  <2>2. /\ Head(toBroker[r]) \in ToSet(toBroker[r])
        /\ Head(toBroker[r]).type = "taskoffer"
        /\ o \in OffersOf(r)
    BY <1>1, <2>1, FromRunnerGoesUp
  <2>3. o \in Offers /\ request[o] = None /\ o \notin ToSet(pendingTaskOffers)
    BY <1>1, <2>2, OffersInOrder DEF OffersFresh, OffersOf
  <2> HIDE DEF o
  <2>4. /\ offers \in Seq(Offers) /\ IsInjective(offers)
        /\ ToSet(offers) = ToSet(pendingTaskOffers) \cup {o}
    BY <1>1, <2>3, AppendElement DEF BrokerTypes
  <2>5. \A p \in ToSet(offers) : request[p] = None
    BY <1>1, <2>3, <2>4 DEF OffersFresh
  <2> HIDE DEF offers
  <2>6. RequestsKept
    BY <1>1, <2>1, <2>4, <2>5, SettleKeeps DEF BrokerTypes
  <2>7. QED
    BY <1>2, <2>6, Stutters
<1>5. QED
  BY <1>3, <1>4

(* Each step of the broker is a step of TaskCalls or none.                 *)
LEMMA NextCalls == BrokerInv /\ [Next]_vars => [Calls!CallsNext]_(Calls!callVars)
<1> SUFFICES ASSUME BrokerInv, [Next]_vars PROVE CallsStep
  BY DEF CallsStep, Calls!callVars, Code
<1>1. ASSUME NEW q \in Requests, StartTask(q) \/ RequestTimeout(q) PROVE CallsStep
  BY <1>1, StartTaskAsks, RequestTimeoutExpires
<1>2. ASSUME NEW o \in Offers, CancelTask(o) PROVE CallsStep
  BY <1>2, AnswersCall DEF CancelTask, RequestsKept
<1>3. ASSUME NEW o \in Offers, TaskTimeout(o) PROVE CallsStep
  BY <1>3, TaskEndsAnswers DEF TaskTimeout, RequestsKept
<1>4. ASSUME NEW r \in Runners, TaskResult(r) PROVE CallsStep
  <2>1. /\ UNCHANGED <<settled, request>>
        /\ \/ \E result \in {"done", "error"} : TaskEnds(Head(toBroker[r]).id, result)
           \/ UNCHANGED call
    BY <1>4 DEF TaskResult
  <2>2. RequestsKept
    BY <2>1 DEF RequestsKept
  <2>3. QED
    BY <2>1, <2>2, TaskEndsAnswers, Stutters
<1>5. ASSUME NEW r \in Runners, RemoveConnection(r) \/ HandleRunnerAccept(r) \/ TaskOffered(r)
      PROVE  CallsStep
  BY <1>5, RemoveConnectionLoses, RunnerAcceptGives, TaskOfferedStutters
<1>6. QED
  BY <1>1, <1>2, <1>3, <1>4, <1>5, OtherStepsStutter
     DEF Next, TaskStep, FromRunnerStep, ConnectionStep

(* startTask: whatever is matched, answered late, given up, timed out or   *)
(* disconnected, the code of a call is given to one task while the call    *)
(* waits for it, the call ends once, and the loss of a runner fails exactly *)
(* the calls whose code it has.                                            *)
THEOREM BrokerImplementsCalls == Spec => ImplementsCalls
<1>1. Init => Calls!CallsInit
  BY DEF Init, Calls!CallsInit
<1>2. BrokerInv /\ [Next]_vars => [Calls!CallsNext]_(Calls!callVars)
  BY NextCalls
<1>3. QED
  BY <1>1, <1>2, BrokerInvariant, PTL DEF Spec, ImplementsCalls, Calls!CallsSpec

-----------------------------------------------------------------------------
(* TasksCanEnd.  A task is entered in tasks when its runner's answer is    *)
(* handled, which may be long after the runner gave up waiting for the     *)
(* settings: then the error must be behind the answer, in the same queue.  *)

AcceptsBacked(s, o) ==
    \A i \in DOMAIN s : s[i].type = "taskaccepted" /\ s[i].id = o =>
        \E j \in DOMAIN s : j > i /\ s[j].type = "taskerror" /\ s[j].id = o

(* The runner waits for the settings, or its end will be noticed.          *)
Waits(o) == status[o] = "waitingForSettings" \/ conn[o[1]] = "closed"

(* Only tasks that were given settings are cancelled.                      *)
CancelsSettled ==
    \A r \in Runners : \A m \in ToSet(toRunner[r]) :
        m.type = "taskcancel" => m.id \in settled

HeldInv ==
    /\ \A o \in Offers \ settled : Waits(o) \/ AcceptsBacked(toBroker[o[1]], o)
    /\ TasksCanEnd
    /\ CancelsSettled

(* A queue keeps an answer and the error behind it when its head is taken. *)
LEMMA TailBacked ==
    ASSUME NEW s \in Seq(FromMessages), s # <<>>, NEW o
    PROVE  /\ AcceptsBacked(s, o) => AcceptsBacked(Tail(s), o)
           /\ AcceptsBacked(s, o) /\ Head(s).type = "taskaccepted" /\ Head(s).id = o =>
                \E m \in ToSet(Tail(s)) : m.type = "taskerror" /\ m.id = o
           /\ \A m \in ToSet(s) : m # Head(s) => m \in ToSet(Tail(s))
<1>1. /\ 1 \in DOMAIN s /\ Head(s) = s[1]
      /\ \A i \in DOMAIN Tail(s) : i \in Nat /\ i + 1 \in DOMAIN s /\ Tail(s)[i] = s[i + 1]
      /\ \A j \in DOMAIN s : j \in Nat
      /\ \A j \in DOMAIN s : j > 1 => j - 1 \in DOMAIN Tail(s) /\ Tail(s)[j - 1] = s[j]
      /\ \A j \in DOMAIN s : j = 1 \/ j > 1
  OBVIOUS
<1>2. ASSUME AcceptsBacked(s, o) PROVE AcceptsBacked(Tail(s), o)
  <2> SUFFICES ASSUME NEW i \in DOMAIN Tail(s), Tail(s)[i].type = "taskaccepted", Tail(s)[i].id = o
               PROVE  \E j \in DOMAIN Tail(s) :
                         j > i /\ Tail(s)[j].type = "taskerror" /\ Tail(s)[j].id = o
    BY DEF AcceptsBacked
  <2>1. PICK j \in DOMAIN s : j > i + 1 /\ s[j].type = "taskerror" /\ s[j].id = o
    BY <1>1, <1>2 DEF AcceptsBacked
  <2>2. j > 1 /\ j - 1 > i
    BY <1>1, <2>1
  <2>3. QED
    BY <1>1, <2>1, <2>2
<1>3. ASSUME AcceptsBacked(s, o), Head(s).type = "taskaccepted", Head(s).id = o
      PROVE  \E m \in ToSet(Tail(s)) : m.type = "taskerror" /\ m.id = o
  <2>1. PICK j \in DOMAIN s : j > 1 /\ s[j].type = "taskerror" /\ s[j].id = o
    BY <1>1, <1>3 DEF AcceptsBacked
  <2>2. j - 1 \in DOMAIN Tail(s) /\ Tail(s)[j - 1] = s[j]
    BY <1>1, <2>1
  <2>3. QED
    BY <2>1, <2>2 DEF ToSet
<1>4. ASSUME NEW m \in ToSet(s), m # Head(s) PROVE m \in ToSet(Tail(s))
  <2>1. PICK j \in DOMAIN s : m = s[j]
    BY DEF ToSet
  <2>2. j - 1 \in DOMAIN Tail(s) /\ Tail(s)[j - 1] = m
    BY <1>1, <1>4, <2>1
  <2>3. QED
    BY <2>2 DEF ToSet
<1>5. QED
  BY <1>2, <1>3, <1>4

(* What is sent is behind all that was sent before: no answer loses its    *)
(* error, and an error is behind every answer.                             *)
LEMMA ConcatBacked ==
    ASSUME NEW s \in Seq(FromMessages), NEW e \in Seq(FromMessages), NEW o,
           \A m \in ToSet(e) : m.type = "taskaccepted" => m.id # o
    PROVE  /\ AcceptsBacked(s, o) => AcceptsBacked(s \o e, o)
           /\ (\E m \in ToSet(e) : m.type = "taskerror" /\ m.id = o) => AcceptsBacked(s \o e, o)
<1>1. /\ Len(s) \in Nat /\ Len(e) \in Nat
      /\ DOMAIN s = 1 .. Len(s) /\ DOMAIN e = 1 .. Len(e)
      /\ DOMAIN (s \o e) = 1 .. Len(s) + Len(e)
      /\ \A i \in 1 .. Len(s) + Len(e) :
            (s \o e)[i] = IF i <= Len(s) THEN s[i] ELSE e[i - Len(s)]
  OBVIOUS
<1>2. ASSUME NEW i \in DOMAIN (s \o e), (s \o e)[i].type = "taskaccepted", (s \o e)[i].id = o
      PROVE  i \in DOMAIN s /\ (s \o e)[i] = s[i] /\ i <= Len(s)
  <2>1. CASE i > Len(s)
    <3>1. i - Len(s) \in DOMAIN e /\ (s \o e)[i] = e[i - Len(s)]
      BY <1>1, <2>1
    <3>2. QED
      BY <1>2, <3>1 DEF ToSet
  <2>2. QED
    BY <1>1, <2>1
<1>3. ASSUME AcceptsBacked(s, o) PROVE AcceptsBacked(s \o e, o)
  <2>1. \A j \in DOMAIN s : j \in DOMAIN (s \o e) /\ (s \o e)[j] = s[j]
    BY <1>1
  <2>2. QED
    BY <1>2, <1>3, <2>1 DEF AcceptsBacked
<1>4. ASSUME NEW m \in ToSet(e), m.type = "taskerror", m.id = o
      PROVE  AcceptsBacked(s \o e, o)
  <2>1. PICK k \in DOMAIN e : m = e[k]
    BY DEF ToSet
  <2>2. k + Len(s) \in DOMAIN (s \o e) /\ (s \o e)[k + Len(s)] = m /\ k + Len(s) > Len(s)
    BY <1>1, <2>1
  <2>3. \A i \in DOMAIN s : k + Len(s) > i
    BY <1>1, <2>2
  <2>4. QED
    BY <1>2, <1>4, <2>2, <2>3 DEF AcceptsBacked
<1>5. QED
  BY <1>3, <1>4

-----------------------------------------------------------------------------
(* What steps do to the messages of the broker.                            *)

(* What a step adds is no cancel, or that of a task with settings.         *)
CancelsKept ==
    \A r \in Runners : \A m \in ToSet(toRunner'[r]) :
        m \in ToSet(toRunner[r]) \/ (m.type = "taskcancel" => m.id \in settled)

LEMMA SendingAdds ==
    ASSUME MessagesOK, NEW r \in Runners, NEW x \in Runners, NEW e \in Seq(ToMessages)
    PROVE  ToSet(Sending(r, e)[x]) \subseteq ToSet(toRunner[x]) \cup ToSet(e)
<1>1. toRunner[x] \in Seq(ToMessages) /\ toRunner \in [Runners -> Seq(ToMessages)]
  BY DEF MessagesOK
<1>2. \/ Sending(r, e)[x] = toRunner[x] \o e
      \/ Sending(r, e)[x] = toRunner[x]
  BY <1>1 DEF Sending
<1>3. ToSet(toRunner[x] \o e) = ToSet(toRunner[x]) \cup ToSet(e)
  BY <1>1, ConcatMessages
<1>4. QED
  BY <1>2, <1>3

LEMMA MessageKeepsCancels ==
    ASSUME MessagesOK, NEW o \in Offers, NEW type \in AboutTasks, MessageRunner(o, type),
           type = "taskcancel" => o \in settled
    PROVE  CancelsKept
<1>1. /\ <<Message(type, o)>> \in Seq(ToMessages)
      /\ ToSet(<<Message(type, o)>>) = {Message(type, o)}
      /\ Message(type, o).type = type /\ Message(type, o).id = o
  <2>1. Message(type, o) \in ToMessages
    BY DEF Message, ToMessages
  <2>2. QED
    BY <2>1, OneMessage DEF Message
<1>2. o[1] \in Runners
  BY OffersInOrder
<1>3. \A x \in Runners : ToSet(toRunner'[x]) \subseteq ToSet(toRunner[x]) \cup {Message(type, o)}
  BY <1>1, <1>2, SendingAdds DEF MessageRunner
<1>4. QED
  BY <1>1, <1>3 DEF CancelsKept

LEMMA SettleKeepsCancels ==
    ASSUME MessagesOK, NEW offers \in Seq(Offers), NEW requests, SettleTasks(offers, requests)
    PROVE  CancelsKept
<1>1. PICK expired \in SUBSET Expirable(offers) :
        AcceptOffers(Filter(offers, Offers \ expired),
                     Matches(Filter(offers, Offers \ expired), requests))
  BY DEF SettleTasks
<1> DEFINE valid   == Filter(offers, Offers \ expired)
           matched == {m[1] : m \in Matches(valid, requests)}
<1>2. valid \in Seq(Offers)
  BY FilterProperties
<1>3. AcceptOffers(valid, Matches(valid, requests))
  BY <1>1
<1> HIDE DEF valid
<1> DEFINE For(r) == Filter(valid, matched \cap OffersOf(r))
           asks(r) == [i \in DOMAIN For(r) |-> Message("taskofferaccept", For(r)[i])]
<1>4. toRunner' = [r \in Runners |-> Sending(r, asks(r))[r]]
  BY <1>3 DEF AcceptOffers
<1> HIDE DEF matched
<1>5. ASSUME NEW r \in Runners, NEW m \in ToSet(toRunner'[r])
      PROVE  m \in ToSet(toRunner[r]) \/ m.type = "taskofferaccept"
  <2>1. For(r) \in Seq(Offers)
    BY <1>2, FilterProperties
  <2> HIDE DEF For
  <2>2. \A i \in DOMAIN For(r) : /\ asks(r)[i] = Message("taskofferaccept", For(r)[i])
                                /\ asks(r)[i] \in ToMessages /\ asks(r)[i].type = "taskofferaccept"
    BY <2>1 DEF Message, ToMessages, AboutTasks
  <2>3. asks(r) \in Seq(ToMessages)
    <3>1. asks(r) \in [1 .. Len(For(r)) -> ToMessages]
      BY <2>1, <2>2
    <3> HIDE DEF asks
    <3>2. QED
      BY <2>1, <3>1
  <2>4. \A n \in ToSet(asks(r)) : n.type = "taskofferaccept"
    BY <2>2 DEF ToSet
  <2> HIDE DEF asks
  <2>5. ToSet(toRunner'[r]) \subseteq ToSet(toRunner[r]) \cup ToSet(asks(r))
    BY <1>4, <2>3, SendingAdds
  <2>6. QED
    BY <1>5, <2>4, <2>5
<1>6. QED
  BY <1>5 DEF CancelsKept

(* The messages of a runner that ends are gone.                            *)
LEMMA EndedKeepsCancels ==
    ASSUME MessagesOK, NEW ended, Ended(ended)
    PROVE  CancelsKept
BY DEF Ended, CancelsKept, ToSet

LEMMA TakenKeepsCancels ==
    ASSUME MessagesOK, NEW r \in Runners, NEW type, FromBroker(r, type)
    PROVE  CancelsKept
<1>1. toRunner[r] \in Seq(ToMessages) /\ toRunner[r] # <<>>
      /\ \A x \in Runners : toRunner'[x] = IF x = r THEN Tail(toRunner[r]) ELSE toRunner[x]
  BY DEF FromBroker, MessagesOK
<1>2. ToSet(Tail(toRunner[r])) \subseteq ToSet(toRunner[r])
  BY <1>1, TailMessages
<1>3. QED
  BY <1>1, <1>2 DEF CancelsKept

(* Drain and the answer to a registration.                                 *)
LEMMA OthersKeepCancels ==
    ASSUME MessagesOK, StartDraining \/ \E r \in Runners : RegisterRunner(r)
    PROVE  CancelsKept
<1>1. \A type \in {"runnerregistered", "drain"} :
         LET m == [type |-> type]
         IN  m.type = type /\ <<m>> \in Seq(ToMessages) /\ ToSet(<<m>>) = {m}
  <2>1. \A type \in {"runnerregistered", "drain"} : [type |-> type] \in ToMessages
    BY DEF ToMessages
  <2>2. QED
    BY <2>1, OneMessage
<1>2. CASE StartDraining
  <2>1. \A r \in Runners : toRunner'[r] = Sending(r, <<[type |-> "drain"]>>)[r]
    BY <1>2 DEF StartDraining
  <2>2. \A r \in Runners :
           ToSet(toRunner'[r]) \subseteq ToSet(toRunner[r]) \cup {[type |-> "drain"]}
    BY <1>1, <2>1, SendingAdds
  <2>3. QED
    BY <1>1, <2>2 DEF CancelsKept
<1>3. ASSUME NEW r \in Runners, RegisterRunner(r)
      PROVE  CancelsKept
  <2> DEFINE m == [type |-> "runnerregistered"]
             e == <<m>>
  <2>1. m.type = "runnerregistered" /\ e \in Seq(ToMessages) /\ ToSet(e) = {m}
    BY <1>1
  <2>2. toRunner[r] \in Seq(ToMessages)
        /\ \A x \in Runners : toRunner'[x] = IF x = r THEN Append(toRunner[r], m) ELSE toRunner[x]
    BY <1>3 DEF RegisterRunner, MessagesOK
  <2>3. Append(toRunner[r], m) = toRunner[r] \o e
    BY <2>2
  <2> HIDE DEF e
  <2>4. ToSet(toRunner[r] \o e) = ToSet(toRunner[r]) \cup {m}
    BY <2>1, <2>2, ConcatMessages
  <2> HIDE DEF m
  <2>5. QED
    BY <2>1, <2>2, <2>3, <2>4 DEF CancelsKept
<1>4. QED
  BY <1>2, <1>3

-----------------------------------------------------------------------------
(* What steps do to tasks without settings.                                *)

BackedStays(o) ==
    /\ AcceptsBacked(toBroker[o[1]], o) => AcceptsBacked(toBroker[o[1]], o)'
    /\ o \in tasks' /\ ErrorUnderWay(o) => ErrorUnderWay(o)'

(* Either nothing is lost, or the runner waits, or it has told its error.  *)
LEMMA KeepHeld ==
    ASSUME BrokerInv, HeldInv, settled \subseteq settled', tasks' \subseteq Offers, CancelsKept,
           \A o \in Offers \ settled' :
              \/ (Waits(o) => Waits(o)') /\ BackedStays(o)
              \/ Waits(o)'
              \/ ErrorUnderWay(o)' /\ AcceptsBacked(toBroker[o[1]], o)',
           \A o \in tasks' \ (tasks \cup settled') : Waits(o)' \/ ErrorUnderWay(o)'
    PROVE  HeldInv'
<1>1. \A o \in Offers \ settled' : Waits(o)' \/ AcceptsBacked(toBroker[o[1]], o)'
  BY DEF HeldInv, BackedStays
<1>2. TasksCanEnd'
  <2> SUFFICES ASSUME NEW o \in tasks', o \notin settled'
               PROVE  Waits(o)' \/ ErrorUnderWay(o)'
    BY DEF TasksCanEnd, Waits
  <2>1. o \in tasks => Waits(o) \/ ErrorUnderWay(o)
    BY DEF HeldInv, TasksCanEnd, Waits
  <2>2. QED
    BY <2>1 DEF BackedStays
<1>3. CancelsSettled'
  BY DEF CancelsKept, CancelsSettled, HeldInv
<1>4. QED
  BY <1>1, <1>2, <1>3 DEF HeldInv

(* Steps that send the broker nothing and take nothing from it.            *)
LEMMA QueuesKeepHeld ==
    ASSUME BrokerInv, HeldInv, UNCHANGED toBroker, settled \subseteq settled', tasks' \subseteq tasks,
           CancelsKept, \A o \in Offers \ settled : Waits(o) => Waits(o)'
    PROVE  HeldInv'
<1>1. tasks \subseteq Offers
  BY InvParts DEF BrokerTypes
<1>2. \A o \in Offers : BackedStays(o)
  BY DEF BackedStays, AcceptsBacked, ErrorUnderWay
<1>3. QED
  BY <1>1, <1>2, KeepHeld

(* The broker takes a message.                                             *)
LEMMA TakenBacked ==
    ASSUME BrokerInv, NEW r \in Runners, NEW types, FromRunner(r, types), NEW o \in Offers
    PROVE  LET m == Head(toBroker[r])
           IN  /\ m \in FromMessages /\ m.id \in OffersOf(r) /\ m.type \in types
               /\ ~(m.type = "taskerror" /\ m.id = o /\ o \in tasks') => BackedStays(o)
               /\ m.type = "taskaccepted" /\ m.id = o /\ AcceptsBacked(toBroker[r], o)
                     => ErrorUnderWay(o)'
<1>1. MessagesOK
  BY InvParts
<1>2. /\ toBroker[r] \in Seq(FromMessages) /\ toBroker[r] # <<>>
      /\ Head(toBroker[r]).type \in types
      /\ toBroker'[r] = Tail(toBroker[r])
      /\ \A x \in Runners \ {r} : toBroker'[x] = toBroker[x]
  BY <1>1 DEF FromRunner, MessagesOK
<1>3. /\ Head(toBroker[r]) \in FromMessages
      /\ Head(toBroker[r]) \in ToSet(toBroker[r])
      /\ Head(toBroker[r]).id \in OffersOf(r)
  <2>1. Head(toBroker[r]) \in FromMessages /\ Head(toBroker[r]) \in ToSet(toBroker[r])
    BY <1>2, TailMessages
  <2>2. QED
    BY <1>1, <2>1 DEF MessagesOK, FromMessages, OffersOf
<1>4. /\ AcceptsBacked(toBroker[r], o) => AcceptsBacked(Tail(toBroker[r]), o)
      /\ AcceptsBacked(toBroker[r], o) /\ Head(toBroker[r]).type = "taskaccepted"
            /\ Head(toBroker[r]).id = o =>
              \E m \in ToSet(Tail(toBroker[r])) : m.type = "taskerror" /\ m.id = o
      /\ \A m \in ToSet(toBroker[r]) : m # Head(toBroker[r]) => m \in ToSet(Tail(toBroker[r]))
  BY <1>2, TailBacked
<1>5. o[1] \in Runners /\ (Head(toBroker[r]).id = o => o[1] = r)
  BY <1>3, OffersInOrder DEF OffersOf
<1>6. ASSUME ~(Head(toBroker[r]).type = "taskerror" /\ Head(toBroker[r]).id = o /\ o \in tasks')
      PROVE  BackedStays(o)
  <2>1. CASE o[1] = r
    <3>1. AcceptsBacked(toBroker[o[1]], o) => AcceptsBacked(toBroker'[o[1]], o)
      BY <1>2, <1>4, <2>1
    <3>2. ASSUME o \in tasks', NEW m \in ToSet(toBroker[r]), m.type = "taskerror", m.id = o
          PROVE  m \in ToSet(toBroker'[r])
      BY <1>2, <1>4, <1>6, <3>2
    <3>3. QED
      BY <2>1, <3>1, <3>2 DEF BackedStays, ErrorUnderWay
  <2>2. CASE o[1] # r
    BY <1>2, <1>5, <2>2 DEF BackedStays, ErrorUnderWay, AcceptsBacked
  <2>3. QED
    BY <2>1, <2>2
<1>7. QED
  BY <1>2, <1>3, <1>4, <1>5, <1>6 DEF ErrorUnderWay

(* A runner sends messages.                                                *)
LEMMA SentBacked ==
    ASSUME BrokerInv, NEW r \in Runners, NEW e \in Seq(FromMessages), Send(r, e), NEW o \in Offers
    PROVE  /\ (\A m \in ToSet(e) : m.type = "taskaccepted" => m.id # o) => BackedStays(o)
           /\ ErrorUnderWay(o) => ErrorUnderWay(o)'
           /\ (\A m \in ToSet(e) : m.type = "taskaccepted" => m.id # o)
              /\ o[1] = r /\ (\E m \in ToSet(e) : m.type = "taskerror" /\ m.id = o) =>
                 ErrorUnderWay(o)' /\ AcceptsBacked(toBroker[o[1]], o)'
<1>1. /\ toBroker[r] \in Seq(FromMessages)
      /\ toBroker'[r] = toBroker[r] \o e
      /\ \A x \in Runners \ {r} : toBroker'[x] = toBroker[x]
  <2>1. MessagesOK
    BY InvParts
  <2>2. QED
    BY <2>1 DEF Send, MessagesOK
<1>2. ToSet(toBroker[r] \o e) = ToSet(toBroker[r]) \cup ToSet(e)
  <2>1. toBroker[r] \in Seq(FromMessages)
    BY <1>1
  <2>2. QED
    BY <2>1, ConcatMessages
<1>3. o[1] \in Runners
  BY OffersInOrder
<1>4. ErrorUnderWay(o) => ErrorUnderWay(o)'
  BY <1>1, <1>2, <1>3 DEF ErrorUnderWay
<1>5. (\A m \in ToSet(e) : m.type = "taskaccepted" => m.id # o) =>
         /\ AcceptsBacked(toBroker[r], o) => AcceptsBacked(toBroker[r] \o e, o)
         /\ (\E m \in ToSet(e) : m.type = "taskerror" /\ m.id = o) =>
              AcceptsBacked(toBroker[r] \o e, o)
  BY <1>1, ConcatBacked
<1>6. o[1] # r => (AcceptsBacked(toBroker[o[1]], o) => AcceptsBacked(toBroker'[o[1]], o))
  BY <1>1, <1>3
<1>7. QED
  BY <1>1, <1>2, <1>4, <1>5, <1>6 DEF BackedStays, ErrorUnderWay

-----------------------------------------------------------------------------
(* TasksCanEnd, action by action: first what runners send.                 *)

(* Offers that follow a message change nothing about tasks.                *)
LEMMA OffersBacked ==
    ASSUME NEW r \in Runners, NEW first, AnswersOK(r, first), OffersSentAfter(r, first)
    PROVE  \E e \in Seq(FromMessages) :
              /\ Send(r, e) /\ ToSet(first) \subseteq ToSet(e)
              /\ \A m \in ToSet(e) : m \in ToSet(first) \/ m.type = "taskoffer"
<1>1. PICK made \in Seq(FromMessages) : /\ Send(r, first \o made)
                                       /\ \A m \in ToSet(made) : m.type = "taskoffer"
  BY DEF OffersSentAfter
<1> DEFINE e == first \o made
<1>2. first \in Seq(FromMessages)
  BY DEF AnswersOK
<1>3. e \in Seq(FromMessages) /\ ToSet(e) = ToSet(first) \cup ToSet(made)
  BY <1>2, ConcatMessages
<1>4. Send(r, e)
  BY <1>1
<1> HIDE DEF e
<1>5. QED
  BY <1>1, <1>3, <1>4

(* A task with settings, or one whose error is told, may be finished.      *)
LEMMA FinishHeld ==
    ASSUME BrokerInv, HeldInv, NEW o \in Offers, NEW first, AnswersOK(o[1], first),
           FinishTask(o, first), UNCHANGED <<conn, settled, tasks>>, CancelsKept,
           \A m \in ToSet(first) : m.type # "taskaccepted",
           o \in settled \/ \E m \in ToSet(first) : m.type = "taskerror" /\ m.id = o
    PROVE  HeldInv'
<1>1. o[1] \in Runners /\ tasks \subseteq Offers
  BY InvParts, OffersInOrder DEF BrokerTypes
<1>2. /\ status' = [status EXCEPT ![o] = "none"]
      /\ OffersSentAfter(o[1], first)
  BY FinishTaskKeeps
<1>3. PICK e \in Seq(FromMessages) :
              /\ Send(o[1], e) /\ ToSet(first) \subseteq ToSet(e)
              /\ \A m \in ToSet(e) : m \in ToSet(first) \/ m.type = "taskoffer"
  BY <1>1, <1>2, OffersBacked
<1>4. \A m \in ToSet(e) : m.type # "taskaccepted"
  BY <1>3
<1>5. ASSUME NEW p \in Offers, p \notin settled
      PROVE  \/ (Waits(p) => Waits(p)') /\ BackedStays(p)
             \/ ErrorUnderWay(p)' /\ AcceptsBacked(toBroker[p[1]], p)'
  <2>1. CASE p = o
    <3>1. \E m \in ToSet(e) : m.type = "taskerror" /\ m.id = o
      BY <1>3, <1>5, <2>1
    <3>2. QED
      BY <1>1, <1>3, <1>4, <2>1, <3>1, SentBacked
  <2>2. CASE p # o
    <3>1. Waits(p) => Waits(p)'
      BY <1>2, <2>2 DEF Waits
    <3>2. QED
      BY <1>1, <1>3, <1>4, <3>1, SentBacked
  <2>3. QED
    BY <2>1, <2>2
<1>6. QED
  BY <1>1, <1>5, KeepHeld

(* Of a runner's tasks, those that are executed have settings.             *)
LEMMA RunningSettled ==
    ASSUME BrokerInv, NEW o \in Offers, status[o] \notin {"waitingForSettings", "none"}
    PROVE  o \in settled
BY InvParts DEF SettingsOnce

LEMMA RunnerEndsTaskHeld ==
    ASSUME BrokerInv, HeldInv, NEW o \in Offers,
           TaskTimedOut(o) \/ \E result \in {"taskdone", "taskerror"} : TaskExecuted(o, result)
    PROVE  HeldInv'
<1>1. UNCHANGED <<conn, settled, tasks, toRunner>>
  BY DEF TaskTimedOut, TaskExecuted, brokerVars
<1>2. CancelsKept
  BY <1>1 DEF CancelsKept
<1>3. ASSUME NEW result \in {"taskdone", "taskerror"}, TaskExecuted(o, result)
      PROVE  HeldInv'
  <2>1. o \in settled
    BY <1>3, RunningSettled DEF TaskExecuted
  <2>2. CASE status[o] = "aborting:cancelled"
    <3>1. AnswersOK(o[1], <<>>) /\ FinishTask(o, <<>>)
      BY <1>3, <2>2, NoAnswer DEF TaskExecuted
    <3>2. ToSet(<<>>) = {}
      BY DEF ToSet
    <3>3. QED
      BY <1>1, <1>2, <2>1, <3>1, <3>2, FinishHeld
  <2>3. CASE status[o] # "aborting:cancelled"
    <3>1. AnswersOK(o[1], <<Message(result, o)>>) /\ FinishTask(o, <<Message(result, o)>>)
      BY <1>3, <2>3, OneAnswer DEF TaskExecuted
    <3>2. \A m \in ToSet(<<Message(result, o)>>) : m.type # "taskaccepted"
      BY DEF ToSet, Message
    <3>3. QED
      BY <1>1, <1>2, <2>1, <3>1, <3>2, FinishHeld
  <2>4. QED
    BY <2>2, <2>3
<1>4. ASSUME TaskTimedOut(o) PROVE HeldInv'
  <2>1. CASE status[o] = "waitingForSettings"
    <3>1. /\ AnswersOK(o[1], <<Message("taskerror", o)>>)
          /\ FinishTask(o, <<Message("taskerror", o)>>)
      BY <1>4, <2>1, OneAnswer DEF TaskTimedOut, TimedOut
    <3>2. LET m == Message("taskerror", o)
          IN  ToSet(<<m>>) = {m} /\ m.type = "taskerror" /\ m.id = o
      BY DEF ToSet, Message
    <3>3. QED
      BY <1>1, <1>2, <3>1, <3>2, FinishHeld
  <2>2. CASE status[o] # "waitingForSettings"
    <3>1. /\ o \in settled
          /\ UNCHANGED toBroker /\ status' = [status EXCEPT ![o] = "aborting:timeout"]
      BY <1>4, <2>2, RunningSettled DEF TaskTimedOut, TimedOut
    <3>2. \A p \in Offers \ settled : Waits(p) => Waits(p)'
      BY <1>1, <3>1, InvParts DEF Waits, StatusTypes
    <3>3. QED
      BY <1>1, <1>2, <3>1, <3>2, QueuesKeepHeld
  <2>3. QED
    BY <2>1, <2>2
<1>5. QED
  BY <1>3, <1>4

LEMMA OfferIntervalHeld ==
    ASSUME BrokerInv, HeldInv, NEW r \in Runners, OfferInterval(r)
    PROVE  HeldInv'
<1>1. BrokerTypeOK /\ MessagesOK /\ SlotsRespected /\ tasks \subseteq Offers
  BY InvParts DEF BrokerTypes
<1>2. UNCHANGED <<conn, settled, tasks, toRunner, status>>
  BY DEF OfferInterval, brokerVars
<1>3. RunningTasks(r) \subseteq Offers
  BY OffersInOrder DEF RunningTasks
<1>4. OffersSentAfter(r, <<>>)
  BY <1>1, <1>3, NoAnswer, SendOffersGoesUp DEF SlotsRespected, OfferInterval
<1>5. PICK e \in Seq(FromMessages) :
              Send(r, e) /\ \A m \in ToSet(e) : m \in ToSet(<<>>) \/ m.type = "taskoffer"
  BY <1>4, NoAnswer, OffersBacked
<1>6. \A m \in ToSet(e) : m.type # "taskaccepted"
  BY <1>5 DEF ToSet
<1>7. \A o \in Offers : BackedStays(o)
  BY <1>5, <1>6, SentBacked
<1>8. CancelsKept /\ \A o \in Offers : Waits(o) => Waits(o)'
  BY <1>2 DEF CancelsKept, Waits
<1>9. QED
  BY <1>1, <1>2, <1>7, <1>8, KeepHeld

(* A runner that accepts waits; an answer of any other kind changes        *)
(* nothing.                                                                *)
LEMMA AnswerHeld ==
    ASSUME BrokerInv, HeldInv, NEW r \in Runners, OfferAccepted(r) \/ LauncherDefers(r)
    PROVE  HeldInv'
<1> DEFINE o == Head(toRunner[r]).id
<1>1. MessagesOK /\ StatusTypes /\ tasks \subseteq Offers
  BY InvParts DEF BrokerTypes
<1>2. FromBroker(r, "taskofferaccept") /\ UNCHANGED <<conn, settled, tasks>>
  BY DEF OfferAccepted, LauncherDefers, brokerVars
<1>3. CancelsKept /\ o \in Offers /\ o[1] = r
  BY <1>1, <1>2, TakenKeepsCancels, FromBrokerQuiet, OffersInOrder DEF AboutTasks, OffersOf
<1>4. \/ /\ UNCHANGED status
         /\ \E type \in {"taskrejected", "taskdeferred"} : Send(r, <<Message(type, o)>>)
      \/ /\ status' = [status EXCEPT ![o] = "waitingForSettings"]
         /\ Send(r, <<Message("taskaccepted", o)>>)
  BY DEF OfferAccepted, LauncherDefers
<1> HIDE DEF o
<1>5. \A type \in {"taskrejected", "taskdeferred", "taskaccepted"} :
         /\ <<Message(type, o)>> \in Seq(FromMessages)
         /\ \A m \in ToSet(<<Message(type, o)>>) : m.type = type /\ m.id = o
  <2>1. \A type \in {"taskrejected", "taskdeferred", "taskaccepted"} :
           Message(type, o) \in FromMessages
    BY <1>3 DEF Message, FromMessages
  <2>2. QED
    BY <2>1, OneMessage DEF Message
<1>6. ASSUME NEW p \in Offers
      PROVE  ((Waits(p) => Waits(p)') /\ BackedStays(p)) \/ Waits(p)'
  <2>1. ASSUME UNCHANGED status, NEW type \in {"taskrejected", "taskdeferred"},
               Send(r, <<Message(type, o)>>)
        PROVE  (Waits(p) => Waits(p)') /\ BackedStays(p)
    <3>1. BackedStays(p)
      BY <1>5, <2>1, SentBacked
    <3>2. QED
      BY <1>2, <2>1, <3>1 DEF Waits
  <2>2. ASSUME status' = [status EXCEPT ![o] = "waitingForSettings"],
               Send(r, <<Message("taskaccepted", o)>>)
        PROVE  ((Waits(p) => Waits(p)') /\ BackedStays(p)) \/ Waits(p)'
    <3>1. p = o => Waits(p)'
      BY <1>1, <1>3, <2>2 DEF StatusTypes, Waits
    <3>2. p # o => BackedStays(p)
      BY <1>5, <2>2, SentBacked
    <3>3. p # o => (Waits(p) => Waits(p)')
      BY <1>1, <1>2, <2>2 DEF StatusTypes, Waits
    <3>4. QED
      BY <3>1, <3>2, <3>3
  <2>3. QED
    BY <1>4, <2>1, <2>2
<1>7. QED
  BY <1>1, <1>2, <1>3, <1>6, KeepHeld

(* Only a task with settings is cancelled, so that no error is owed.       *)
LEMMA TaskCancelledHeld ==
    ASSUME BrokerInv, HeldInv, NEW r \in Runners, TaskCancelled(r)
    PROVE  HeldInv'
<1> DEFINE o == Head(toRunner[r]).id
<1>1. MessagesOK /\ StatusTypes
  BY InvParts
<1>2. FromBroker(r, "taskcancel") /\ UNCHANGED <<conn, settled, tasks>>
  BY DEF TaskCancelled, brokerVars
<1>3. CancelsKept /\ o \in Offers /\ Head(toRunner[r]) \in ToSet(toRunner[r])
  BY <1>1, <1>2, TakenKeepsCancels, FromBrokerQuiet, OffersInOrder DEF AboutTasks
<1>4. o \in settled
  BY <1>2, <1>3 DEF HeldInv, CancelsSettled, FromBroker
<1>5. \/ FinishTask(o, <<>>)
      \/ \E s : status' = [status EXCEPT ![o] = s] /\ UNCHANGED toBroker
  BY DEF TaskCancelled
<1> HIDE DEF o
<1>6. CASE FinishTask(o, <<>>)
  <2>1. \A m \in ToSet(<<>>) : m.type # "taskaccepted"
    BY DEF ToSet
  <2>2. QED
    BY <1>2, <1>3, <1>4, <1>6, <2>1, NoAnswer, FinishHeld
<1>7. ASSUME NEW s, status' = [status EXCEPT ![o] = s], UNCHANGED toBroker
      PROVE  HeldInv'
  <2>1. \A p \in Offers \ settled : Waits(p) => Waits(p)'
    BY <1>1, <1>2, <1>4, <1>7 DEF Waits, StatusTypes
  <2>2. QED
    BY <1>2, <1>3, <1>7, <2>1, QueuesKeepHeld
<1>8. QED
  BY <1>5, <1>6, <1>7

(* A runner that ends leaves a closed socket.                              *)
LEMMA EndedHeld ==
    ASSUME BrokerInv, HeldInv, NEW ended, Ended(ended), UNCHANGED <<toBroker, settled>>,
           tasks' \subseteq tasks
    PROVE  HeldInv'
<1>1. MessagesOK /\ StatusTypes
  BY InvParts
<1>2. \A o \in Offers : Waits(o) => Waits(o)'
  BY <1>1, OffersInOrder DEF Ended, Waits, StatusTypes
<1>3. QED
  BY <1>1, <1>2, EndedKeepsCancels, QueuesKeepHeld

(* The other steps of a runner and its socket.                             *)
LEMMA ConnectionsHeld ==
    ASSUME BrokerInv, HeldInv, NEW r \in Runners,
           \/ StartTaskOffers(r) \/ BrokerDrain(r) \/ ReceivedSettings(r)
           \/ Connect(r) \/ RegisterRunner(r) \/ RemoveConnection(r) \/ Stop(r) \/ Disconnect(r)
    PROVE  HeldInv'
<1>1. MessagesOK /\ StatusTypes /\ SettingsOnce
  BY InvParts
<1>2. CASE Disconnect(r)
  BY <1>2, EndedHeld DEF Disconnect, brokerVars
<1>3. CASE StartTaskOffers(r) \/ BrokerDrain(r)
  <2>1. UNCHANGED <<conn, status, settled, tasks, toBroker>>
    BY <1>3 DEF StartTaskOffers, BrokerDrain, brokerVars
  <2>2. CancelsKept
    BY <1>1, <1>3, TakenKeepsCancels DEF StartTaskOffers, BrokerDrain
  <2>3. QED
    BY <2>1, <2>2, QueuesKeepHeld DEF Waits
<1>4. CASE ReceivedSettings(r)
  <2> DEFINE o == Head(toRunner[r]).id
  <2>1. /\ FromBroker(r, "tasksettings") /\ UNCHANGED <<conn, settled, tasks, toBroker>>
        /\ \A p \in Offers \ {o} : status'[p] = status[p]
    BY <1>1, <1>4 DEF ReceivedSettings, brokerVars, StatusTypes
  <2>2. CancelsKept /\ Head(toRunner[r]) \in ToSet(toRunner[r])
    BY <1>1, <2>1, TakenKeepsCancels, FromBrokerQuiet
  <2>3. o \in settled
    BY <1>1, <2>1, <2>2 DEF SettingsOnce, FromBroker
  <2>4. QED
    BY <2>1, <2>2, <2>3, QueuesKeepHeld DEF Waits
<1>5. CASE Connect(r) \/ RegisterRunner(r) \/ RemoveConnection(r) \/ Stop(r)
  <2>1. UNCHANGED <<status, settled, toBroker>> /\ tasks' \subseteq tasks
    BY <1>5
       DEF Connect, RegisterRunner, RemoveConnection, DeregisterRunner, Stop, brokerVars, runnerVars
  <2>2. \A x \in Runners : conn[x] = "closed" => conn'[x] = "closed"
    BY <1>1, <1>5 DEF Connect, RegisterRunner, RemoveConnection, Stop, StatusTypes
  <2>3. CancelsKept
    <3>1. CASE RegisterRunner(r)
      BY <1>1, <3>1, OthersKeepCancels
    <3>2. CASE ~RegisterRunner(r)
      <4>1. UNCHANGED toRunner
        BY <1>5, <3>2 DEF Connect, RemoveConnection, Stop
      <4>2. QED
        BY <4>1 DEF CancelsKept
    <3>3. QED
      BY <3>1, <3>2
  <2>4. QED
    BY <2>1, <2>2, <2>3, OffersInOrder, QueuesKeepHeld DEF Waits
<1>6. QED
  BY <1>2, <1>3, <1>4, <1>5

(* Steps of the requester and of timers.                                   *)
LEMMA RequesterHeld ==
    ASSUME BrokerInv, HeldInv,
           \/ \E q \in Requests : StartTask(q) \/ RequestTimeout(q)
           \/ \E o \in Offers : CancelTask(o) \/ AcceptTimeout(o) \/ TaskTimeout(o)
           \/ StartDraining
           \/ UNCHANGED vars
    PROVE  HeldInv'
<1>1. MessagesOK /\ BrokerTypes
  BY InvParts
<1>2. ASSUME NEW q \in Requests, StartTask(q) PROVE HeldInv'
  <2>1. UNCHANGED <<toBroker, conn, status, settled, tasks>>
    BY <1>2 DEF StartTask, TaskRequested, brokerVars, runnerVars
  <2>2. CancelsKept
    <3>1. CASE isDraining
      BY <1>2, <3>1 DEF StartTask, TaskRequested, CancelsKept
    <3>2. CASE ~isDraining
      BY <1>1, <1>2, <3>2, SettleKeepsCancels DEF StartTask, TaskRequested, BrokerTypes
    <3>3. QED
      BY <3>1, <3>2
  <2>3. QED
    BY <2>1, <2>2, QueuesKeepHeld DEF Waits
<1>3. ASSUME NEW o \in Offers, CancelTask(o) PROVE HeldInv'
  <2>1. /\ UNCHANGED <<toBroker, conn, status, settled>>
        /\ o \in settled /\ tasks' \subseteq tasks
        /\ MessageRunner(o, "taskcancel") \/ UNCHANGED toRunner
    BY <1>3 DEF CancelTask, DropTask, runnerVars
  <2>2. CancelsKept
    BY <1>1, <2>1, MessageKeepsCancels DEF CancelsKept, AboutTasks
  <2>3. QED
    BY <2>1, <2>2, QueuesKeepHeld DEF Waits
<1>4. ASSUME NEW o \in Offers, TaskTimeout(o) PROVE HeldInv'
  <2>1. /\ UNCHANGED <<toBroker, settled>>
        /\ o \in settled /\ tasks' \subseteq tasks
    BY <1>4 DEF TaskTimeout, TaskEnds
  <2>2. CASE Mode = "internal"
    BY <1>4, <2>1, <2>2, EndedHeld DEF TaskTimeout
  <2>3. CASE Mode # "internal"
    <3>1. MessageRunner(o, "taskcancel") /\ UNCHANGED <<conn, status>>
      BY <1>4, <2>3 DEF TaskTimeout, runnerVars
    <3>2. CancelsKept
      BY <1>1, <2>1, <3>1, MessageKeepsCancels DEF AboutTasks
    <3>3. QED
      BY <2>1, <3>1, <3>2, QueuesKeepHeld DEF Waits
  <2>4. QED
    BY <2>2, <2>3
<1>5. CASE StartDraining
  <2>1. UNCHANGED <<toBroker, conn, status, settled, tasks>>
    BY <1>5 DEF StartDraining, runnerVars
  <2>2. CancelsKept
    BY <1>1, <1>5, OthersKeepCancels
  <2>3. QED
    BY <2>1, <2>2, QueuesKeepHeld DEF Waits
<1>6. CASE \/ \E q \in Requests : RequestTimeout(q)
           \/ \E o \in Offers : AcceptTimeout(o)
           \/ UNCHANGED vars
  <2>1. UNCHANGED <<toBroker, toRunner, conn, status, settled, tasks>>
    BY <1>6 DEF RequestTimeout, AcceptTimeout, vars, runnerVars, brokerVars
  <2>2. QED
    BY <2>1, QueuesKeepHeld DEF Waits, CancelsKept
<1>7. QED
  BY <1>2, <1>3, <1>4, <1>5, <1>6

(* The broker takes a message.  An answer enters its task in tasks: if its *)
(* request has expired the task gets no settings, and then the error is    *)
(* behind the answer, or the runner waits.                                 *)
LEMMA TakenHeld ==
    ASSUME BrokerInv, HeldInv, NEW r \in Runners, FromRunnerStep(r)
    PROVE  HeldInv'
<1> DEFINE m == Head(toBroker[r])
<1>1. MessagesOK /\ BrokerTypes /\ BrokerTypeOK /\ CallsMatchTasks /\ AcceptsOpen /\ TasksHaveRunners
  BY InvParts
<1>2. /\ UNCHANGED <<conn, status>>
      /\ \A o : Waits(o) => Waits(o)'
  BY DEF FromRunnerStep, TaskOffered, HandleRunnerAccept, HandleRunnerReject, TaskResult, runnerVars,
         Waits
<1>3. CASE TaskOffered(r)
  <2>1. FromRunner(r, {"taskoffer"}) /\ UNCHANGED <<settled, tasks, sent>>
    BY <1>3 DEF TaskOffered, brokerVars, runnerVars
  <2>2. m \in FromMessages /\ m.type = "taskoffer" /\ m.id \in Offers
    BY <1>1, <2>1, FromRunnerGoesUp, OffersInOrder
  <2>3. \A o \in Offers : BackedStays(o)
    BY <2>1, <2>2, TakenBacked
  <2>4. CancelsKept
    <3>1. CASE r \notin knownRunners
      BY <1>3, <3>1 DEF TaskOffered, CancelsKept
    <3>2. CASE r \in knownRunners
      <4>1. SettleTasks(Append(pendingTaskOffers, m.id), pendingTaskRequests)
        BY <1>3, <3>2 DEF TaskOffered
      <4>2. Append(pendingTaskOffers, m.id) \in Seq(Offers)
        BY <1>1, <2>2 DEF BrokerTypes
      <4>3. QED
        BY <1>1, <4>1, <4>2, SettleKeepsCancels
    <3>3. QED
      BY <3>1, <3>2
  <2>5. QED
    BY <1>1, <1>2, <2>1, <2>3, <2>4, KeepHeld DEF BrokerTypes
<1>4. CASE HandleRunnerReject(r)
  <2>1. /\ FromRunner(r, {"taskrejected", "taskdeferred"})
        /\ UNCHANGED <<settled, tasks, sent, toRunner>>
    BY <1>4 DEF HandleRunnerReject, runnerVars
  <2>2. m.type \in {"taskrejected", "taskdeferred"}
    BY <2>1 DEF FromRunner
  <2>3. \A o \in Offers : BackedStays(o)
    BY <2>1, <2>2, TakenBacked
  <2>4. QED
    BY <1>1, <1>2, <2>1, <2>3, KeepHeld DEF BrokerTypes, CancelsKept
<1>5. CASE TaskResult(r)
  <2>1. /\ FromRunner(r, {"taskdone", "taskerror"})
        /\ UNCHANGED <<settled, toRunner>>
        /\ tasks' = IF r \in knownRunners THEN tasks \ {m.id} ELSE tasks
    BY <1>5 DEF TaskResult, TaskEnds
  <2>2. m.id \in OffersOf(r)
    BY <2>1, FromRunnerGoesUp, <1>1, <1>5 DEF TaskResult, runnerVars
  <2>3. m.id \notin tasks'
    BY <1>1, <2>1, <2>2 DEF TasksHaveRunners, OffersOf
  <2>4. \A o \in Offers : BackedStays(o)
    BY <2>1, <2>3, TakenBacked
  <2>5. QED
    BY <1>1, <1>2, <2>1, <2>4, KeepHeld DEF BrokerTypes, CancelsKept
<1>6. CASE HandleRunnerAccept(r)
  <2>1. FromRunner(r, {"taskaccepted"}) /\ m.type = "taskaccepted"
    BY <1>6 DEF HandleRunnerAccept, FromRunner
  <2>2. PICK o \in Offers : o = m.id /\ o[1] = r
    BY <1>1, <1>6, <2>1, FromRunnerGoesUp DEF HandleRunnerAccept, runnerVars, OffersOf
  <2>3. \A p \in Offers : BackedStays(p)
    BY <2>1, TakenBacked
  <2>4. o \notin settled => Waits(o)' \/ ErrorUnderWay(o)'
    <3>1. o \notin settled => Waits(o) \/ AcceptsBacked(toBroker[r], o)
      BY <2>2 DEF HeldInv
    <3>2. AcceptsBacked(toBroker[r], o) => ErrorUnderWay(o)'
      BY <2>1, <2>2, TakenBacked
    <3>3. QED
      BY <1>2, <3>1, <3>2
  <2>5. \/ UNCHANGED <<settled, tasks, toRunner>>
        \/ o \in awaiting /\ Accepted(o)
    BY <1>6, <2>2 DEF HandleRunnerAccept, brokerVars
  <2>6. CASE UNCHANGED <<settled, tasks, toRunner>>
    BY <1>1, <1>2, <2>3, <2>6, KeepHeld DEF BrokerTypes, CancelsKept
  <2>7. CASE o \in awaiting /\ Accepted(o)
    <3>1. /\ tasks' = tasks \cup {o}
          /\ settled' = settled \cup {o} \/ settled' = settled
          /\ MessageRunner(o, "tasksettings") \/ UNCHANGED toRunner
      <4>1. CASE request[o] \in ToSet(pendingTaskRequests)
        <5>1. request[o] \in Requests
          BY <1>1, <2>2, <2>7, <4>1 DEF AcceptsOpen, BrokerTypes
        <5>2. call[request[o]] = "requested"
          BY <1>1, <4>1, <5>1 DEF CallsMatchTasks
        <5>3. QED
          BY <2>7, <4>1, <5>2 DEF Accepted, TaskReady, SendTaskSettings
      <4>2. CASE request[o] \notin ToSet(pendingTaskRequests)
        BY <2>7, <4>2 DEF Accepted
      <4>3. QED
        BY <4>1, <4>2
    <3>2. CancelsKept
      BY <1>1, <2>2, <3>1, MessageKeepsCancels DEF CancelsKept, AboutTasks
    <3>3. tasks' \subseteq Offers
      BY <1>1, <2>2, <3>1 DEF BrokerTypes
    <3>4. \A p \in tasks' \ (tasks \cup settled') : Waits(p)' \/ ErrorUnderWay(p)'
      BY <2>4, <3>1
    <3>5. QED
      BY <1>2, <2>3, <3>1, <3>2, <3>3, <3>4, KeepHeld
  <2>8. QED
    BY <2>5, <2>6, <2>7
<1>7. QED
  BY <1>3, <1>4, <1>5, <1>6 DEF FromRunnerStep

LEMMA NextHeld == BrokerInv /\ HeldInv /\ [Next]_vars => HeldInv'
<1> SUFFICES ASSUME BrokerInv, HeldInv, [Next]_vars PROVE HeldInv'
  OBVIOUS
<1>1. ASSUME NEW r \in Runners, FromBrokerStep(r) PROVE HeldInv'
  BY <1>1, AnswerHeld, TaskCancelledHeld, ConnectionsHeld DEF FromBrokerStep
<1>2. QED
  BY <1>1, RequesterHeld, RunnerEndsTaskHeld, TakenHeld, OfferIntervalHeld, ConnectionsHeld
     DEF Next, TaskStep, ConnectionStep

LEMMA InitHeld == Init => HeldInv
<1> SUFFICES ASSUME Init PROVE HeldInv
  OBVIOUS
<1>1. ASSUME NEW o \in Offers PROVE AcceptsBacked(toBroker[o[1]], o)
  <2>1. toBroker[o[1]] = <<>>
    BY OffersInOrder DEF Init
  <2>2. QED
    BY <2>1 DEF AcceptsBacked
<1>2. QED
  BY <1>1 DEF Init, HeldInv, TasksCanEnd, CancelsSettled, ToSet

(* The broker keeps a task without settings only while its runner waits    *)
(* for them, tells that it gave up, or is lost: draining does not wait for *)
(* a task that nobody will end.                                            *)
THEOREM TasksCanEndHolds == Spec => []TasksCanEnd
<1>1. BrokerInv /\ HeldInv /\ [Next]_vars => HeldInv'
  BY NextHeld
<1>2. HeldInv => TasksCanEnd
  BY DEF HeldInv
<1>3. QED
  BY <1>1, <1>2, InitHeld, BrokerInvariant, PTL DEF Spec
=============================================================================
