------------------------- MODULE TaskBroker_proofs -------------------------
(***************************************************************************)
(* Proofs about TaskBroker: the inductive invariant BrokerInv, and from it *)
(* each invariant that TLC checks, for any number of requests, runners,    *)
(* slots and offers.                                                       *)
(*                                                                         *)
(* Two definitions divide the work.  A step is Quiet if it sends no        *)
(* settings: it keeps MessagesOK and SettingsOnce.  A step for which       *)
(* OffersGoUp makes only new offers: it keeps OffersFresh.  What an action *)
(* does to broker and requester (BrokerSide) and to the slots of a runner  *)
(* (SlotsRespected) is shown action by action.                             *)
(***************************************************************************)
EXTENDS TaskBroker, Filters_proofs, FiniteSetTheorems, TLAPS

-----------------------------------------------------------------------------
(* Queues of messages: what is in them, and that of a type of message at   *)
(* most one is in the queue for each offer.                                *)

Once(s, type) ==
    \A i, j \in DOMAIN s :
        (s[i].type = type /\ s[j].type = type /\ s[i].id = s[j].id) => i = j

(* A queue without its head holds nothing new, and no second message like  *)
(* the head.                                                               *)
LEMMA TailMessages ==
    ASSUME NEW M, NEW s \in Seq(M), s # <<>>, NEW type
    PROVE  /\ Tail(s) \in Seq(M)
           /\ Head(s) \in M
           /\ Head(s) \in ToSet(s)
           /\ ToSet(Tail(s)) \subseteq ToSet(s)
           /\ Once(s, type) =>
                /\ Once(Tail(s), type)
                /\ Head(s).type = type =>
                     \A m \in ToSet(Tail(s)) : m.type = type => m.id # Head(s).id
<1>1. /\ Tail(s) \in Seq(M) /\ Head(s) \in M
      /\ 1 \in DOMAIN s /\ Head(s) = s[1]
  OBVIOUS
<1>2. \A i \in DOMAIN Tail(s) : i + 1 \in DOMAIN s /\ Tail(s)[i] = s[i + 1] /\ i \in Nat \ {0}
  OBVIOUS
<1>3. ToSet(Tail(s)) \subseteq ToSet(s)
  BY <1>2 DEF ToSet
<1>4. ASSUME Once(s, type)
      PROVE  Once(Tail(s), type)
  <2> SUFFICES ASSUME NEW i \in DOMAIN Tail(s), NEW j \in DOMAIN Tail(s),
                      Tail(s)[i].type = type, Tail(s)[j].type = type,
                      Tail(s)[i].id = Tail(s)[j].id
               PROVE  i = j
    BY DEF Once
  <2>1. i + 1 = j + 1
    BY <1>2, <1>4 DEF Once
  <2>2. QED
    BY <1>2, <2>1
<1>5. ASSUME Once(s, type), Head(s).type = type,
             NEW m \in ToSet(Tail(s)), m.type = type, m.id = Head(s).id
      PROVE  FALSE
  <2>1. PICK i \in DOMAIN Tail(s) : m = Tail(s)[i]
    BY DEF ToSet
  <2>2. i + 1 = 1
    BY <1>1, <1>2, <1>5, <2>1 DEF Once
  <2>3. QED
    BY <1>2, <2>2
<1>6. QED
  BY <1>1, <1>3, <1>4, <1>5 DEF ToSet

(* Messages sent to a queue join those that are in it.                     *)
LEMMA ConcatMessages ==
    ASSUME NEW M, NEW s \in Seq(M), NEW e \in Seq(M), NEW type
    PROVE  /\ s \o e \in Seq(M)
           /\ ToSet(s \o e) = ToSet(s) \cup ToSet(e)
           /\ (/\ Once(s, type) /\ Once(e, type)
               /\ \A m \in ToSet(s), n \in ToSet(e) :
                     m.type = type /\ n.type = type => m.id # n.id)
              => Once(s \o e, type)
<1>1. /\ s \o e \in Seq(M)
      /\ Len(s) \in Nat /\ Len(e) \in Nat
      /\ DOMAIN s = 1 .. Len(s) /\ DOMAIN e = 1 .. Len(e)
      /\ DOMAIN (s \o e) = 1 .. Len(s) + Len(e)
      /\ \A i \in 1 .. Len(s) + Len(e) :
            (s \o e)[i] = IF i <= Len(s) THEN s[i] ELSE e[i - Len(s)]
  OBVIOUS
<1>2. \A i \in DOMAIN (s \o e) :
         \/ i \in DOMAIN s /\ (s \o e)[i] = s[i]
         \/ i - Len(s) \in DOMAIN e /\ (s \o e)[i] = e[i - Len(s)] /\ i \notin DOMAIN s /\ i \in Int
  BY <1>1
<1>3. \A i \in DOMAIN s : i \in DOMAIN (s \o e) /\ (s \o e)[i] = s[i]
  BY <1>1
<1>4. \A i \in DOMAIN e : i + Len(s) \in DOMAIN (s \o e) /\ (s \o e)[i + Len(s)] = e[i]
  BY <1>1
<1>5. ToSet(s \o e) = ToSet(s) \cup ToSet(e)
  <2>1. ToSet(s \o e) \subseteq ToSet(s) \cup ToSet(e)
    BY <1>2 DEF ToSet
  <2>2. ToSet(s) \subseteq ToSet(s \o e)
    BY <1>3 DEF ToSet
  <2>3. ToSet(e) \subseteq ToSet(s \o e)
    <3>1. SUFFICES ASSUME NEW i \in DOMAIN e PROVE \E j \in DOMAIN (s \o e) : e[i] = (s \o e)[j]
      BY DEF ToSet
    <3>2. QED
      BY <1>4
  <2>4. QED
    BY <2>1, <2>2, <2>3
<1>6. ASSUME Once(s, type), Once(e, type),
             \A m \in ToSet(s), n \in ToSet(e) :
                m.type = type /\ n.type = type => m.id # n.id
      PROVE  Once(s \o e, type)
  <2> SUFFICES ASSUME NEW i \in DOMAIN (s \o e), NEW j \in DOMAIN (s \o e),
                      (s \o e)[i].type = type, (s \o e)[j].type = type,
                      (s \o e)[i].id = (s \o e)[j].id
               PROVE  i = j
    BY DEF Once
  <2>1. \A k \in DOMAIN s, l \in DOMAIN e :
           s[k].type = type /\ e[l].type = type => s[k].id # e[l].id
    BY <1>6 DEF ToSet
  <2>2. CASE i \in DOMAIN s /\ j \in DOMAIN s
    BY <1>3, <1>6, <2>2 DEF Once
  <2>3. CASE i \in DOMAIN s /\ j \notin DOMAIN s
    BY <1>2, <2>1, <2>3
  <2>4. CASE i \notin DOMAIN s /\ j \in DOMAIN s
    BY <1>2, <2>1, <2>4
  <2>5. CASE i \notin DOMAIN s /\ j \notin DOMAIN s
    <3>1. i - Len(s) = j - Len(s)
      BY <1>2, <1>6, <2>5 DEF Once
    <3>2. QED
      BY <1>1, <1>2, <2>5, <3>1
  <2>6. QED
    BY <2>2, <2>3, <2>4, <2>5
<1>7. QED
  BY <1>1, <1>5, <1>6

(* A single message is sent.                                               *)
LEMMA OneMessage ==
    ASSUME NEW M, NEW m \in M, NEW type
    PROVE  <<m>> \in Seq(M) /\ ToSet(<<m>>) = {m} /\ Once(<<m>>, type)
BY DEF ToSet, Once

-----------------------------------------------------------------------------
(* The invariant.                                                          *)

FromMessages == [type : {"taskoffer", "taskaccepted", "taskrejected", "taskdeferred",
                         "taskdone", "taskerror"}, id : Offers]
AboutTasks == {"taskofferaccept", "taskcancel", "tasksettings"}
ToMessages == [type : AboutTasks, id : Offers] \cup [type : {"runnerregistered", "drain"}]

(* Messages are about offers of the runner at the other end.               *)
MessagesOK ==
    /\ toBroker \in [Runners -> Seq(FromMessages)]
    /\ toRunner \in [Runners -> Seq(ToMessages)]
    /\ \A r \in Runners : \A m \in ToSet(toBroker[r]) : m.id[1] = r
    /\ \A r \in Runners : \A m \in ToSet(toRunner[r]) : m.type \in AboutTasks => m.id[1] = r

(* An offer is on its way, pending or matched, never two of these, and was *)
(* made once.                                                              *)
OffersFresh ==
    /\ \A o \in Offers : request[o] # None => o[2] <= sent[o[1]]
    /\ \A o \in ToSet(pendingTaskOffers) : request[o] = None /\ o[2] <= sent[o[1]]
    /\ \A r \in Runners : \A m \in ToSet(toBroker[r]) : m.type = "taskoffer" =>
          /\ request[m.id] = None
          /\ m.id \notin ToSet(pendingTaskOffers)
          /\ m.id[2] <= sent[r]
    /\ \A r \in Runners : Once(toBroker[r], "taskoffer")

(* Only matched offers are awaited, and none of which the task was made.   *)
AcceptsOpen ==
    /\ \A o \in runnerAcceptRejects \cup settled \cup tasks : request[o] # None
    /\ awaiting \cap (settled \cup tasks) = {}

(* What the broker keeps is about calls that were made.                    *)
CallsKnown ==
    /\ \A o \in Offers : request[o] # None => call[request[o]] # "new"
    /\ \A q \in acceptInProgress : call[q] # "new"
    /\ \A o \in settled : call[request[o]] \notin {"new", "requested"}

(* InProgressExact without cardinalities.                                  *)
OneAttempt ==
    \A q \in ToSet(pendingTaskRequests) :
        /\ q \in acceptInProgress <=> Attempts(q) # {}
        /\ \A o, p \in Attempts(q) : o = p

(* The settings of a task are sent once, before the runner can execute it. *)
SettingsOnce ==
    /\ \A r \in Runners : \A m \in ToSet(toRunner[r]) : m.type = "tasksettings" =>
          m.id \in settled /\ status[m.id] \in {"waitingForSettings", "none"}
    /\ \A r \in Runners : Once(toRunner[r], "tasksettings")
    /\ \A o \in Offers : o \in settled \/ status[o] \in {"waitingForSettings", "none"}

BrokerTypes ==
    /\ call \in [Requests -> {"new", "requested", "running", "done", "error",
                              "expired", "cancelled"}]
    /\ knownRunners \subseteq Runners
    /\ pendingTaskOffers \in Seq(Offers) /\ IsInjective(pendingTaskOffers)
    /\ pendingTaskRequests \in Seq(Requests) /\ IsInjective(pendingTaskRequests)
    /\ acceptInProgress \subseteq Requests
    /\ awaiting \subseteq runnerAcceptRejects /\ runnerAcceptRejects \subseteq Offers
    /\ tasks \subseteq Offers /\ settled \subseteq Offers
    /\ isDraining \in BOOLEAN
    /\ request \in [Offers -> Requests \cup {None}]

StatusTypes ==
    /\ conn \in [Runners -> {"off", "up", "closing", "closed"}]
    /\ offering \subseteq Runners /\ draining \subseteq Runners
    /\ openOffers \subseteq Offers
    /\ status \in [Offers -> {"none", "waitingForSettings", "running",
                              "aborting:cancelled", "aborting:timeout"}]

(* The part about the state of broker and requester.                       *)
BrokerSide ==
    /\ BrokerTypes /\ AcceptsOpen /\ CallsKnown /\ CallsMatchTasks
    /\ OneRunPerCall /\ OneAttempt /\ TasksHaveRunners

BrokerInv ==
    /\ BrokerSide
    /\ StatusTypes /\ sent \in [Runners -> 0 .. MaxOffers]
    /\ MessagesOK /\ OffersFresh /\ SettingsOnce /\ SlotsRespected

(* The named parts of the invariant.                                       *)
LEMMA InvParts ==
    ASSUME BrokerInv
    PROVE  /\ BrokerTypeOK /\ BrokerTypes /\ StatusTypes /\ MessagesOK /\ OffersFresh
           /\ AcceptsOpen /\ CallsKnown /\ CallsMatchTasks /\ OneRunPerCall /\ OneAttempt
           /\ TasksHaveRunners /\ SettingsOnce /\ SlotsRespected
BY DEF BrokerInv, BrokerSide, BrokerTypeOK, BrokerTypes, StatusTypes

-----------------------------------------------------------------------------
(* What steps do to the messages.                                          *)

(* Nothing but settings can spoil SettingsOnce.                            *)
QuietQueue(r, s, t) ==
    /\ t \in Seq(ToMessages)
    /\ \A m \in ToSet(t) : \/ m \in ToSet(s)
                           \/ m.type # "tasksettings" /\ (m.type \in AboutTasks => m.id[1] = r)
    /\ Once(s, "tasksettings") => Once(t, "tasksettings")

Quiet ==
    /\ toRunner' \in [Runners -> Seq(ToMessages)]
    /\ \A r \in Runners : QuietQueue(r, toRunner[r], toRunner'[r])

(* Offers are new when they are made.                                      *)
OffersGoUp ==
    /\ toBroker' \in [Runners -> Seq(FromMessages)]
    /\ sent' \in [Runners -> 0 .. MaxOffers]
    /\ \A r \in Runners :
          /\ sent[r] <= sent'[r]
          /\ \A m \in ToSet(toBroker'[r]) :
                \/ m \in ToSet(toBroker[r])
                \/ m.id[1] = r /\ (m.type = "taskoffer" =>
                                     sent[r] < m.id[2] /\ m.id[2] <= sent'[r])
          /\ (/\ \A m \in ToSet(toBroker[r]) : m.type = "taskoffer" => m.id[2] <= sent[r]
              /\ Once(toBroker[r], "taskoffer")) => Once(toBroker'[r], "taskoffer")

(* A step that sends a runner nothing is quiet.                            *)
LEMMA SameQuiet == MessagesOK /\ UNCHANGED toRunner => Quiet
BY DEF MessagesOK, Quiet, QuietQueue

(* An offer is the number of an offer of one runner.                       *)
LEMMA OffersInOrder ==
    /\ Offers = Runners \X (1 .. MaxOffers)
    /\ \A o \in Offers : o[1] \in Runners /\ o[2] \in 1 .. MaxOffers /\ o \in OffersOf(o[1])
    /\ \A r \in Runners : OffersOf(r) \subseteq Offers
BY DEF Offers, OffersOf

(* What the broker sends to a runner is quiet if it is no settings.        *)
LEMMA SendingQuiet ==
    ASSUME MessagesOK, NEW r \in Runners, NEW e \in Seq(ToMessages),
           \A m \in ToSet(e) :
              m.type # "tasksettings" /\ (m.type \in AboutTasks => m.id[1] = r)
    PROVE  /\ QuietQueue(r, toRunner[r], Sending(r, e)[r])
           /\ \A x \in Runners \ {r} : Sending(r, e)[x] = toRunner[x]
           /\ Sending(r, e) \in [Runners -> Seq(ToMessages)]
<1>1. toRunner[r] \in Seq(ToMessages) /\ toRunner \in [Runners -> Seq(ToMessages)]
  BY DEF MessagesOK
<1>2. Sending(r, e)[r] = IF Reachable(r) THEN toRunner[r] \o e ELSE toRunner[r]
  BY <1>1 DEF Sending
<1>3. QuietQueue(r, toRunner[r], toRunner[r])
  BY <1>1 DEF QuietQueue
<1>4. QuietQueue(r, toRunner[r], toRunner[r] \o e)
  <2>1. Once(e, "tasksettings")
    BY DEF Once, ToSet
  <2>2. /\ toRunner[r] \o e \in Seq(ToMessages)
        /\ ToSet(toRunner[r] \o e) = ToSet(toRunner[r]) \cup ToSet(e)
        /\ Once(toRunner[r], "tasksettings") => Once(toRunner[r] \o e, "tasksettings")
    BY <1>1, <2>1, ConcatMessages
  <2>3. QED
    BY <2>2 DEF QuietQueue
<1>5. QED
  <2>1. Sending(r, e)[r] \in Seq(ToMessages)
    BY <1>2, <1>3, <1>4 DEF QuietQueue
  <2>2. \A x \in Runners \ {r} : Sending(r, e)[x] = toRunner[x]
    BY <1>1 DEF Sending
  <2>3. Sending(r, e) \in [Runners -> Seq(ToMessages)]
    BY <1>1, <1>2, <2>1 DEF Sending
  <2>4. QED
    BY <1>2, <1>3, <1>4, <2>2, <2>3

(* So are a cancel and the question whether a runner accepts.              *)
LEMMA MessageQuiet ==
    ASSUME MessagesOK, NEW o \in Offers,
           NEW type \in AboutTasks \ {"tasksettings"}, MessageRunner(o, type)
    PROVE  Quiet
<1>1. /\ Message(type, o) \in ToMessages
      /\ Message(type, o).type = type /\ Message(type, o).id = o
  BY DEF Message, ToMessages
<1>2. /\ <<Message(type, o)>> \in Seq(ToMessages)
      /\ ToSet(<<Message(type, o)>>) = {Message(type, o)}
  BY <1>1, OneMessage
<1>3. o[1] \in Runners
  BY OffersInOrder
<1>4. /\ QuietQueue(o[1], toRunner[o[1]], toRunner'[o[1]])
      /\ \A x \in Runners \ {o[1]} : toRunner'[x] = toRunner[x]
      /\ toRunner' \in [Runners -> Seq(ToMessages)]
  BY <1>1, <1>2, <1>3, SendingQuiet DEF MessageRunner
<1>5. \A x \in Runners : QuietQueue(x, toRunner[x], toRunner[x])
  BY DEF MessagesOK, QuietQueue
<1>6. QED
  BY <1>4, <1>5 DEF Quiet

(* A runner takes the next message, which is about an offer of its own.    *)
LEMMA FromBrokerQuiet ==
    ASSUME MessagesOK, NEW r \in Runners, NEW type, FromBroker(r, type)
    PROVE  /\ Quiet
           /\ Head(toRunner[r]) \in ToSet(toRunner[r])
           /\ type \in AboutTasks => Head(toRunner[r]).id \in OffersOf(r)
<1>1. toRunner[r] \in Seq(ToMessages) /\ toRunner[r] # <<>>
      /\ Head(toRunner[r]).type = type
      /\ toRunner' = [toRunner EXCEPT ![r] = Tail(toRunner[r])]
  BY DEF FromBroker, MessagesOK
<1>2. /\ Tail(toRunner[r]) \in Seq(ToMessages)
      /\ Head(toRunner[r]) \in ToMessages
      /\ Head(toRunner[r]) \in ToSet(toRunner[r])
      /\ ToSet(Tail(toRunner[r])) \subseteq ToSet(toRunner[r])
      /\ Once(toRunner[r], "tasksettings") => Once(Tail(toRunner[r]), "tasksettings")
  BY <1>1, TailMessages
<1>3. \A x \in Runners : QuietQueue(x, toRunner[x], toRunner'[x])
  BY <1>1, <1>2 DEF MessagesOK, QuietQueue
<1>4. toRunner' \in [Runners -> Seq(ToMessages)]
  BY <1>1, <1>2 DEF MessagesOK
<1>5. type \in AboutTasks => Head(toRunner[r]).id \in OffersOf(r)
  <2>1. type \in AboutTasks => Head(toRunner[r]).id \in Offers /\ Head(toRunner[r]).id[1] = r
    BY <1>1, <1>2 DEF MessagesOK, ToMessages, AboutTasks
  <2>2. QED
    BY <2>1 DEF OffersOf
<1>6. QED
  BY <1>2, <1>3, <1>4, <1>5 DEF Quiet

(* The broker takes the next message of a runner, which is about an offer  *)
(* of that runner; an offer does not come a second time.                   *)
LEMMA FromRunnerGoesUp ==
    ASSUME MessagesOK, BrokerTypeOK, NEW r \in Runners, NEW types,
           FromRunner(r, types), UNCHANGED sent
    PROVE  /\ OffersGoUp
           /\ Head(toBroker[r]) \in ToSet(toBroker[r])
           /\ Head(toBroker[r]) \in FromMessages
           /\ Head(toBroker[r]).type \in types
           /\ Head(toBroker[r]).id \in OffersOf(r)
           /\ Once(toBroker[r], "taskoffer") /\ Head(toBroker[r]).type = "taskoffer" =>
                \A m \in ToSet(toBroker'[r]) :
                   m.type = "taskoffer" => m.id # Head(toBroker[r]).id
<1>1. toBroker[r] \in Seq(FromMessages) /\ toBroker[r] # <<>>
      /\ Head(toBroker[r]).type \in types
      /\ toBroker' = [toBroker EXCEPT ![r] = Tail(toBroker[r])]
      /\ toBroker'[r] = Tail(toBroker[r])
  BY DEF FromRunner, MessagesOK
<1>2. /\ Tail(toBroker[r]) \in Seq(FromMessages)
      /\ Head(toBroker[r]) \in FromMessages
      /\ Head(toBroker[r]) \in ToSet(toBroker[r])
      /\ ToSet(Tail(toBroker[r])) \subseteq ToSet(toBroker[r])
      /\ Once(toBroker[r], "taskoffer") =>
            /\ Once(Tail(toBroker[r]), "taskoffer")
            /\ Head(toBroker[r]).type = "taskoffer" =>
                 \A m \in ToSet(Tail(toBroker[r])) :
                    m.type = "taskoffer" => m.id # Head(toBroker[r]).id
  BY <1>1, TailMessages
<1>3. Head(toBroker[r]).id \in OffersOf(r)
  BY <1>2 DEF MessagesOK, FromMessages, OffersOf
<1>4. \A x \in Runners : toBroker'[x] = IF x = r THEN Tail(toBroker[r]) ELSE toBroker[x]
  BY <1>1 DEF MessagesOK
<1>5. OffersGoUp
  <2>1. sent' \in [Runners -> 0 .. MaxOffers] /\ \A x \in Runners : sent[x] <= sent'[x]
    BY BrokerAssumption DEF BrokerTypeOK
  <2>2. toBroker' \in [Runners -> Seq(FromMessages)]
    BY <1>1, <1>2 DEF MessagesOK
  <2>3. QED
    BY <1>2, <1>4, <2>1, <2>2 DEF OffersGoUp
<1>6. QED
  BY <1>1, <1>2, <1>3, <1>5

(* A step that sends the broker nothing makes no offers.                   *)
LEMMA SameGoesUp ==
    ASSUME MessagesOK, BrokerTypeOK, UNCHANGED <<toBroker, sent>>
    PROVE  OffersGoUp
<1>1. sent' \in [Runners -> 0 .. MaxOffers] /\ \A x \in Runners : sent[x] <= sent'[x]
  BY BrokerAssumption DEF BrokerTypeOK
<1>2. QED
  BY <1>1 DEF MessagesOK, OffersGoUp

(* What a runner sends, as far as it is not an offer.                      *)
AnswersOK(r, first) ==
    /\ first \in Seq(FromMessages)
    /\ \A m \in ToSet(first) : m.id[1] = r /\ m.type # "taskoffer"

(* A runner answers with one message.                                      *)
LEMMA OneAnswer ==
    ASSUME NEW o \in Offers,
           NEW type \in {"taskaccepted", "taskrejected", "taskdeferred", "taskdone", "taskerror"}
    PROVE  AnswersOK(o[1], <<Message(type, o)>>)
<1>1. Message(type, o) \in FromMessages
      /\ Message(type, o).type = type /\ Message(type, o).id = o
  BY DEF Message, FromMessages
<1>2. QED
  BY <1>1, OneMessage DEF AnswersOK

(* A runner answers nothing.                                               *)
LEMMA NoAnswer == ASSUME NEW r PROVE AnswersOK(r, <<>>)
BY DEF AnswersOK, ToSet

(* Answers are no offers.                                                  *)
LEMMA SendGoesUp ==
    ASSUME MessagesOK, BrokerTypeOK, NEW r \in Runners, NEW first, AnswersOK(r, first),
           Send(r, first), UNCHANGED sent
    PROVE  OffersGoUp
<1>1. toBroker[r] \in Seq(FromMessages) /\ first \in Seq(FromMessages)
  BY DEF MessagesOK, AnswersOK
<1>2. \A x \in Runners : toBroker'[x] = IF x = r THEN toBroker[r] \o first ELSE toBroker[x]
  BY DEF Send, MessagesOK
<1>3. Once(first, "taskoffer")
  BY DEF AnswersOK, Once, ToSet
<1>4. /\ toBroker[r] \o first \in Seq(FromMessages)
      /\ ToSet(toBroker[r] \o first) = ToSet(toBroker[r]) \cup ToSet(first)
      /\ Once(toBroker[r], "taskoffer") => Once(toBroker[r] \o first, "taskoffer")
  BY <1>1, <1>3, ConcatMessages DEF AnswersOK
<1>5. toBroker' \in [Runners -> Seq(FromMessages)]
  BY <1>4 DEF Send, MessagesOK
<1>6. sent' \in [Runners -> 0 .. MaxOffers] /\ \A x \in Runners : sent[x] <= sent'[x]
  BY BrokerAssumption DEF BrokerTypeOK
<1>7. QED
  BY <1>2, <1>4, <1>5, <1>6 DEF OffersGoUp, AnswersOK

(* Sets of offers are finite.                                              *)
LEMMA Finite ==
    /\ IsFiniteSet(Offers)
    /\ \A S : S \subseteq Offers => IsFiniteSet(S) /\ Cardinality(S) \in Nat
<1>1. IsFiniteSet(1 .. MaxOffers)
  BY FS_Interval, BrokerAssumption
<1>2. IsFiniteSet(Offers)
  BY <1>1, FS_Product, BrokerAssumption DEF Offers
<1>3. QED
  BY <1>2, FS_Subset, FS_CardinalityType

(* What sendOffers sends: `first`, and after it offers.                    *)
OffersSentAfter(r, first) ==
    \E made \in Seq(FromMessages) : /\ Send(r, first \o made)
                                    /\ \A m \in ToSet(made) : m.type = "taskoffer"

(* sendOffers never offers more than the slots that are free.              *)
LEMMA SendOffersGoesUp ==
    ASSUME MessagesOK, BrokerTypeOK, NEW r \in Runners, NEW running \in SUBSET Offers,
           NEW first, AnswersOK(r, first),
           Cardinality(openOffers \cap OffersOf(r)) + Cardinality(running) <= MaxConcurrency,
           SendOffers(r, running, first)
    PROVE  /\ OffersGoUp
           /\ openOffers' \subseteq Offers
           /\ \A x \in Runners \ {r} : openOffers' \cap OffersOf(x) \subseteq openOffers \cap OffersOf(x)
           /\ Cardinality(openOffers' \cap OffersOf(r)) + Cardinality(running) <= MaxConcurrency
           /\ OffersSentAfter(r, first)
<1> DEFINE mine == openOffers \cap OffersOf(r)
<1>1. PICK stale \in SUBSET mine :
        LET open  == mine \ stale
            count == IF r \notin offering THEN 0
                     ELSE CHOOSE n \in 0..MaxConcurrency :
                             \/ n = FreeSlots(open, running) /\ sent[r] + n <= MaxOffers
                             \/ n < FreeSlots(open, running) /\ sent[r] + n = MaxOffers
            offer == [i \in 1..count |-> <<r, sent[r] + i>>]
        IN  /\ openOffers' = (openOffers \ stale) \cup ToSet(offer)
            /\ sent' = [sent EXCEPT ![r] = @ + count]
            /\ Send(r, first \o [i \in 1..count |-> Message("taskoffer", offer[i])])
  BY DEF SendOffers
<1> DEFINE open  == mine \ stale
           count == IF r \notin offering THEN 0
                    ELSE CHOOSE n \in 0..MaxConcurrency :
                            \/ n = FreeSlots(open, running) /\ sent[r] + n <= MaxOffers
                            \/ n < FreeSlots(open, running) /\ sent[r] + n = MaxOffers
           offer == [i \in 1..count |-> <<r, sent[r] + i>>]
           made  == [i \in 1..count |-> Message("taskoffer", offer[i])]
<1>2. /\ openOffers' = (openOffers \ stale) \cup ToSet(offer)
      /\ sent' = [sent EXCEPT ![r] = @ + count]
      /\ Send(r, first \o made)
  BY <1>1
<1>3. /\ mine \subseteq Offers /\ open \subseteq Offers
      /\ Cardinality(open) \in Nat /\ Cardinality(running) \in Nat
      /\ Cardinality(open) + Cardinality(running) <= MaxConcurrency
      /\ MaxConcurrency \in Nat /\ MaxOffers \in Nat /\ sent[r] \in 0 .. MaxOffers
  <2>1. mine \subseteq Offers
    BY DEF BrokerTypeOK
  <2>2. Cardinality(open) <= Cardinality(mine)
    BY <2>1, Finite, FS_Subset
  <2>3. Cardinality(mine) \in Nat /\ Cardinality(open) \in Nat /\ Cardinality(running) \in Nat
    BY <2>1, Finite
  <2>4. MaxConcurrency \in Nat /\ MaxOffers \in Nat /\ sent[r] \in 0 .. MaxOffers
    BY BrokerAssumption DEF BrokerTypeOK
  <2>5. QED
    BY <2>1, <2>2, <2>3, <2>4
<1>4. /\ count \in Nat
      /\ sent[r] + count <= MaxOffers
      /\ Cardinality(open) + count + Cardinality(running) <= MaxConcurrency
  <2> DEFINE free == FreeSlots(open, running)
             P(n) == \/ n = free /\ sent[r] + n <= MaxOffers
                     \/ n < free /\ sent[r] + n = MaxOffers
  <2>1. free \in 0 .. MaxConcurrency /\ free = MaxConcurrency - (Cardinality(open) + Cardinality(running))
    BY <1>3 DEF FreeSlots
  <2>2. \E n \in 0 .. MaxConcurrency : P(n)
    <3>1. CASE sent[r] + free <= MaxOffers
      BY <2>1, <3>1
    <3>2. CASE sent[r] + free > MaxOffers
      <4>1. MaxOffers - sent[r] \in 0 .. MaxConcurrency /\ P(MaxOffers - sent[r])
        BY <1>3, <2>1, <3>2
      <4>2. QED
        BY <4>1
    <3>3. QED
      BY <1>3, <2>1, <3>1, <3>2
  <2> DEFINE n == CHOOSE n \in 0 .. MaxConcurrency : P(n)
  <2>3. n \in 0 .. MaxConcurrency /\ P(n)
    BY <2>2
  <2>4. count = IF r \notin offering THEN 0 ELSE n
    OBVIOUS
  <2> HIDE DEF n, count
  <2>5. count \in Nat /\ count <= free /\ sent[r] + count <= MaxOffers
    BY <1>3, <2>1, <2>3, <2>4
  <2>6. QED
    BY <1>3, <2>1, <2>5
<1> HIDE DEF count, open
<1>5. \A i \in 1 .. count : /\ offer[i] = <<r, sent[r] + i>>
                            /\ offer[i] \in OffersOf(r) /\ offer[i] \in Offers
                            /\ offer[i][1] = r /\ offer[i][2] = sent[r] + i
  BY <1>3, <1>4 DEF OffersOf, Offers
<1>6. ToSet(offer) \subseteq OffersOf(r) /\ ToSet(offer) \subseteq Offers
  BY <1>5 DEF ToSet
<1>7. Cardinality(ToSet(offer)) <= count
  <2>1. offer \in [1 .. count -> ToSet(offer)]
    BY DEF ToSet
  <2>2. \A x \in ToSet(offer) : \E i \in 1 .. count : offer[i] = x
    BY DEF ToSet
  <2>3. ExistsSurjection(1 .. count, ToSet(offer))
    BY <2>1, <2>2 DEF ExistsSurjection, Surjection
  <2>4. QED
    BY <1>4, <2>3, FS_SurjCardinalityBound
<1>8. /\ made \in Seq(FromMessages)
      /\ \A m \in ToSet(made) : \E i \in 1 .. count : m = Message("taskoffer", offer[i])
      /\ Once(made, "taskoffer")
  <2>1. \A i \in 1 .. count : /\ made[i] = Message("taskoffer", offer[i])
                              /\ made[i] \in FromMessages /\ made[i].id = offer[i]
    BY <1>5 DEF Message, FromMessages
  <2>2. made \in Seq(FromMessages)
    <3>1. made \in [1 .. count -> FromMessages]
      BY <2>1
    <3> HIDE DEF made
    <3>2. QED
      BY <1>4, <3>1
  <2>3. Once(made, "taskoffer")
    <3>1. \A i, j \in 1 .. count : offer[i] = offer[j] => sent[r] + i = sent[r] + j
      BY <1>5
    <3>2. \A i, j \in 1 .. count : offer[i] = offer[j] => i = j
      BY <1>3, <3>1
    <3>3. DOMAIN made = 1 .. count
      OBVIOUS
    <3>4. QED
      BY <2>1, <3>2, <3>3 DEF Once
  <2>4. QED
    BY <2>1, <2>2, <2>3 DEF ToSet
<1>9. \A m \in ToSet(made) : /\ m.id[1] = r /\ m.type = "taskoffer"
                             /\ sent[r] < m.id[2] /\ m.id[2] <= sent[r] + count
  <2>1. \A i \in 1 .. count : sent[r] < sent[r] + i /\ sent[r] + i <= sent[r] + count
    BY <1>3, <1>4
  <2>2. QED
    BY <1>5, <1>8, <2>1 DEF Message
<1> HIDE DEF made
<1>10. OffersGoUp
  <2> DEFINE e == first \o made
  <2>1. /\ e \in Seq(FromMessages)
        /\ ToSet(e) = ToSet(first) \cup ToSet(made)
        /\ Once(e, "taskoffer")
    <3>1. Once(first, "taskoffer")
      BY DEF AnswersOK, Once, ToSet
    <3>2. \A m \in ToSet(first), n \in ToSet(made) :
             m.type = "taskoffer" /\ n.type = "taskoffer" => m.id # n.id
      BY DEF AnswersOK
    <3>3. first \in Seq(FromMessages)
      BY DEF AnswersOK
    <3>4. QED
      BY <1>8, <3>1, <3>2, <3>3, ConcatMessages
  <2>2. toBroker[r] \in Seq(FromMessages)
    BY DEF MessagesOK
  <2> HIDE DEF e
  <2>3. /\ toBroker[r] \o e \in Seq(FromMessages)
        /\ ToSet(toBroker[r] \o e) = ToSet(toBroker[r]) \cup ToSet(e)
    BY <2>1, <2>2, ConcatMessages
  <2>4. ASSUME \A m \in ToSet(toBroker[r]) : m.type = "taskoffer" => m.id[2] <= sent[r],
               Once(toBroker[r], "taskoffer")
        PROVE  Once(toBroker[r] \o e, "taskoffer")
    <3>1. ASSUME NEW m \in ToSet(toBroker[r]), NEW n \in ToSet(e),
                 m.type = "taskoffer", n.type = "taskoffer"
          PROVE  m.id # n.id
      <4>1. n \in ToSet(made)
        BY <2>1, <3>1 DEF AnswersOK
      <4>2. m.id[2] <= sent[r] /\ sent[r] < n.id[2]
        BY <1>9, <2>4, <3>1, <4>1
      <4>3. m.id \in Offers
        <5>1. m \in FromMessages
          BY <2>2 DEF ToSet
        <5>2. QED
          BY <5>1 DEF FromMessages
      <4>4. m.id[2] \in Int /\ sent[r] \in Int
        BY <1>3, <4>3, OffersInOrder
      <4>5. CASE m.id = n.id
        <5>1. m.id[2] = n.id[2]
          BY <4>5
        <5>2. QED
          BY <4>2, <4>4, <5>1
      <4>6. QED
        BY <4>5
    <3>2. QED
      BY <2>1, <2>2, <2>4, <3>1, ConcatMessages
  <2>5. \A x \in Runners : toBroker'[x] = IF x = r THEN toBroker[r] \o e ELSE toBroker[x]
    BY <1>2 DEF Send, MessagesOK, e
  <2>6. toBroker' \in [Runners -> Seq(FromMessages)]
    BY <1>2, <2>3 DEF Send, MessagesOK, e
  <2>7. /\ sent' \in [Runners -> 0 .. MaxOffers] /\ sent'[r] = sent[r] + count
        /\ \A x \in Runners : sent[x] <= sent'[x]
    BY <1>2, <1>3, <1>4 DEF BrokerTypeOK
  <2>8. ASSUME NEW m \in ToSet(toBroker'[r])
        PROVE  \/ m \in ToSet(toBroker[r])
               \/ m.id[1] = r /\ (m.type = "taskoffer" =>
                                    sent[r] < m.id[2] /\ m.id[2] <= sent'[r])
    BY <1>9, <2>1, <2>3, <2>5, <2>7 DEF AnswersOK
  <2>9. QED
    BY <2>4, <2>5, <2>6, <2>7, <2>8 DEF OffersGoUp
<1>11. /\ openOffers' \subseteq Offers
       /\ \A x \in Runners \ {r} : openOffers' \cap OffersOf(x) \subseteq openOffers \cap OffersOf(x)
       /\ openOffers' \cap OffersOf(r) = open \cup ToSet(offer)
  <2>1. \A x \in Runners \ {r} : OffersOf(x) \cap OffersOf(r) = {}
    BY DEF OffersOf
  <2>2. openOffers \subseteq Offers
    BY DEF BrokerTypeOK
  <2>3. QED
    BY <1>2, <1>6, <2>1, <2>2 DEF open
<1>12. Cardinality(open \cup ToSet(offer)) + Cardinality(running) <= MaxConcurrency
  <2>1. /\ Cardinality(open \cup ToSet(offer)) =
              Cardinality(open) + Cardinality(ToSet(offer)) - Cardinality(open \cap ToSet(offer))
    BY <1>3, <1>6, Finite, FS_Union
  <2>2. /\ Cardinality(ToSet(offer)) \in Nat /\ Cardinality(open \cap ToSet(offer)) \in Nat
    <3>1. open \cap ToSet(offer) \subseteq Offers
      BY <1>6
    <3>2. QED
      BY <1>6, <3>1, Finite
  <2>3. QED
    BY <1>3, <1>4, <1>7, <2>1, <2>2
<1>13. OffersSentAfter(r, first)
  BY <1>2, <1>8, <1>9 DEF OffersSentAfter
<1>14. QED
  BY <1>10, <1>11, <1>12, <1>13

-----------------------------------------------------------------------------
(* Matching offers with requests.                                          *)

(* settleTasks gives an offer to one request, and a request one offer.     *)
LEMMA MatchesOneToOne ==
    ASSUME NEW offers \in Seq(Offers), IsInjective(offers),
           NEW requests \in Seq(Requests), IsInjective(requests)
    PROVE  /\ \A m \in Matches(offers, requests) :
                 /\ m \in Offers \X Requests
                 /\ m[1] \in ToSet(offers)
                 /\ m[2] \in ToSet(requests) \ acceptInProgress
           /\ \A m, n \in Matches(offers, requests) : m[1] = n[1] <=> m[2] = n[2]
<1>1. ASSUME NEW t \in Types
      PROVE  /\ OffersOfType(offers, t) \in Seq(Offers)
             /\ ToSet(OffersOfType(offers, t)) =
                  ToSet(offers) \cap {o \in Offers : RunnerType[o[1]] = t}
             /\ IsInjective(OffersOfType(offers, t))
             /\ Ready(requests, t) \in Seq(Requests)
             /\ ToSet(Ready(requests, t)) =
                  ToSet(requests) \cap {q \in Requests \ acceptInProgress : RequestType[q] = t}
             /\ IsInjective(Ready(requests, t))
  BY FilterProperties DEF OffersOfType, Ready
<1> DEFINE At(t, i, m) == /\ i \in DOMAIN OffersOfType(offers, t)
                          /\ i \in DOMAIN Ready(requests, t)
                          /\ m = <<OffersOfType(offers, t)[i], Ready(requests, t)[i]>>
<1>2. \A m \in Matches(offers, requests) : \E t \in Types : \E i : At(t, i, m)
  BY DEF Matches
<1>3. ASSUME NEW t \in Types, NEW i, NEW m, At(t, i, m)
      PROVE  /\ m[1] = OffersOfType(offers, t)[i] /\ m[2] = Ready(requests, t)[i]
             /\ m = <<m[1], m[2]>>
             /\ m[1] \in ToSet(offers) /\ m[1] \in Offers /\ RunnerType[m[1][1]] = t
             /\ m[2] \in ToSet(requests) \ acceptInProgress
             /\ m[2] \in Requests /\ RequestType[m[2]] = t
  <2>1. m[1] = OffersOfType(offers, t)[i] /\ m[2] = Ready(requests, t)[i] /\ m = <<m[1], m[2]>>
    BY <1>3
  <2>2. m[1] \in ToSet(OffersOfType(offers, t)) /\ m[2] \in ToSet(Ready(requests, t))
    BY <1>3, <2>1 DEF ToSet
  <2>3. QED
    BY <1>1, <2>1, <2>2
<1>4. ASSUME NEW m \in Matches(offers, requests), NEW n \in Matches(offers, requests)
      PROVE  m[1] = n[1] <=> m[2] = n[2]
  <2>1. PICK t \in Types : \E i : At(t, i, m)
    BY <1>2
  <2>2. PICK i : At(t, i, m)
    BY <2>1
  <2>3. PICK u \in Types : \E j : At(u, j, n)
    BY <1>2
  <2>4. PICK j : At(u, j, n)
    BY <2>3
  <2> HIDE DEF At
  <2>5. m[1] = n[1] \/ m[2] = n[2] => t = u
    BY <1>3, <2>2, <2>4
  <2>6. ASSUME t = u PROVE m[1] = n[1] <=> i = j
    BY <1>1, <1>3, <2>2, <2>4, <2>6 DEF IsInjective, At
  <2>7. ASSUME t = u PROVE m[2] = n[2] <=> i = j
    BY <1>1, <1>3, <2>2, <2>4, <2>7 DEF IsInjective, At
  <2>8. QED
    BY <2>5, <2>6, <2>7
<1>5. ASSUME NEW m \in Matches(offers, requests)
      PROVE  /\ m \in Offers \X Requests
             /\ m[1] \in ToSet(offers)
             /\ m[2] \in ToSet(requests) \ acceptInProgress
  BY <1>2, <1>3
<1>6. QED
  BY <1>4, <1>5

(* What settleTasks does, without the order of the lists.                  *)
MatchedBy(offers, requests, matches) ==
    /\ matches \subseteq Offers \X Requests
    /\ \A m \in matches : /\ m[1] \in ToSet(offers)
                          /\ m[2] \in ToSet(requests) \ acceptInProgress
    /\ \A m, n \in matches : m[1] = n[1] <=> m[2] = n[2]
    /\ pendingTaskOffers' \in Seq(Offers) /\ IsInjective(pendingTaskOffers')
    /\ ToSet(pendingTaskOffers') \subseteq ToSet(offers) \ {m[1] : m \in matches}
    /\ pendingTaskRequests' = requests
    /\ acceptInProgress' = acceptInProgress \cup {m[2] : m \in matches}
    /\ awaiting' = awaiting \cup {m[1] : m \in matches}
    /\ runnerAcceptRejects' = runnerAcceptRejects \cup {m[1] : m \in matches}
    /\ request' \in [Offers -> Requests \cup {None}]
    /\ \A m \in matches : request'[m[1]] = m[2]
    /\ \A o \in Offers \ {m[1] : m \in matches} : request'[o] = request[o]
    /\ Quiet

(* settleTasks asks the runners of the matched offers, and takes these out *)
(* of the list.                                                            *)
LEMMA SettleTasksMatches ==
    ASSUME MessagesOK, BrokerTypeOK, NEW offers \in Seq(Offers), IsInjective(offers),
           NEW requests \in Seq(Requests), IsInjective(requests),
           SettleTasks(offers, requests)
    PROVE  \E matches : MatchedBy(offers, requests, matches)
<1>1. PICK expired \in SUBSET Expirable(offers) :
        LET valid   == Filter(offers, Offers \ expired)
            matches == Matches(valid, requests)
        IN  /\ pendingTaskOffers' = Filter(valid, Offers \ {m[1] : m \in matches})
            /\ pendingTaskRequests' = requests
            /\ acceptInProgress' = acceptInProgress \cup {m[2] : m \in matches}
            /\ AcceptOffers(valid, matches)
  BY DEF SettleTasks
<1> DEFINE valid   == Filter(offers, Offers \ expired)
           matches == Matches(valid, requests)
           matched == {m[1] : m \in matches}
<1>2. /\ valid \in Seq(Offers) /\ IsInjective(valid)
      /\ ToSet(valid) \subseteq ToSet(offers)
  BY FilterProperties
<1>3. /\ pendingTaskOffers' = Filter(valid, Offers \ matched)
      /\ pendingTaskRequests' = requests
      /\ acceptInProgress' = acceptInProgress \cup {m[2] : m \in matches}
      /\ AcceptOffers(valid, matches)
  BY <1>1
<1> HIDE DEF valid
<1>4. /\ \A m \in matches : /\ m \in Offers \X Requests
                            /\ m[1] \in ToSet(valid)
                            /\ m[2] \in ToSet(requests) \ acceptInProgress
      /\ \A m, n \in matches : m[1] = n[1] <=> m[2] = n[2]
  BY <1>2, MatchesOneToOne
<1> HIDE DEF matches
<1>5. /\ pendingTaskOffers' \in Seq(Offers) /\ IsInjective(pendingTaskOffers')
      /\ ToSet(pendingTaskOffers') \subseteq ToSet(offers) \ matched
  BY <1>2, <1>3, FilterProperties
<1>6. /\ request' = [o \in Offers |-> IF o \in matched
                                      THEN (CHOOSE m \in matches : m[1] = o)[2]
                                      ELSE request[o]]
      /\ awaiting' = awaiting \cup matched
      /\ runnerAcceptRejects' = runnerAcceptRejects \cup matched
  BY <1>3 DEF AcceptOffers
<1>7. \A m \in matches : (CHOOSE n \in matches : n[1] = m[1])[2] = m[2]
  <2> SUFFICES ASSUME NEW m \in matches
               PROVE  (CHOOSE n \in matches : n[1] = m[1])[2] = m[2]
    OBVIOUS
  <2> DEFINE n == CHOOSE n \in matches : n[1] = m[1]
  <2>1. n \in matches /\ n[1] = m[1]
    OBVIOUS
  <2>2. QED
    BY <1>4, <2>1
<1>8. /\ \A m \in matches : request'[m[1]] = m[2]
      /\ \A o \in Offers \ matched : request'[o] = request[o]
  BY <1>4, <1>6, <1>7
<1>9. request' \in [Offers -> Requests \cup {None}]
  <2>1. ASSUME NEW o \in Offers PROVE request'[o] \in Requests \cup {None}
    <3>1. CASE o \in matched
      BY <1>4, <1>8, <3>1
    <3>2. CASE o \notin matched
      BY <1>8, <3>2 DEF BrokerTypeOK
    <3>3. QED
      BY <3>1, <3>2
  <2>2. QED
    BY <1>6, <2>1
<1>10. Quiet
  <2> DEFINE For(r) == Filter(valid, matched \cap OffersOf(r))
             asks(r) == [i \in DOMAIN For(r) |-> Message("taskofferaccept", For(r)[i])]
  <2>1. toRunner' = [r \in Runners |-> Sending(r, asks(r))[r]]
    BY <1>3 DEF AcceptOffers
  <2>2. ASSUME NEW r \in Runners
        PROVE  QuietQueue(r, toRunner[r], toRunner'[r]) /\ toRunner'[r] \in Seq(ToMessages)
    <3>1. For(r) \in Seq(Offers) /\ ToSet(For(r)) \subseteq OffersOf(r)
      BY <1>2, FilterProperties
    <3> HIDE DEF For
    <3>2. \A i \in DOMAIN For(r) :
             /\ For(r)[i] \in Offers /\ For(r)[i][1] = r
             /\ asks(r)[i] = Message("taskofferaccept", For(r)[i])
      BY <3>1 DEF ToSet, OffersOf
    <3>3. \A i \in DOMAIN For(r) :
             /\ asks(r)[i] \in ToMessages /\ asks(r)[i].id[1] = r
             /\ asks(r)[i].type # "tasksettings"
      BY <3>2 DEF Message, ToMessages, AboutTasks
    <3>4. asks(r) \in [DOMAIN For(r) -> ToMessages] /\ DOMAIN asks(r) = DOMAIN For(r)
      BY <3>3
    <3> HIDE DEF asks
    <3>5. asks(r) \in Seq(ToMessages)
      <4>1. DOMAIN For(r) = 1 .. Len(For(r)) /\ Len(For(r)) \in Nat
        BY <3>1
      <4>2. QED
        BY <3>4, <4>1
    <3>6. \A m \in ToSet(asks(r)) :
             m.type # "tasksettings" /\ (m.type \in AboutTasks => m.id[1] = r)
      BY <3>3, <3>4 DEF ToSet
    <3>7. QuietQueue(r, toRunner[r], Sending(r, asks(r))[r])
      BY <3>5, <3>6, SendingQuiet
    <3>8. QED
      BY <2>1, <3>7 DEF QuietQueue
  <2>3. toRunner' \in [Runners -> Seq(ToMessages)]
    <3>1. toRunner' = [r \in Runners |-> toRunner'[r]]
      BY <2>1
    <3>2. QED
      BY <2>2, <3>1
  <2>4. QED
    BY <2>2, <2>3 DEF Quiet
<1>11. MatchedBy(offers, requests, matches)
  BY <1>2, <1>3, <1>4, <1>5, <1>6, <1>8, <1>9, <1>10 DEF MatchedBy
<1>12. QED
  BY <1>11

-----------------------------------------------------------------------------
(* What keeps the parts of the invariant.                                  *)

(* Messages stay about offers of the runner at the other end.              *)
LEMMA KeepMessages ==
    ASSUME MessagesOK, OffersGoUp, Quiet PROVE MessagesOK'
<1>1. ASSUME NEW r \in Runners, NEW m \in ToSet(toBroker'[r]) PROVE m.id[1] = r
  BY DEF MessagesOK, OffersGoUp
<1>2. ASSUME NEW r \in Runners, NEW m \in ToSet(toRunner'[r]), m.type \in AboutTasks
      PROVE  m.id[1] = r
  BY <1>2 DEF MessagesOK, Quiet, QuietQueue
<1>3. QED
  BY <1>1, <1>2 DEF MessagesOK, OffersGoUp, Quiet

(* The offer a message is about is one of that runner.                     *)
LEMMA IdsOfMessages ==
    ASSUME MessagesOK, NEW r \in Runners
    PROVE  /\ \A m \in ToSet(toBroker[r]) : m.id \in OffersOf(r)
           /\ \A m \in ToSet(toRunner[r]) : m.type \in AboutTasks => m.id \in OffersOf(r)
<1>1. \A m \in ToSet(toBroker[r]) : m \in FromMessages
  BY DEF MessagesOK, ToSet
<1>2. \A m \in ToSet(toRunner[r]) : m \in ToMessages
  BY DEF MessagesOK, ToSet
<1>3. \A m \in ToSet(toBroker[r]) : m.id \in Offers
  BY <1>1 DEF FromMessages
<1>4. \A m \in ToSet(toRunner[r]) : m.type \in AboutTasks => m.id \in Offers
  BY <1>2 DEF ToMessages, AboutTasks
<1>5. QED
  BY <1>3, <1>4 DEF MessagesOK, OffersOf

(* No offer comes back to the list or to the socket.                       *)
LEMMA KeepOffersFresh ==
    ASSUME MessagesOK, BrokerTypeOK, OffersFresh, OffersGoUp, UNCHANGED request,
           ToSet(pendingTaskOffers') \subseteq ToSet(pendingTaskOffers),
           pendingTaskOffers \in Seq(Offers)
    PROVE  OffersFresh'
<1>0. ASSUME NEW o \in Offers, o[2] <= sent[o[1]]
      PROVE  o[2] <= sent'[o[1]]
  <2>1. o[1] \in Runners /\ o[2] \in Int
    BY OffersInOrder
  <2>2. sent[o[1]] \in Int /\ sent'[o[1]] \in Int /\ sent[o[1]] <= sent'[o[1]]
    BY <2>1, BrokerAssumption DEF BrokerTypeOK, OffersGoUp
  <2>3. QED
    BY <1>0, <2>1, <2>2
<1>1. \A o \in ToSet(pendingTaskOffers) : o \in Offers
  BY DEF ToSet
<1>2. ASSUME NEW r \in Runners, NEW m \in ToSet(toBroker'[r]), m.type = "taskoffer"
      PROVE  /\ request[m.id] = None
             /\ m.id \notin ToSet(pendingTaskOffers)
             /\ m.id[2] <= sent'[r]
  <2>1. CASE m \in ToSet(toBroker[r])
    <3>1. m.id \in Offers /\ m.id[1] = r
      BY <2>1, IdsOfMessages DEF OffersOf
    <3>2. QED
      BY <1>0, <1>2, <2>1, <3>1 DEF OffersFresh
  <2>2. CASE m \notin ToSet(toBroker[r])
    <3>1. m.id[1] = r /\ sent[r] < m.id[2] /\ m.id[2] <= sent'[r]
      BY <1>2, <2>2 DEF OffersGoUp
    <3>2. m.id \in Offers
      <4>1. m \in FromMessages
        BY DEF OffersGoUp, ToSet
      <4>2. QED
        BY <4>1 DEF FromMessages
    <3>3. ~(m.id[2] <= sent[r])
      BY <3>1, <3>2, OffersInOrder, BrokerAssumption DEF BrokerTypeOK
    <3>4. QED
      BY <3>1, <3>2, <3>3 DEF OffersFresh
  <2>3. QED
    BY <2>1, <2>2
<1>3. \A r \in Runners : Once(toBroker'[r], "taskoffer")
  BY DEF OffersFresh, OffersGoUp
<1>4. QED
  BY <1>0, <1>1, <1>2, <1>3 DEF OffersFresh

(* No settings are sent, and no task starts.                               *)
LEMMA KeepSettingsOnce ==
    ASSUME MessagesOK, SettingsOnce, Quiet, settled \subseteq settled',
           \A o \in Offers : status[o] \in {"waitingForSettings", "none"}
                                => status'[o] \in {"waitingForSettings", "none"}
    PROVE  SettingsOnce'
<1>1. ASSUME NEW r \in Runners, NEW m \in ToSet(toRunner'[r]), m.type = "tasksettings"
      PROVE  m.id \in settled' /\ status'[m.id] \in {"waitingForSettings", "none"}
  <2>1. m \in ToSet(toRunner[r])
    BY <1>1 DEF Quiet, QuietQueue
  <2>2. m.id \in Offers
    BY <1>1, <2>1, IdsOfMessages, OffersInOrder DEF AboutTasks
  <2>3. QED
    BY <1>1, <2>1, <2>2 DEF SettingsOnce
<1>2. \A r \in Runners : Once(toRunner'[r], "tasksettings")
  BY DEF SettingsOnce, Quiet, QuietQueue
<1>3. QED
  BY <1>1, <1>2 DEF SettingsOnce

(* Nothing is offered and no task begins.                                  *)
LEMMA KeepSlots ==
    ASSUME BrokerTypeOK, SlotsRespected, openOffers' \subseteq openOffers,
           \A o \in Offers : status[o] = "none" => status'[o] = "none"
    PROVE  SlotsRespected'
<1> SUFFICES ASSUME NEW r \in Runners
             PROVE  Cardinality(openOffers' \cap OffersOf(r)) + Cardinality(RunningTasks(r)')
                      <= MaxConcurrency
  BY DEF SlotsRespected
<1>1. /\ RunningTasks(r)' \subseteq RunningTasks(r) /\ RunningTasks(r) \subseteq Offers
      /\ openOffers' \cap OffersOf(r) \subseteq openOffers \cap OffersOf(r)
      /\ openOffers \cap OffersOf(r) \subseteq Offers
  BY OffersInOrder DEF RunningTasks, BrokerTypeOK, OffersOf
<1>2. /\ Cardinality(RunningTasks(r)') <= Cardinality(RunningTasks(r))
      /\ Cardinality(openOffers' \cap OffersOf(r)) <= Cardinality(openOffers \cap OffersOf(r))
  BY <1>1, Finite, FS_Subset
<1>3. /\ Cardinality(RunningTasks(r)') \in Nat /\ Cardinality(RunningTasks(r)) \in Nat
      /\ Cardinality(openOffers' \cap OffersOf(r)) \in Nat
      /\ Cardinality(openOffers \cap OffersOf(r)) \in Nat
  <2>1. /\ RunningTasks(r)' \subseteq Offers /\ openOffers' \cap OffersOf(r) \subseteq Offers
    BY <1>1
  <2>2. QED
    BY <1>1, <2>1, Finite
<1>4. QED
  BY <1>2, <1>3, BrokerAssumption DEF SlotsRespected

(* Steps in which broker and requester do nothing.                         *)
RunnerSide ==
    /\ UNCHANGED <<call, brokerVars>>
    /\ StatusTypes' /\ OffersGoUp /\ Quiet
    /\ SettingsOnce' /\ SlotsRespected'

(* Such a step keeps the invariant.                                        *)
LEMMA RunnerSideInv ==
    ASSUME BrokerInv, RunnerSide PROVE BrokerInv'
<1>1. BrokerSide'
  BY DEF BrokerInv, RunnerSide, BrokerSide, brokerVars, BrokerTypes, AcceptsOpen, CallsKnown,
         CallsMatchTasks, RunsOf, OneRunPerCall, OneAttempt, Attempts, TasksHaveRunners
<1>2. MessagesOK'
  BY KeepMessages DEF BrokerInv, RunnerSide
<1>3. OffersFresh'
  BY InvParts, KeepOffersFresh DEF RunnerSide, brokerVars, BrokerTypes
<1>4. QED
  BY <1>1, <1>2, <1>3 DEF BrokerInv, RunnerSide, OffersGoUp

-----------------------------------------------------------------------------
(* The steps of the runners.                                               *)

(* A finished task makes room before its slot is offered again.            *)
LEMMA FinishTaskKeeps ==
    ASSUME BrokerInv, NEW o \in Offers, NEW first, AnswersOK(o[1], first), FinishTask(o, first)
    PROVE  /\ OffersGoUp /\ SlotsRespected'
           /\ openOffers' \subseteq Offers
           /\ status' = [status EXCEPT ![o] = "none"]
           /\ OffersSentAfter(o[1], first)
<1> DEFINE r == o[1]
           running == RunningTasks(r) \ {o}
<1>1. BrokerTypeOK /\ MessagesOK /\ SlotsRespected
  BY InvParts
<1>2. /\ r \in Runners /\ o \in OffersOf(r)
      /\ running \subseteq Offers /\ running \subseteq RunningTasks(r)
      /\ RunningTasks(r) \subseteq Offers /\ openOffers \cap OffersOf(r) \subseteq Offers
  BY OffersInOrder DEF RunningTasks
<1>3. Cardinality(openOffers \cap OffersOf(r)) + Cardinality(running) <= MaxConcurrency
  <2>1. Cardinality(running) <= Cardinality(RunningTasks(r))
    BY <1>2, Finite, FS_Subset
  <2>2. /\ Cardinality(running) \in Nat /\ Cardinality(RunningTasks(r)) \in Nat
        /\ Cardinality(openOffers \cap OffersOf(r)) \in Nat
    BY <1>2, Finite
  <2>3. QED
    BY <1>1, <1>2, <2>1, <2>2, BrokerAssumption DEF SlotsRespected
<1>4. /\ status' = [status EXCEPT ![o] = "none"]
      /\ SendOffers(r, running, first)
  BY DEF FinishTask
<1>5. /\ OffersGoUp
      /\ openOffers' \subseteq Offers
      /\ \A x \in Runners \ {r} : openOffers' \cap OffersOf(x) \subseteq openOffers \cap OffersOf(x)
      /\ Cardinality(openOffers' \cap OffersOf(r)) + Cardinality(running) <= MaxConcurrency
      /\ OffersSentAfter(r, first)
  BY <1>1, <1>2, <1>3, <1>4, SendOffersGoesUp
<1>6. SlotsRespected'
  <2> SUFFICES ASSUME NEW x \in Runners
               PROVE  Cardinality(openOffers' \cap OffersOf(x)) + Cardinality(RunningTasks(x)')
                        <= MaxConcurrency
    BY DEF SlotsRespected
  <2>1. CASE x = r
    <3>1. RunningTasks(r)' = running
      BY <1>1, <1>4 DEF RunningTasks, BrokerTypeOK, OffersOf
    <3>2. QED
      BY <1>5, <2>1, <3>1
  <2>2. CASE x # r
    <3>1. RunningTasks(x)' = RunningTasks(x)
      BY <1>1, <1>4, <2>2 DEF RunningTasks, BrokerTypeOK, OffersOf
    <3>2. /\ openOffers' \cap OffersOf(x) \subseteq Offers /\ openOffers \cap OffersOf(x) \subseteq Offers
          /\ openOffers' \cap OffersOf(x) \subseteq openOffers \cap OffersOf(x)
          /\ RunningTasks(x) \subseteq Offers
      BY <1>5, <2>2, OffersInOrder DEF RunningTasks
    <3>3. Cardinality(openOffers' \cap OffersOf(x)) <= Cardinality(openOffers \cap OffersOf(x))
      BY <3>2, Finite, FS_Subset
    <3>4. /\ Cardinality(openOffers' \cap OffersOf(x)) \in Nat
          /\ Cardinality(openOffers \cap OffersOf(x)) \in Nat
          /\ Cardinality(RunningTasks(x)) \in Nat
      BY <3>2, Finite
    <3>5. QED
      BY <1>1, <3>1, <3>3, <3>4, BrokerAssumption DEF SlotsRespected
  <2>3. QED
    BY <2>1, <2>2
<1>7. QED
  BY <1>4, <1>5, <1>6

(* Offers made by the timer.                                               *)
LEMMA OfferIntervalInv ==
    ASSUME BrokerInv, NEW r \in Runners, OfferInterval(r) PROVE BrokerInv'
<1>1. BrokerTypeOK /\ MessagesOK /\ SlotsRespected /\ SettingsOnce /\ StatusTypes
  BY InvParts
<1>2. /\ SendOffers(r, RunningTasks(r), <<>>)
      /\ UNCHANGED <<call, brokerVars, conn, toRunner, offering, draining, status>>
  BY DEF OfferInterval
<1>3. RunningTasks(r) \subseteq Offers
  BY OffersInOrder DEF RunningTasks
<1>4. /\ OffersGoUp
      /\ openOffers' \subseteq Offers
      /\ \A x \in Runners \ {r} : openOffers' \cap OffersOf(x) \subseteq openOffers \cap OffersOf(x)
      /\ Cardinality(openOffers' \cap OffersOf(r)) + Cardinality(RunningTasks(r)) <= MaxConcurrency
  BY <1>1, <1>2, <1>3, NoAnswer, SendOffersGoesUp DEF SlotsRespected
<1>5. SlotsRespected'
  <2> SUFFICES ASSUME NEW x \in Runners, x # r
               PROVE  Cardinality(openOffers' \cap OffersOf(x)) + Cardinality(RunningTasks(x))
                        <= MaxConcurrency
    BY <1>2, <1>4 DEF SlotsRespected, RunningTasks
  <2>1. /\ openOffers' \cap OffersOf(x) \subseteq Offers /\ openOffers \cap OffersOf(x) \subseteq Offers
        /\ openOffers' \cap OffersOf(x) \subseteq openOffers \cap OffersOf(x)
        /\ RunningTasks(x) \subseteq Offers
    BY <1>4, OffersInOrder DEF RunningTasks
  <2>2. Cardinality(openOffers' \cap OffersOf(x)) <= Cardinality(openOffers \cap OffersOf(x))
    BY <2>1, Finite, FS_Subset
  <2>3. /\ Cardinality(openOffers' \cap OffersOf(x)) \in Nat
        /\ Cardinality(openOffers \cap OffersOf(x)) \in Nat
        /\ Cardinality(RunningTasks(x)) \in Nat
    BY <2>1, Finite
  <2>4. QED
    BY <1>1, <2>2, <2>3, BrokerAssumption DEF SlotsRespected
<1>6. Quiet /\ SettingsOnce'
  <2>1. Quiet
    BY <1>1, <1>2, SameQuiet
  <2>2. QED
    BY <1>1, <1>2, <2>1, KeepSettingsOnce DEF brokerVars
<1>7. QED
  BY <1>1, <1>2, <1>4, <1>5, <1>6, RunnerSideInv DEF RunnerSide, StatusTypes

(* Steps that leave the offers of the runner and its tasks as they are, or *)
(* drop some of them.                                                      *)
LEMMA QuietRunnerInv ==
    ASSUME BrokerInv, UNCHANGED <<call, brokerVars>>,
           StatusTypes', OffersGoUp, Quiet, openOffers' \subseteq openOffers,
           \A o \in Offers : \/ status'[o] = status[o]
                             \/ status'[o] = "none"
                             \/ status[o] = "running" /\ status'[o] # "none"
    PROVE  BrokerInv'
<1>1. SlotsRespected'
  BY InvParts, KeepSlots
<1>2. SettingsOnce'
  BY InvParts, KeepSettingsOnce DEF brokerVars
<1>3. QED
  BY <1>1, <1>2, RunnerSideInv DEF RunnerSide

(* A runner process that ends takes its messages and tasks with it.        *)
LEMMA EndedQuiet ==
    ASSUME BrokerInv, NEW ended \in SUBSET Runners, Ended(ended)
    PROVE  /\ Quiet /\ StatusTypes' /\ openOffers' \subseteq openOffers
           /\ \A o \in Offers : status'[o] = status[o] \/ status'[o] = "none"
<1>1. MessagesOK /\ StatusTypes
  BY InvParts
<1>2. \A r \in Runners : QuietQueue(r, toRunner[r], toRunner'[r])
  <2>1. \A r \in Runners : toRunner'[r] = toRunner[r] \/ toRunner'[r] = <<>>
    BY DEF Ended
  <2>2. \A r \in Runners : QuietQueue(r, toRunner[r], <<>>)
    BY DEF QuietQueue, ToSet, Once
  <2>3. \A r \in Runners : QuietQueue(r, toRunner[r], toRunner[r])
    BY <1>1 DEF QuietQueue, MessagesOK
  <2>4. QED
    BY <2>1, <2>2, <2>3
<1>3. Quiet
  <2>1. toRunner' = [r \in Runners |-> toRunner'[r]]
    BY DEF Ended
  <2>2. QED
    BY <1>2, <2>1 DEF Quiet, QuietQueue
<1>4. StatusTypes' /\ openOffers' \subseteq openOffers
  BY <1>1 DEF Ended, StatusTypes
<1>5. QED
  BY <1>3, <1>4 DEF Ended

(* Registration, a deferral, draining, the start and the end of a runner.  *)
LEMMA QuietStepsInv ==
    ASSUME BrokerInv, NEW r \in Runners,
           \/ StartTaskOffers(r) \/ LauncherDefers(r) \/ BrokerDrain(r)
           \/ Stop(r) \/ Disconnect(r) \/ Connect(r)
    PROVE  BrokerInv'
<1>1. MessagesOK /\ BrokerTypeOK /\ StatusTypes
  BY InvParts
<1>2. CASE StartTaskOffers(r)
  <2>1. Quiet
    BY <1>1, <1>2, FromBrokerQuiet DEF StartTaskOffers
  <2>2. OffersGoUp
    BY <1>1, <1>2, SameGoesUp DEF StartTaskOffers
  <2>3. StatusTypes' /\ UNCHANGED <<call, brokerVars, openOffers, status>>
    BY <1>1, <1>2 DEF StartTaskOffers, StatusTypes
  <2>4. QED
    BY <2>1, <2>2, <2>3, QuietRunnerInv
<1>3. CASE LauncherDefers(r)
  <2> DEFINE o == Head(toRunner[r]).id
  <2>1. /\ FromBroker(r, "taskofferaccept")
        /\ openOffers' = openOffers \ {o}
        /\ Send(r, <<Message("taskdeferred", o)>>)
        /\ UNCHANGED <<call, brokerVars, conn, offering, draining, sent, status>>
    BY <1>3 DEF LauncherDefers
  <2>2. Quiet /\ o \in Offers /\ o[1] = r
    BY <1>1, <2>1, FromBrokerQuiet, OffersInOrder DEF AboutTasks, OffersOf
  <2> HIDE DEF o
  <2>3. OffersGoUp
    BY <1>1, <2>1, <2>2, OneAnswer, SendGoesUp
  <2>4. StatusTypes' /\ openOffers' \subseteq openOffers
    BY <1>1, <2>1 DEF StatusTypes
  <2>5. QED
    BY <2>1, <2>2, <2>3, <2>4, QuietRunnerInv
<1>4. CASE BrokerDrain(r)
  <2>1. Quiet
    BY <1>1, <1>4, FromBrokerQuiet DEF BrokerDrain
  <2>2. OffersGoUp
    BY <1>1, <1>4, SameGoesUp DEF BrokerDrain
  <2>3. StatusTypes' /\ UNCHANGED <<call, brokerVars, openOffers, status>>
    BY <1>1, <1>4 DEF BrokerDrain, StatusTypes
  <2>4. QED
    BY <2>1, <2>2, <2>3, QuietRunnerInv
<1>5. CASE Stop(r)
  <2>1. Quiet
    BY <1>1, <1>5, SameQuiet DEF Stop
  <2>2. OffersGoUp
    BY <1>1, <1>5, SameGoesUp DEF Stop
  <2>3. /\ StatusTypes' /\ openOffers' \subseteq openOffers
        /\ UNCHANGED <<call, brokerVars, status>>
    BY <1>1, <1>5 DEF Stop, StatusTypes
  <2>4. QED
    BY <2>1, <2>2, <2>3, QuietRunnerInv
<1>6. CASE Disconnect(r)
  <2>1. Ended({r}) /\ UNCHANGED <<call, brokerVars, toBroker>>
    BY <1>6 DEF Disconnect
  <2>2. UNCHANGED sent
    BY <2>1 DEF Ended
  <2>3. OffersGoUp
    BY <1>1, <2>1, <2>2, SameGoesUp
  <2>4. /\ Quiet /\ StatusTypes' /\ openOffers' \subseteq openOffers
        /\ \A o \in Offers : status'[o] = status[o] \/ status'[o] = "none"
    BY <2>1, EndedQuiet
  <2>5. QED
    BY <2>1, <2>3, <2>4, QuietRunnerInv
<1>7. CASE Connect(r)
  <2>1. Quiet
    BY <1>1, <1>7, SameQuiet DEF Connect
  <2>2. OffersGoUp
    BY <1>1, <1>7, SameGoesUp DEF Connect, runnerVars
  <2>3. StatusTypes' /\ UNCHANGED <<call, brokerVars, openOffers, status>>
    BY <1>1, <1>7 DEF Connect, StatusTypes, runnerVars
  <2>4. QED
    BY <2>1, <2>2, <2>3, QuietRunnerInv
<1>8. QED
  BY <1>2, <1>3, <1>4, <1>5, <1>6, <1>7

(* A runner accepts while it has a slot, which the open offer held.        *)
LEMMA OfferAcceptedInv ==
    ASSUME BrokerInv, NEW r \in Runners, OfferAccepted(r) PROVE BrokerInv'
<1>1. MessagesOK /\ BrokerTypeOK /\ StatusTypes /\ SlotsRespected /\ SettingsOnce
  BY InvParts
<1> DEFINE o == Head(toRunner[r]).id
<1>2. /\ FromBroker(r, "taskofferaccept")
      /\ openOffers' = IF r \in draining THEN openOffers ELSE openOffers \ {o}
      /\ \/ /\ Send(r, <<Message("taskrejected", o)>>)
            /\ UNCHANGED status
         \/ /\ ~Rejects(r, o)
            /\ Send(r, <<Message("taskaccepted", o)>>)
            /\ status' = [status EXCEPT ![o] = "waitingForSettings"]
      /\ UNCHANGED <<call, brokerVars, conn, offering, draining, sent>>
  BY DEF OfferAccepted
<1>3. Quiet /\ o \in Offers /\ o[1] = r /\ o \in OffersOf(r)
  BY <1>1, <1>2, FromBrokerQuiet, OffersInOrder DEF AboutTasks, OffersOf
<1> HIDE DEF o
<1>4. OffersGoUp
  BY <1>1, <1>2, <1>3, OneAnswer, SendGoesUp
<1>5. StatusTypes' /\ openOffers' \subseteq openOffers
  BY <1>1, <1>2, <1>3 DEF StatusTypes
<1>6. CASE UNCHANGED status
  BY <1>2, <1>3, <1>4, <1>5, <1>6, QuietRunnerInv
<1>7. CASE ~Rejects(r, o) /\ status' = [status EXCEPT ![o] = "waitingForSettings"]
  <2>1. o \in openOffers /\ openOffers' = openOffers \ {o}
    BY <1>2, <1>7 DEF Rejects
  <2>2. SlotsRespected'
    <3> SUFFICES ASSUME NEW x \in Runners
                 PROVE  Cardinality(openOffers' \cap OffersOf(x)) + Cardinality(RunningTasks(x)')
                          <= MaxConcurrency
      BY DEF SlotsRespected
    <3>1. CASE x = r
      <4> DEFINE open == openOffers \cap OffersOf(r)
      <4>1. /\ openOffers' \cap OffersOf(r) = open \ {o}
            /\ RunningTasks(r)' = RunningTasks(r) \cup {o}
            /\ o \in open /\ open \subseteq Offers /\ RunningTasks(r) \subseteq Offers
        BY <1>1, <1>3, <1>7, <2>1, OffersInOrder DEF RunningTasks, BrokerTypeOK
      <4>2. /\ Cardinality(open \ {o}) = Cardinality(open) - 1
            /\ Cardinality(RunningTasks(r) \cup {o}) <= Cardinality(RunningTasks(r)) + 1
            /\ Cardinality(open) \in Nat /\ Cardinality(RunningTasks(r)) \in Nat
            /\ Cardinality(RunningTasks(r) \cup {o}) \in Nat
        <5>1. RunningTasks(r) \cup {o} \subseteq Offers
          BY <1>3, <4>1
        <5>2. /\ IsFiniteSet(open) /\ IsFiniteSet(RunningTasks(r))
              /\ Cardinality(open) \in Nat /\ Cardinality(RunningTasks(r)) \in Nat
              /\ Cardinality(RunningTasks(r) \cup {o}) \in Nat
          BY <4>1, <5>1, Finite
        <5>3. Cardinality(open \ {o}) = Cardinality(open) - 1
          BY <4>1, <5>2, FS_RemoveElement
        <5>4. Cardinality(RunningTasks(r) \cup {o}) <= Cardinality(RunningTasks(r)) + 1
          <6>1. Cardinality(RunningTasks(r) \cup {o}) =
                  IF o \in RunningTasks(r) THEN Cardinality(RunningTasks(r))
                                           ELSE Cardinality(RunningTasks(r)) + 1
            BY <5>2, FS_AddElement
          <6>2. QED
            BY <5>2, <6>1
        <5>5. QED
          BY <5>2, <5>3, <5>4
      <4>3. Cardinality(open) + Cardinality(RunningTasks(r)) <= MaxConcurrency
        BY <1>1 DEF SlotsRespected
      <4> HIDE DEF open
      <4>4. Cardinality(open \ {o}) + Cardinality(RunningTasks(r) \cup {o}) <= MaxConcurrency
        BY <4>2, <4>3, BrokerAssumption
      <4>5. QED
        BY <3>1, <4>1, <4>4
    <3>2. CASE x # r
      <4>1. /\ openOffers' \cap OffersOf(x) = openOffers \cap OffersOf(x)
            /\ RunningTasks(x)' = RunningTasks(x)
        BY <1>1, <1>3, <1>7, <2>1, <3>2 DEF RunningTasks, BrokerTypeOK, OffersOf
      <4>2. QED
        BY <1>1, <4>1 DEF SlotsRespected
    <3>3. QED
      BY <3>1, <3>2
  <2>3. SettingsOnce'
    <3>1. settled' = settled
      BY <1>2 DEF brokerVars
    <3>2. \A p \in Offers : status[p] \in {"waitingForSettings", "none"}
                               => status'[p] \in {"waitingForSettings", "none"}
      BY <1>1, <1>7 DEF StatusTypes
    <3>3. QED
      BY <1>1, <1>3, <3>1, <3>2, KeepSettingsOnce
  <2>4. QED
    BY <1>2, <1>3, <1>4, <1>5, <2>2, <2>3, RunnerSideInv DEF RunnerSide
<1>8. QED
  BY <1>2, <1>6, <1>7

(* A runner is told to cancel a task.                                      *)
LEMMA TaskCancelledInv ==
    ASSUME BrokerInv, NEW r \in Runners, TaskCancelled(r) PROVE BrokerInv'
<1>1. MessagesOK /\ BrokerTypeOK /\ StatusTypes /\ SettingsOnce
  BY InvParts
<1> DEFINE o == Head(toRunner[r]).id
<1>2. /\ FromBroker(r, "taskcancel")
      /\ IF status[o] = "waitingForSettings"
         THEN FinishTask(o, <<>>)
         ELSE /\ status' = [status EXCEPT ![o] = IF @ = "running" THEN "aborting:cancelled" ELSE @]
              /\ UNCHANGED <<toBroker, sent, openOffers>>
      /\ UNCHANGED <<call, brokerVars, conn, offering, draining>>
  BY DEF TaskCancelled
<1>3. Quiet /\ o \in Offers /\ o[1] = r
  BY <1>1, <1>2, FromBrokerQuiet, OffersInOrder DEF AboutTasks, OffersOf
<1> HIDE DEF o
<1>4. CASE status[o] = "waitingForSettings"
  <2>1. /\ OffersGoUp /\ SlotsRespected' /\ openOffers' \subseteq Offers
        /\ status' = [status EXCEPT ![o] = "none"]
    BY <1>2, <1>3, <1>4, NoAnswer, FinishTaskKeeps
  <2>2. StatusTypes'
    BY <1>1, <1>2, <2>1 DEF StatusTypes
  <2>3. SettingsOnce'
    <3>1. settled' = settled
      BY <1>2 DEF brokerVars
    <3>2. \A p \in Offers : status[p] \in {"waitingForSettings", "none"}
                               => status'[p] \in {"waitingForSettings", "none"}
      BY <1>1, <2>1 DEF StatusTypes
    <3>3. QED
      BY <1>1, <1>3, <3>1, <3>2, KeepSettingsOnce
  <2>4. QED
    BY <1>2, <1>3, <2>1, <2>2, <2>3, RunnerSideInv DEF RunnerSide
<1>5. CASE status[o] # "waitingForSettings"
  <2>1. OffersGoUp
    BY <1>1, <1>2, <1>5, SameGoesUp
  <2>2. /\ StatusTypes' /\ openOffers' \subseteq openOffers
        /\ \A p \in Offers : \/ status'[p] = status[p]
                             \/ status[p] = "running" /\ status'[p] # "none"
    BY <1>1, <1>2, <1>3, <1>5 DEF StatusTypes
  <2>3. QED
    BY <1>2, <1>3, <2>1, <2>2, QuietRunnerInv
<1>6. QED
  BY <1>4, <1>5

(* The settings arrive once, and the task runs only then.                  *)
LEMMA ReceivedSettingsInv ==
    ASSUME BrokerInv, NEW r \in Runners, ReceivedSettings(r) PROVE BrokerInv'
<1>1. MessagesOK /\ BrokerTypeOK /\ StatusTypes /\ SettingsOnce /\ SlotsRespected
  BY InvParts
<1> DEFINE o == Head(toRunner[r]).id
<1>2. /\ FromBroker(r, "tasksettings")
      /\ status' = [status EXCEPT ![o] = IF @ = "waitingForSettings" THEN "running" ELSE @]
      /\ UNCHANGED <<call, brokerVars, conn, toBroker, offering, draining, sent, openOffers>>
  BY DEF ReceivedSettings
<1>3. Quiet /\ o \in Offers /\ o[1] = r
  BY <1>1, <1>2, FromBrokerQuiet, OffersInOrder DEF AboutTasks, OffersOf
<1>4. \A m \in ToSet(toRunner'[r]) : m.type = "tasksettings" => m.id # o
  <2>1. /\ toRunner[r] \in Seq(ToMessages) /\ toRunner[r] # <<>>
        /\ Head(toRunner[r]).type = "tasksettings"
        /\ toRunner'[r] = Tail(toRunner[r])
    BY <1>1, <1>2 DEF FromBroker, MessagesOK
  <2>2. QED
    BY <1>1, <2>1, TailMessages DEF SettingsOnce
<1> HIDE DEF o
<1>5. SettingsOnce'
  <2>1. ASSUME NEW x \in Runners, NEW m \in ToSet(toRunner'[x]), m.type = "tasksettings"
        PROVE  m.id \in settled' /\ status'[m.id] \in {"waitingForSettings", "none"}
    <3>1. m \in ToSet(toRunner[x])
      BY <1>3, <2>1 DEF Quiet, QuietQueue
    <3>2. m.id \in OffersOf(x)
      BY <1>1, <2>1, <3>1, IdsOfMessages DEF AboutTasks
    <3>3. m.id # o
      BY <1>3, <1>4, <2>1, <3>2 DEF OffersOf
    <3>4. status'[m.id] = status[m.id]
      BY <1>1, <1>2, <3>2, <3>3, OffersInOrder DEF StatusTypes
    <3>5. QED
      BY <1>1, <1>2, <2>1, <3>1, <3>4 DEF SettingsOnce, brokerVars
  <2>2. \A x \in Runners : Once(toRunner'[x], "tasksettings")
    BY <1>1, <1>3 DEF SettingsOnce, Quiet, QuietQueue
  <2>3. \A p \in Offers : p \in settled' \/ status'[p] \in {"waitingForSettings", "none"}
    <3>1. o \in settled
      <4>1. Head(toRunner[r]) \in ToSet(toRunner[r]) /\ Head(toRunner[r]).type = "tasksettings"
        BY <1>1, <1>2, FromBrokerQuiet DEF FromBroker
      <4>2. QED
        BY <1>1, <4>1 DEF SettingsOnce, o
    <3>2. QED
      BY <1>1, <1>2, <3>1 DEF SettingsOnce, StatusTypes, brokerVars
  <2>4. QED
    BY <2>1, <2>2, <2>3 DEF SettingsOnce
<1>6. StatusTypes'
  BY <1>1, <1>2, <1>3 DEF StatusTypes
<1>7. SlotsRespected'
  <2>1. \A p \in Offers : status[p] = "none" => status'[p] = "none"
    BY <1>1, <1>2, <1>3 DEF StatusTypes
  <2>2. QED
    BY <1>1, <1>2, <2>1, KeepSlots
<1>8. OffersGoUp
  BY <1>1, <1>2, SameGoesUp
<1>9. QED
  BY <1>2, <1>3, <1>5, <1>6, <1>7, <1>8, RunnerSideInv DEF RunnerSide

(* A runner finishes a task, or aborts it.                                 *)
LEMMA RunnerEndsTaskInv ==
    ASSUME BrokerInv, NEW o \in Offers,
           TaskTimedOut(o) \/ \E result \in {"taskdone", "taskerror"} : TaskExecuted(o, result)
    PROVE  BrokerInv'
<1>1. MessagesOK /\ BrokerTypeOK /\ StatusTypes /\ SettingsOnce
  BY InvParts
<1>2. UNCHANGED <<call, brokerVars, conn, toRunner, offering, draining>>
  BY DEF TaskTimedOut, TaskExecuted
<1>3. Quiet
  BY <1>1, <1>2, SameQuiet
<1>4. ASSUME NEW first, AnswersOK(o[1], first), FinishTask(o, first)
      PROVE  BrokerInv'
  <2>1. /\ OffersGoUp /\ SlotsRespected' /\ openOffers' \subseteq Offers
        /\ status' = [status EXCEPT ![o] = "none"]
    BY <1>4, FinishTaskKeeps
  <2>2. StatusTypes'
    BY <1>1, <1>2, <2>1 DEF StatusTypes
  <2>3. SettingsOnce'
    <3>1. settled' = settled
      BY <1>2 DEF brokerVars
    <3>2. \A p \in Offers : status[p] \in {"waitingForSettings", "none"}
                               => status'[p] \in {"waitingForSettings", "none"}
      BY <1>1, <2>1 DEF StatusTypes
    <3>3. QED
      BY <1>1, <1>3, <3>1, <3>2, KeepSettingsOnce
  <2>4. QED
    BY <1>2, <1>3, <2>1, <2>2, <2>3, RunnerSideInv DEF RunnerSide
<1>5. ASSUME NEW result \in {"taskdone", "taskerror"}, TaskExecuted(o, result)
      PROVE  BrokerInv'
  <2>1. CASE status[o] = "aborting:cancelled"
    BY <1>4, <1>5, <2>1, NoAnswer DEF TaskExecuted
  <2>2. CASE status[o] # "aborting:cancelled"
    <3>1. AnswersOK(o[1], <<Message(result, o)>>)
      BY OneAnswer
    <3>2. QED
      BY <1>4, <1>5, <2>2, <3>1 DEF TaskExecuted
  <2>3. QED
    BY <2>1, <2>2
<1>6. ASSUME TaskTimedOut(o) PROVE BrokerInv'
  <2>1. CASE status[o] = "waitingForSettings"
    <3>1. AnswersOK(o[1], <<Message("taskerror", o)>>)
      BY OneAnswer
    <3>2. QED
      BY <1>4, <1>6, <2>1, <3>1 DEF TaskTimedOut, TimedOut
  <2>2. CASE status[o] # "waitingForSettings"
    <3>1. /\ status[o] = "running"
          /\ status' = [status EXCEPT ![o] = "aborting:timeout"]
          /\ UNCHANGED <<toBroker, sent, openOffers>>
      BY <1>6, <2>2 DEF TaskTimedOut, TimedOut
    <3>2. OffersGoUp
      BY <1>1, <3>1, SameGoesUp
    <3>3. /\ StatusTypes' /\ openOffers' \subseteq openOffers
          /\ \A p \in Offers : \/ status'[p] = status[p]
                               \/ status[p] = "running" /\ status'[p] # "none"
      BY <1>1, <1>2, <3>1 DEF StatusTypes
    <3>4. QED
      BY <1>2, <1>3, <3>2, <3>3, QuietRunnerInv
  <2>3. QED
    BY <2>1, <2>2
<1>7. QED
  BY <1>5, <1>6

-----------------------------------------------------------------------------
(* The steps of broker and requester.                                      *)

(* Steps in which no settings are sent, by what they do to broker and      *)
(* requester.                                                              *)
LEMMA BrokerSideInv ==
    ASSUME BrokerInv, BrokerSide', StatusTypes', OffersFresh', OffersGoUp, Quiet,
           openOffers' \subseteq openOffers, settled' = settled,
           \A o \in Offers : status'[o] = status[o] \/ status'[o] = "none"
    PROVE  BrokerInv'
<1>1. MessagesOK'
  BY InvParts, KeepMessages
<1>2. SettingsOnce'
  BY InvParts, KeepSettingsOnce
<1>3. SlotsRespected'
  BY InvParts, KeepSlots
<1>4. QED
  BY <1>1, <1>2, <1>3 DEF BrokerInv, OffersGoUp

(* settleTasks, when an offer or a request was added.                      *)
LEMMA MatchedInv ==
    ASSUME BrokerInv, NEW offers, NEW requests, NEW matches,
           MatchedBy(offers, requests, matches),
           UNCHANGED <<knownRunners, tasks, isDraining, settled, runnerVars, conn>>,
           call' \in [Requests -> {"new", "requested", "running", "done", "error",
                                   "expired", "cancelled"}],
           OffersGoUp,
           requests \in Seq(Requests), IsInjective(requests),
           \A o \in ToSet(offers) :
              o \in Offers /\ request[o] = None /\ o[2] <= sent[o[1]] /\ o[1] \in knownRunners,
           \A r \in Runners : \A m \in ToSet(toBroker'[r]) :
              m.type = "taskoffer" => m \in ToSet(toBroker[r]) /\ m.id \notin ToSet(offers),
           \A q \in Requests : /\ call'[q] = call[q] \/ (call[q] = "new" /\ call'[q] = "requested")
                               /\ call'[q] = "requested" <=> q \in ToSet(requests)
    PROVE  BrokerInv'
<1>1. /\ BrokerTypes /\ MessagesOK /\ OffersFresh /\ AcceptsOpen /\ CallsKnown
      /\ CallsMatchTasks /\ OneRunPerCall /\ OneAttempt /\ TasksHaveRunners /\ StatusTypes
  BY InvParts
<1> DEFINE matched == {m[1] : m \in matches}
<1>2. /\ \A m \in matches : /\ m[1] \in Offers /\ m[2] \in Requests
                            /\ m[1] \in ToSet(offers) /\ m[2] \in ToSet(requests)
                            /\ m[2] \notin acceptInProgress
                            /\ request[m[1]] = None /\ request'[m[1]] = m[2]
      /\ \A m, n \in matches : m[1] = n[1] <=> m[2] = n[2]
      /\ \A o \in Offers \ matched : request'[o] = request[o]
      /\ None \notin Requests
  BY BrokerAssumption DEF MatchedBy
<1>3. /\ pendingTaskOffers' \in Seq(Offers) /\ IsInjective(pendingTaskOffers')
      /\ ToSet(pendingTaskOffers') \subseteq ToSet(offers) \ matched
      /\ pendingTaskRequests' = requests
      /\ acceptInProgress' = acceptInProgress \cup {m[2] : m \in matches}
      /\ awaiting' = awaiting \cup matched
      /\ runnerAcceptRejects' = runnerAcceptRejects \cup matched
      /\ request' \in [Offers -> Requests \cup {None}]
      /\ Quiet
      /\ UNCHANGED <<knownRunners, tasks, isDraining, settled>>
  BY DEF MatchedBy
<1>4. \A o \in settled \cup tasks \cup awaiting : o \in Offers /\ o \notin matched /\ request'[o] = request[o]
  BY <1>1, <1>2 DEF AcceptsOpen, BrokerTypes
<1> HIDE DEF matched
<1>5. matched \subseteq Offers /\ \A o \in matched : \E m \in matches : o = m[1]
  BY <1>2 DEF matched
<1>6. BrokerTypes'
  <2>1. acceptInProgress' \subseteq Requests
    BY <1>1, <1>2, <1>3 DEF BrokerTypes
  <2>2. awaiting' \subseteq runnerAcceptRejects' /\ runnerAcceptRejects' \subseteq Offers
    BY <1>1, <1>3, <1>5 DEF BrokerTypes
  <2>3. QED
    BY <1>1, <1>3, <2>1, <2>2 DEF BrokerTypes
<1>7. AcceptsOpen'
  <2>1. ASSUME NEW o \in runnerAcceptRejects' \cup settled \cup tasks
        PROVE  request'[o] # None
    <3>1. CASE o \in matched
      BY <1>2, <1>5, <3>1
    <3>2. CASE o \notin matched
      BY <1>1, <1>2, <1>3, <3>2 DEF AcceptsOpen, BrokerTypes
    <3>3. QED
      BY <3>1, <3>2
  <2>2. awaiting' \cap (settled \cup tasks) = {}
    BY <1>1, <1>3, <1>4 DEF AcceptsOpen
  <2>3. QED
    BY <1>3, <2>1, <2>2 DEF AcceptsOpen
<1>8. CallsKnown'
  <2>1. \A q \in Requests : call[q] # "new" => call'[q] # "new"
    OBVIOUS
  <2>2. \A m \in matches : call'[m[2]] # "new"
    BY <1>2
  <2>3. \A o \in Offers : request'[o] # None => call'[request'[o]] # "new"
    <3> SUFFICES ASSUME NEW o \in Offers, request'[o] # None PROVE call'[request'[o]] # "new"
      OBVIOUS
    <3>1. CASE o \in matched
      BY <1>2, <1>5, <2>2, <3>1
    <3>2. CASE o \notin matched
      BY <1>1, <1>2, <2>1, <3>2 DEF CallsKnown, BrokerTypes
    <3>3. QED
      BY <3>1, <3>2
  <2>4. \A q \in acceptInProgress' : call'[q] # "new"
    BY <1>1, <1>3, <2>1, <2>2 DEF CallsKnown, BrokerTypes
  <2>5. \A o \in settled : call'[request'[o]] \notin {"new", "requested"}
    <3> SUFFICES ASSUME NEW o \in settled PROVE call'[request'[o]] \notin {"new", "requested"}
      OBVIOUS
    <3>1. request'[o] = request[o] /\ request[o] \in Requests
      BY <1>1, <1>4 DEF AcceptsOpen, BrokerTypes
    <3>2. QED
      BY <1>1, <3>1 DEF CallsKnown
  <2>6. QED
    BY <1>3, <2>3, <2>4, <2>5 DEF CallsKnown
<1>9. CallsMatchTasks'
  <2>1. \A q \in Requests : RunsOf(q)' = RunsOf(q)
    BY <1>3, <1>4 DEF RunsOf
  <2>2. \A q \in Requests : call'[q] = "running" <=> call[q] = "running"
    OBVIOUS
  <2>3. QED
    BY <1>1, <1>3, <2>1, <2>2 DEF CallsMatchTasks
<1>10. OneRunPerCall'
  BY <1>1, <1>3, <1>4 DEF OneRunPerCall
<1>11. OneAttempt'
  <2> SUFFICES ASSUME NEW q \in ToSet(requests)
               PROVE  /\ q \in acceptInProgress' <=> Attempts(q)' # {}
                      /\ \A o, p \in Attempts(q)' : o = p
    BY <1>3 DEF OneAttempt
  <2>1. q \in Requests
    BY DEF ToSet
  <2>2. /\ q \in acceptInProgress <=> Attempts(q) # {}
        /\ \A o, p \in Attempts(q) : o = p
    <3>1. CASE call[q] = "requested"
      BY <1>1, <2>1, <3>1 DEF OneAttempt, CallsMatchTasks
    <3>2. CASE call[q] = "new"
      <4>1. q \notin acceptInProgress
        BY <1>1, <3>2 DEF CallsKnown
      <4>2. Attempts(q) = {}
        BY <1>1, <1>2, <2>1, <3>2 DEF Attempts, CallsKnown, BrokerTypes
      <4>3. QED
        BY <4>1, <4>2
    <3>3. QED
      BY <2>1, <3>1, <3>2
  <2>3. CASE \E m \in matches : m[2] = q
    <3>1. PICK m \in matches : m[2] = q
      BY <2>3
    <3>2. Attempts(q) = {}
      BY <1>2, <2>2, <3>1
    <3>3. \A o \in Attempts(q)' : o = m[1]
      <4> SUFFICES ASSUME NEW o \in awaiting', request'[o] = q PROVE o = m[1]
        BY DEF Attempts
      <4>1. o \in matched
        BY <1>3, <1>4, <3>2 DEF Attempts
      <4>2. PICK n \in matches : o = n[1]
        BY <1>5, <4>1
      <4>3. n[2] = q
        BY <1>2, <4>2
      <4>4. QED
        BY <1>2, <3>1, <4>2, <4>3
    <3>4. m[1] \in Attempts(q)'
      BY <1>2, <1>3, <3>1 DEF Attempts, matched
    <3>5. q \in acceptInProgress'
      BY <1>3, <3>1
    <3>6. QED
      BY <3>3, <3>4, <3>5
  <2>4. CASE ~\E m \in matches : m[2] = q
    <3>1. Attempts(q)' = Attempts(q)
      <4>1. \A o \in matched : request'[o] # q
        BY <1>2, <1>5, <2>4
      <4>2. QED
        BY <1>3, <1>4, <4>1 DEF Attempts
    <3>2. q \in acceptInProgress' <=> q \in acceptInProgress
      BY <1>3, <2>4
    <3>3. QED
      BY <2>2, <3>1, <3>2
  <2>5. QED
    BY <2>3, <2>4
<1>12. TasksHaveRunners'
  BY <1>1, <1>3 DEF TasksHaveRunners
<1>13. OffersFresh'
  <2>1. sent' = sent
    BY DEF runnerVars
  <2>2. \A o \in Offers : request'[o] # None => o[2] <= sent[o[1]]
    BY <1>1, <1>2, <1>5 DEF OffersFresh
  <2>3. \A o \in ToSet(pendingTaskOffers') : request'[o] = None /\ o[2] <= sent[o[1]]
    BY <1>2, <1>3
  <2>4. ASSUME NEW r \in Runners, NEW m \in ToSet(toBroker'[r]), m.type = "taskoffer"
        PROVE  /\ request'[m.id] = None
               /\ m.id \notin ToSet(pendingTaskOffers')
               /\ m.id[2] <= sent[r]
    <3>1. m \in ToSet(toBroker[r]) /\ m.id \notin ToSet(offers)
      BY <2>4
    <3>2. m.id \in Offers
      BY <1>1, <3>1, IdsOfMessages, OffersInOrder
    <3>3. m.id \notin matched
      BY <1>2, <1>5, <3>1
    <3>4. QED
      BY <1>1, <1>2, <1>3, <2>4, <3>1, <3>2, <3>3 DEF OffersFresh
  <2>5. \A r \in Runners : Once(toBroker'[r], "taskoffer")
    BY <1>1 DEF OffersFresh, OffersGoUp
  <2>6. QED
    BY <2>1, <2>2, <2>3, <2>4, <2>5 DEF OffersFresh
<1>14. BrokerSide'
  BY <1>6, <1>7, <1>8, <1>9, <1>10, <1>11, <1>12 DEF BrokerSide
<1>15. StatusTypes' /\ UNCHANGED <<openOffers, status>>
  BY <1>1 DEF StatusTypes, runnerVars
<1>16. QED
  BY <1>3, <1>13, <1>14, <1>15, BrokerSideInv

(* A call of startTask: its request joins the list, or is refused.         *)
LEMMA StartTaskInv ==
    ASSUME BrokerInv, NEW q \in Requests, StartTask(q) PROVE BrokerInv'
<1>1. BrokerTypes /\ BrokerTypeOK /\ MessagesOK /\ OffersFresh /\ StatusTypes /\ CallsMatchTasks
      /\ TasksHaveRunners
  BY InvParts
<1>2. CASE isDraining
  <2>1. /\ call[q] = "new" /\ call' = [call EXCEPT ![q] = "expired"]
        /\ UNCHANGED <<brokerVars, toRunner, conn, toBroker, runnerVars>>
    BY <1>2 DEF StartTask, TaskRequested, RequestExpired
  <2>2. /\ \A p \in Requests \ {q} : call'[p] = call[p]
        /\ call'[q] = "expired"
        /\ call' \in [Requests -> {"new", "requested", "running", "done", "error",
                                   "expired", "cancelled"}]
    BY <1>1, <2>1 DEF BrokerTypes
  <2>3. BrokerTypes'
    BY <1>1, <2>1, <2>2 DEF BrokerTypes, brokerVars
  <2>4. CallsKnown'
    <3>1. \A o \in Offers : request[o] # None => call[request[o]] # "new" /\ request[o] \in Requests
      BY <1>1, InvParts DEF CallsKnown, BrokerTypes
    <3>2. \A o \in settled : request[o] # None /\ o \in Offers
      BY <1>1, InvParts DEF AcceptsOpen, BrokerTypes
    <3>3. \A p \in Requests : call[p] # "new" => call'[p] = call[p]
      BY <2>1, <2>2
    <3>4. QED
      BY <1>1, <2>1, <3>1, <3>2, <3>3, InvParts DEF CallsKnown, brokerVars, BrokerTypes
  <2>5. CallsMatchTasks'
    <3>1. \A p \in Requests : RunsOf(p)' = RunsOf(p)
      BY <2>1 DEF RunsOf, brokerVars
    <3>2. QED
      BY <1>1, <2>1, <2>2, <3>1 DEF CallsMatchTasks, brokerVars
  <2>6. AcceptsOpen' /\ OneRunPerCall' /\ OneAttempt' /\ TasksHaveRunners'
    BY <2>1, InvParts DEF AcceptsOpen, OneRunPerCall, OneAttempt, Attempts, TasksHaveRunners, brokerVars
  <2>7. BrokerSide'
    BY <2>3, <2>4, <2>5, <2>6 DEF BrokerSide
  <2>8. /\ StatusTypes' /\ OffersGoUp /\ Quiet /\ settled' = settled
        /\ UNCHANGED <<openOffers, status>>
    BY <1>1, <2>1, SameGoesUp, SameQuiet DEF runnerVars, StatusTypes, brokerVars
  <2>9. OffersFresh'
    BY <1>1, <2>1, <2>8, KeepOffersFresh DEF brokerVars, BrokerTypes
  <2>10. QED
    BY <2>7, <2>8, <2>9, BrokerSideInv
<1>3. CASE ~isDraining
  <2> DEFINE requests == Append(pendingTaskRequests, q)
  <2>1. /\ call[q] = "new" /\ call' = [call EXCEPT ![q] = "requested"]
        /\ SettleTasks(pendingTaskOffers, requests)
        /\ UNCHANGED <<knownRunners, tasks, isDraining, settled, conn, toBroker, runnerVars>>
    BY <1>3 DEF StartTask, TaskRequested
  <2>2. q \notin ToSet(pendingTaskRequests)
    BY <1>1, <2>1 DEF CallsMatchTasks
  <2>3. /\ requests \in Seq(Requests) /\ IsInjective(requests)
        /\ ToSet(requests) = ToSet(pendingTaskRequests) \cup {q}
    BY <1>1, <2>2, AppendElement DEF BrokerTypes
  <2> HIDE DEF requests
  <2>4. PICK matches : MatchedBy(pendingTaskOffers, requests, matches)
    BY <1>1, <2>1, <2>3, SettleTasksMatches DEF BrokerTypes
  <2>5. \A o \in ToSet(pendingTaskOffers) :
           o \in Offers /\ request[o] = None /\ o[2] <= sent[o[1]] /\ o[1] \in knownRunners
    <3>1. \A o \in ToSet(pendingTaskOffers) : o \in Offers
      BY <1>1 DEF BrokerTypes, ToSet
    <3>2. QED
      BY <1>1, <3>1 DEF OffersFresh, TasksHaveRunners
  <2>6. \A r \in Runners : \A m \in ToSet(toBroker'[r]) :
           m.type = "taskoffer" => m \in ToSet(toBroker[r]) /\ m.id \notin ToSet(pendingTaskOffers)
    BY <1>1, <2>1 DEF OffersFresh
  <2>7. \A p \in Requests : /\ call'[p] = call[p] \/ (call[p] = "new" /\ call'[p] = "requested")
                            /\ call'[p] = "requested" <=> p \in ToSet(requests)
    BY <1>1, <2>1, <2>3 DEF BrokerTypes, CallsMatchTasks
  <2>8. OffersGoUp
    BY <1>1, <2>1, SameGoesUp DEF runnerVars
  <2>9. call' \in [Requests -> {"new", "requested", "running", "done", "error",
                                "expired", "cancelled"}]
    BY <1>1, <2>1 DEF BrokerTypes
  <2>10. QED
    BY <2>1, <2>3, <2>4, <2>5, <2>6, <2>7, <2>8, <2>9, MatchedInv
<1>4. QED
  BY <1>1, <1>2, <1>3 DEF BrokerTypes

(* An offer arrives, and joins the list of a runner that is known.         *)
LEMMA TaskOfferedInv ==
    ASSUME BrokerInv, NEW r \in Runners, TaskOffered(r) PROVE BrokerInv'
<1>1. BrokerTypes /\ BrokerTypeOK /\ MessagesOK /\ OffersFresh /\ StatusTypes /\ CallsMatchTasks
      /\ TasksHaveRunners
  BY InvParts
<1> DEFINE o == Head(toBroker[r]).id
<1>2. /\ FromRunner(r, {"taskoffer"})
      /\ UNCHANGED <<call, conn, runnerVars, sent>>
  BY DEF TaskOffered, runnerVars
<1>3. /\ OffersGoUp
      /\ Head(toBroker[r]) \in ToSet(toBroker[r])
      /\ Head(toBroker[r]).type = "taskoffer"
      /\ o \in OffersOf(r)
      /\ \A m \in ToSet(toBroker'[r]) : m.type = "taskoffer" => m.id # o
  BY <1>1, <1>2, FromRunnerGoesUp DEF OffersFresh
<1>4. /\ o \in Offers /\ o[1] = r /\ request[o] = None
      /\ o \notin ToSet(pendingTaskOffers) /\ o[2] <= sent[r]
  BY <1>1, <1>3, OffersInOrder DEF OffersFresh, OffersOf
<1>5. CASE r \notin knownRunners
  <2>1. UNCHANGED <<brokerVars, toRunner>>
    BY <1>5 DEF TaskOffered
  <2>2. Quiet /\ StatusTypes' /\ UNCHANGED <<openOffers, status>>
    BY <1>1, <1>2, <2>1, SameQuiet DEF StatusTypes, runnerVars
  <2>3. QED
    BY <1>2, <1>3, <2>1, <2>2, QuietRunnerInv
<1>6. CASE r \in knownRunners
  <2> DEFINE offers == Append(pendingTaskOffers, o)
  <2>1. /\ SettleTasks(offers, pendingTaskRequests)
        /\ UNCHANGED <<knownRunners, tasks, isDraining, settled>>
    BY <1>6 DEF TaskOffered
  <2>2. /\ offers \in Seq(Offers) /\ IsInjective(offers)
        /\ ToSet(offers) = ToSet(pendingTaskOffers) \cup {o}
    BY <1>1, <1>4, AppendElement DEF BrokerTypes
  <2> HIDE DEF offers, o
  <2>3. PICK matches : MatchedBy(offers, pendingTaskRequests, matches)
    BY <1>1, <2>1, <2>2, SettleTasksMatches DEF BrokerTypes
  <2>4. \A p \in ToSet(offers) :
           p \in Offers /\ request[p] = None /\ p[2] <= sent[p[1]] /\ p[1] \in knownRunners
    <3>1. \A p \in ToSet(pendingTaskOffers) : p \in Offers
      BY <1>1 DEF BrokerTypes, ToSet
    <3>2. QED
      BY <1>1, <1>4, <1>6, <2>2, <3>1 DEF OffersFresh, TasksHaveRunners
  <2>5. ASSUME NEW x \in Runners, NEW m \in ToSet(toBroker'[x]), m.type = "taskoffer"
        PROVE  m \in ToSet(toBroker[x]) /\ m.id \notin ToSet(offers)
    <3>1. m \in ToSet(toBroker[x])
      <4>1. ~(sent[x] < m.id[2] /\ m.id[2] <= sent'[x])
        <5>1. sent[x] = sent'[x] /\ sent[x] \in Nat
          BY <1>1, <1>2, BrokerAssumption DEF BrokerTypeOK
        <5>2. m.id \in Offers
          <6>1. m \in FromMessages
            BY <1>3 DEF OffersGoUp, ToSet
          <6>2. QED
            BY <6>1 DEF FromMessages
        <5>3. QED
          BY <5>1, <5>2, OffersInOrder
      <4>2. QED
        BY <1>3, <2>5, <4>1 DEF OffersGoUp
    <3>2. m.id # o
      <4>1. CASE x = r
        BY <1>3, <2>5, <4>1
      <4>2. CASE x # r
        BY <1>1, <1>4, <3>1, <4>2 DEF MessagesOK
      <4>3. QED
        BY <4>1, <4>2
    <3>3. QED
      BY <1>1, <2>2, <2>5, <3>1, <3>2 DEF OffersFresh
  <2>6. \A p \in Requests : /\ call'[p] = call[p]
                            /\ call'[p] = "requested" <=> p \in ToSet(pendingTaskRequests)
    BY <1>1, <1>2 DEF CallsMatchTasks
  <2>7. QED
    BY <1>1, <1>2, <1>3, <2>1, <2>2, <2>3, <2>4, <2>5, <2>6, MatchedInv DEF BrokerTypes
<1>7. QED
  BY <1>5, <1>6

(* A request that was not met expires.                                     *)
LEMMA RequestTimeoutInv ==
    ASSUME BrokerInv, NEW q \in Requests, RequestTimeout(q) PROVE BrokerInv'
<1>1. /\ BrokerTypes /\ BrokerTypeOK /\ MessagesOK /\ OffersFresh /\ StatusTypes /\ CallsMatchTasks
      /\ AcceptsOpen /\ CallsKnown /\ OneRunPerCall /\ OneAttempt /\ TasksHaveRunners
  BY InvParts
<1>2. /\ q \in ToSet(pendingTaskRequests)
      /\ pendingTaskRequests' = Filter(pendingTaskRequests, Requests \ {q})
      /\ IF call[q] = "requested" THEN RequestExpired(q) ELSE UNCHANGED call
      /\ UNCHANGED <<knownRunners, pendingTaskOffers, acceptInProgress, runnerAcceptRejects, tasks,
                     isDraining, request, awaiting, settled, conn, toRunner, toBroker, runnerVars>>
  BY DEF RequestTimeout
<1>3. /\ pendingTaskRequests' \in Seq(Requests) /\ IsInjective(pendingTaskRequests')
      /\ ToSet(pendingTaskRequests') = ToSet(pendingTaskRequests) \ {q}
  <2>1. ToSet(pendingTaskRequests) \subseteq Requests
    BY <1>1 DEF BrokerTypes, ToSet
  <2>2. QED
    BY <1>1, <1>2, <2>1, FilterProperties DEF BrokerTypes
<1>4. /\ call[q] = "requested" /\ call' = [call EXCEPT ![q] = "expired"]
  BY <1>1, <1>2 DEF CallsMatchTasks, RequestExpired
<1>5. /\ \A p \in Requests \ {q} : call'[p] = call[p]
      /\ call'[q] = "expired"
      /\ call' \in [Requests -> {"new", "requested", "running", "done", "error",
                                 "expired", "cancelled"}]
  BY <1>1, <1>4 DEF BrokerTypes
<1>6. BrokerTypes'
  BY <1>1, <1>2, <1>3, <1>5 DEF BrokerTypes
<1>7. CallsKnown'
  <2>1. \A p \in Requests : call[p] # "new" => call'[p] # "new"
    BY <1>5
  <2>2. \A p \in Requests : call[p] \notin {"new", "requested"} => call'[p] \notin {"new", "requested"}
    BY <1>5
  <2>3. \A o \in settled : request[o] \in Requests
    BY <1>1 DEF AcceptsOpen, BrokerTypes
  <2>4. QED
    BY <1>1, <1>2, <2>1, <2>2, <2>3 DEF CallsKnown, BrokerTypes
<1>8. CallsMatchTasks'
  <2>1. \A p \in Requests : RunsOf(p)' = RunsOf(p)
    BY <1>2 DEF RunsOf
  <2>2. RunsOf(q) = {}
    BY <1>1, <1>4 DEF CallsMatchTasks
  <2>3. QED
    BY <1>1, <1>3, <1>4, <1>5, <2>1, <2>2 DEF CallsMatchTasks
<1>9. AcceptsOpen' /\ OneRunPerCall' /\ OneAttempt' /\ TasksHaveRunners'
  <2>1. \A p \in Requests : Attempts(p)' = Attempts(p)
    BY <1>2 DEF Attempts
  <2>2. OneAttempt'
    <3> SUFFICES ASSUME NEW p \in ToSet(pendingTaskRequests), p # q
                 PROVE  /\ p \in acceptInProgress' <=> Attempts(p)' # {}
                        /\ \A n, l \in Attempts(p)' : n = l
      BY <1>3 DEF OneAttempt
    <3>1. p \in Requests
      BY <1>1 DEF BrokerTypes, ToSet
    <3>2. QED
      BY <1>1, <1>2, <2>1, <3>1 DEF OneAttempt
  <2>3. QED
    BY <1>1, <1>2, <2>2 DEF AcceptsOpen, OneRunPerCall, TasksHaveRunners
<1>10. BrokerSide'
  BY <1>6, <1>7, <1>8, <1>9 DEF BrokerSide
<1>11. /\ StatusTypes' /\ OffersGoUp /\ Quiet /\ UNCHANGED <<openOffers, status>>
  BY <1>1, <1>2, SameGoesUp, SameQuiet DEF runnerVars, StatusTypes
<1>12. OffersFresh'
  BY <1>1, <1>2, <1>11, KeepOffersFresh DEF BrokerTypes
<1>13. QED
  BY <1>2, <1>10, <1>11, <1>12, BrokerSideInv

(* A task of which a call awaits the result ends, and the call with it.    *)
LEMMA EndTask ==
    ASSUME BrokerSide, NEW o \in tasks, NEW result \in {"done", "error", "cancelled"},
           tasks' = tasks \ {o}, Answers(o, result),
           UNCHANGED <<knownRunners, pendingTaskOffers, pendingTaskRequests, acceptInProgress,
                       runnerAcceptRejects, isDraining, request, awaiting, settled>>
    PROVE  BrokerSide'
<1>1. /\ BrokerTypes /\ AcceptsOpen /\ CallsKnown /\ CallsMatchTasks
      /\ OneRunPerCall /\ OneAttempt /\ TasksHaveRunners
  BY DEF BrokerSide
<1>0. o \in Offers /\ request[o] \in Requests
  BY <1>1 DEF AcceptsOpen, BrokerTypes
<1>2. PICK q \in Requests : q = request[o]
  BY <1>0
<1>3. call' = IF o \in settled THEN [call EXCEPT ![q] = result] ELSE call
  <2>1. o \in settled => call[q] = "running"
    <3>1. o \in settled => o \in RunsOf(q)
      BY <1>2, <1>0 DEF RunsOf
    <3>2. QED
      BY <1>1, <1>2, <3>1 DEF CallsMatchTasks
  <2>2. QED
    BY <1>2, <2>1 DEF Answers
<1>4. o \in settled => call[q] = "running"
  <2>1. o \in settled => o \in RunsOf(q)
    BY <1>2, <1>0 DEF RunsOf
  <2>2. QED
    BY <1>1, <1>2, <2>1 DEF CallsMatchTasks
<1>5. /\ \A p \in Requests : call'[p] = IF o \in settled /\ p = q THEN result ELSE call[p]
      /\ call' \in [Requests -> {"new", "requested", "running", "done", "error",
                                 "expired", "cancelled"}]
  BY <1>1, <1>3 DEF BrokerTypes
<1>6. BrokerTypes'
  BY <1>1, <1>5 DEF BrokerTypes
<1>7. CallsKnown'
  <2>1. \A p \in Requests : call[p] # "new" => call'[p] # "new"
    BY <1>5
  <2>2. \A p \in Requests : call[p] \notin {"new", "requested"} => call'[p] \notin {"new", "requested"}
    BY <1>5
  <2>3. \A p \in settled : request[p] \in Requests
    BY <1>1 DEF AcceptsOpen, BrokerTypes
  <2>4. QED
    BY <1>1, <2>1, <2>2, <2>3 DEF CallsKnown, BrokerTypes
<1>8. CallsMatchTasks'
  <2>1. \A p \in Requests : RunsOf(p)' = RunsOf(p) \ {o}
    BY DEF RunsOf
  <2>2. \A p \in Requests : p # q => RunsOf(p)' = RunsOf(p)
    BY <1>2, <1>0 DEF RunsOf
  <2>3. o \notin settled => \A p \in Requests : RunsOf(p)' = RunsOf(p)
    BY DEF RunsOf
  <2>4. o \in settled => RunsOf(q)' = {}
    BY <1>1, <1>2, <2>1 DEF OneRunPerCall, RunsOf
  <2>5. ASSUME NEW p \in Requests
        PROVE  /\ call'[p] = "requested" <=> p \in ToSet(pendingTaskRequests)
               /\ call'[p] = "running" <=> RunsOf(p)' # {}
    <3>1. CASE o \in settled /\ p = q
      <4>1. call[p] = "running" /\ call'[p] = result /\ RunsOf(p)' = {}
        BY <1>4, <1>5, <2>4, <3>1
      <4>2. p \notin ToSet(pendingTaskRequests)
        BY <1>1, <4>1 DEF CallsMatchTasks
      <4>3. QED
        BY <4>1, <4>2
    <3>2. CASE ~(o \in settled /\ p = q)
      <4>1. call'[p] = call[p] /\ RunsOf(p)' = RunsOf(p)
        BY <1>5, <2>2, <2>3, <3>2
      <4>2. QED
        BY <1>1, <4>1 DEF CallsMatchTasks
    <3>3. QED
      BY <3>1, <3>2
  <2>6. QED
    BY <2>5 DEF CallsMatchTasks
<1>9. AcceptsOpen' /\ OneRunPerCall' /\ OneAttempt' /\ TasksHaveRunners'
  BY <1>1 DEF AcceptsOpen, OneRunPerCall, OneAttempt, Attempts, TasksHaveRunners
<1>10. QED
  BY <1>6, <1>7, <1>8, <1>9 DEF BrokerSide

(* The task of a cancelled call is in tasks: it ends with the call.        *)
LEMMA CancelTaskInv ==
    ASSUME BrokerInv, NEW o \in Offers, CancelTask(o) PROVE BrokerInv'
<1>1. /\ BrokerTypes /\ BrokerTypeOK /\ MessagesOK /\ OffersFresh /\ StatusTypes /\ CallsMatchTasks
      /\ AcceptsOpen /\ OneRunPerCall
  BY InvParts
<1>2. /\ o \in settled /\ call[request[o]] = "running" /\ Answers(o, "cancelled") /\ DropTask(o)
      /\ UNCHANGED <<knownRunners, pendingTaskOffers, pendingTaskRequests, acceptInProgress,
                     runnerAcceptRejects, isDraining, request, awaiting, settled,
                     conn, toBroker, runnerVars>>
  BY DEF CancelTask
<1>3. o \in tasks
  <2>1. request[o] \in Requests
    BY <1>1, <1>2 DEF AcceptsOpen, BrokerTypes
  <2>2. PICK p \in RunsOf(request[o]) : TRUE
    BY <1>1, <1>2, <2>1 DEF CallsMatchTasks
  <2>3. p = o
    BY <1>1, <1>2, <2>2 DEF OneRunPerCall, RunsOf
  <2>4. QED
    BY <2>2, <2>3 DEF RunsOf
<1>4. BrokerSide'
  BY <1>2, <1>3, EndTask DEF BrokerInv, DropTask
<1>5. Quiet
  BY <1>1, <1>2, <1>3, MessageQuiet DEF DropTask, AboutTasks
<1>6. /\ StatusTypes' /\ OffersGoUp /\ UNCHANGED <<openOffers, status>>
  BY <1>1, <1>2, SameGoesUp DEF runnerVars, StatusTypes
<1>7. OffersFresh'
  BY <1>1, <1>2, <1>6, KeepOffersFresh DEF BrokerTypes
<1>8. QED
  BY <1>2, <1>4, <1>5, <1>6, <1>7, BrokerSideInv

(* A result, an error or the timeout ends a task, if it is still there.    *)
LEMMA TaskEndsSide ==
    ASSUME BrokerSide, NEW o, NEW result \in {"done", "error"}, TaskEnds(o, result),
           UNCHANGED <<knownRunners, pendingTaskOffers, pendingTaskRequests, acceptInProgress,
                       runnerAcceptRejects, isDraining, request, awaiting, settled>>
    PROVE  BrokerSide'
<1>1. CASE o \in tasks
  BY <1>1, EndTask DEF TaskEnds
<1>2. CASE o \notin tasks
  BY <1>2 DEF TaskEnds, BrokerSide, BrokerTypes, AcceptsOpen, CallsKnown, CallsMatchTasks, RunsOf,
              OneRunPerCall, OneAttempt, Attempts, TasksHaveRunners
<1>3. QED
  BY <1>1, <1>2

(* A runner reports the end of a task.                                     *)
LEMMA TaskResultInv ==
    ASSUME BrokerInv, NEW r \in Runners, TaskResult(r) PROVE BrokerInv'
<1>1. BrokerTypes /\ BrokerTypeOK /\ MessagesOK /\ OffersFresh /\ StatusTypes
  BY InvParts
<1>2. /\ FromRunner(r, {"taskdone", "taskerror"})
      /\ \/ \E result \in {"done", "error"} : TaskEnds(Head(toBroker[r]).id, result)
         \/ UNCHANGED <<tasks, call>>
      /\ UNCHANGED <<knownRunners, pendingTaskOffers, pendingTaskRequests, acceptInProgress,
                     runnerAcceptRejects, isDraining, request, awaiting, settled,
                     conn, toRunner, runnerVars, sent>>
  BY DEF TaskResult, runnerVars
<1>3. OffersGoUp
  BY <1>1, <1>2, FromRunnerGoesUp
<1>4. BrokerSide'
  <2>1. CASE UNCHANGED <<tasks, call>>
    BY <1>2, <2>1 DEF BrokerInv, BrokerSide, BrokerTypes, AcceptsOpen, CallsKnown, CallsMatchTasks,
                      RunsOf, OneRunPerCall, OneAttempt, Attempts, TasksHaveRunners
  <2>2. CASE \E result \in {"done", "error"} : TaskEnds(Head(toBroker[r]).id, result)
    BY <1>2, <2>2, TaskEndsSide DEF BrokerInv
  <2>3. QED
    BY <1>2, <2>1, <2>2
<1>5. /\ StatusTypes' /\ Quiet /\ UNCHANGED <<openOffers, status>>
  BY <1>1, <1>2, SameQuiet DEF runnerVars, StatusTypes
<1>6. OffersFresh'
  BY <1>1, <1>2, <1>3, KeepOffersFresh DEF BrokerTypes
<1>7. QED
  BY <1>2, <1>3, <1>4, <1>5, <1>6, BrokerSideInv

(* A task times out, and in internal mode the runners are restarted.       *)
LEMMA TaskTimeoutInv ==
    ASSUME BrokerInv, NEW o \in Offers, TaskTimeout(o) PROVE BrokerInv'
<1>1. BrokerTypes /\ BrokerTypeOK /\ MessagesOK /\ OffersFresh /\ StatusTypes
  BY InvParts
<1>2. /\ TaskEnds(o, "error")
      /\ \/ Ended({r \in Runners : conn[r] \in {"up", "closing"}})
         \/ MessageRunner(o, "taskcancel") /\ UNCHANGED <<conn, runnerVars>>
      /\ UNCHANGED <<knownRunners, pendingTaskOffers, pendingTaskRequests, acceptInProgress,
                     runnerAcceptRejects, isDraining, request, awaiting, settled, toBroker>>
  BY DEF TaskTimeout
<1>3. BrokerSide'
  BY <1>2, TaskEndsSide DEF BrokerInv
<1>4. /\ Quiet /\ StatusTypes' /\ openOffers' \subseteq openOffers /\ UNCHANGED sent
      /\ \A p \in Offers : status'[p] = status[p] \/ status'[p] = "none"
  <2>1. CASE Ended({r \in Runners : conn[r] \in {"up", "closing"}})
    BY <2>1, EndedQuiet DEF Ended
  <2>2. CASE MessageRunner(o, "taskcancel") /\ UNCHANGED <<conn, runnerVars>>
    <3>1. Quiet
      BY <1>1, <2>2, MessageQuiet DEF AboutTasks
    <3>2. QED
      BY <1>1, <2>2, <3>1 DEF runnerVars, StatusTypes
  <2>3. QED
    BY <1>2, <2>1, <2>2
<1>5. OffersGoUp
  BY <1>1, <1>2, <1>4, SameGoesUp
<1>6. OffersFresh'
  BY <1>1, <1>2, <1>5, KeepOffersFresh DEF BrokerTypes
<1>7. QED
  BY <1>2, <1>3, <1>4, <1>5, <1>6, BrokerSideInv


(* acceptOffer gives up: the flag of the request goes with the attempt.    *)
LEMMA GiveUpSide ==
    ASSUME BrokerSide, NEW o, GiveUp(o),
           \/ UNCHANGED runnerAcceptRejects
           \/ runnerAcceptRejects' = runnerAcceptRejects \ {o},
           UNCHANGED <<call, knownRunners, pendingTaskOffers, pendingTaskRequests, tasks,
                       isDraining, request, settled>>
    PROVE  BrokerSide'
<1>1. /\ BrokerTypes /\ AcceptsOpen /\ CallsKnown /\ CallsMatchTasks
      /\ OneRunPerCall /\ OneAttempt /\ TasksHaveRunners
  BY DEF BrokerSide
<1>2. /\ awaiting' = awaiting \ {o}
      /\ acceptInProgress' = IF o \in awaiting THEN acceptInProgress \ {request[o]}
                                               ELSE acceptInProgress
      /\ runnerAcceptRejects' \subseteq runnerAcceptRejects
      /\ awaiting' \subseteq runnerAcceptRejects'
  BY <1>1 DEF GiveUp, BrokerTypes
<1>3. BrokerTypes'
  BY <1>1, <1>2 DEF BrokerTypes
<1>4. AcceptsOpen' /\ CallsKnown'
  BY <1>1, <1>2 DEF AcceptsOpen, CallsKnown
<1>5. CallsMatchTasks' /\ OneRunPerCall' /\ TasksHaveRunners'
  BY <1>1 DEF CallsMatchTasks, RunsOf, OneRunPerCall, TasksHaveRunners
<1>6. OneAttempt'
  <2> SUFFICES ASSUME NEW q \in ToSet(pendingTaskRequests)
               PROVE  /\ q \in acceptInProgress' <=> Attempts(q)' # {}
                      /\ \A n, p \in Attempts(q)' : n = p
    BY DEF OneAttempt
  <2>1. /\ q \in acceptInProgress <=> Attempts(q) # {}
        /\ \A n, p \in Attempts(q) : n = p
    BY <1>1 DEF OneAttempt
  <2>2. Attempts(q)' = Attempts(q) \ {o}
    BY <1>2 DEF Attempts
  <2>3. CASE o \in Attempts(q)
    <3>1. Attempts(q)' = {}
      BY <2>1, <2>2, <2>3
    <3>2. q \notin acceptInProgress'
      BY <1>2, <2>3 DEF Attempts
    <3>3. QED
      BY <3>1, <3>2
  <2>4. CASE o \notin Attempts(q)
    <3>1. Attempts(q)' = Attempts(q)
      BY <2>2, <2>4
    <3>2. q \in acceptInProgress' <=> q \in acceptInProgress
      BY <1>2, <2>4 DEF Attempts
    <3>3. QED
      BY <2>1, <3>1, <3>2
  <2>5. QED
    BY <2>3, <2>4
<1>7. QED
  BY <1>3, <1>4, <1>5, <1>6 DEF BrokerSide

(* A runner rejects or defers, in time or after the accept timeout.        *)
LEMMA HandleRunnerRejectInv ==
    ASSUME BrokerInv, NEW r \in Runners, HandleRunnerReject(r) PROVE BrokerInv'
<1>1. BrokerTypes /\ BrokerTypeOK /\ MessagesOK /\ OffersFresh /\ StatusTypes
  BY InvParts
<1>2. /\ FromRunner(r, {"taskrejected", "taskdeferred"})
      /\ \/ /\ runnerAcceptRejects' = runnerAcceptRejects \ {Head(toBroker[r]).id}
            /\ GiveUp(Head(toBroker[r]).id)
         \/ UNCHANGED <<runnerAcceptRejects, awaiting, acceptInProgress>>
      /\ UNCHANGED <<call, knownRunners, pendingTaskOffers, pendingTaskRequests, tasks, isDraining,
                     request, settled, conn, toRunner, runnerVars, sent>>
  BY DEF HandleRunnerReject, runnerVars
<1>3. OffersGoUp
  BY <1>1, <1>2, FromRunnerGoesUp
<1>4. BrokerSide'
  <2>1. CASE UNCHANGED <<runnerAcceptRejects, awaiting, acceptInProgress>>
    BY <1>2, <2>1 DEF BrokerInv, BrokerSide, BrokerTypes, AcceptsOpen, CallsKnown, CallsMatchTasks,
                      RunsOf, OneRunPerCall, OneAttempt, Attempts, TasksHaveRunners
  <2>2. CASE /\ runnerAcceptRejects' = runnerAcceptRejects \ {Head(toBroker[r]).id}
             /\ GiveUp(Head(toBroker[r]).id)
    BY <1>2, <2>2, GiveUpSide DEF BrokerInv
  <2>3. QED
    BY <1>2, <2>1, <2>2
<1>5. /\ StatusTypes' /\ Quiet /\ UNCHANGED <<openOffers, status>>
  BY <1>1, <1>2, SameQuiet DEF runnerVars, StatusTypes
<1>6. OffersFresh'
  BY <1>1, <1>2, <1>3, KeepOffersFresh DEF BrokerTypes
<1>7. QED
  BY <1>2, <1>3, <1>4, <1>5, <1>6, BrokerSideInv

(* A runner does not answer.                                               *)
LEMMA AcceptTimeoutInv ==
    ASSUME BrokerInv, NEW o \in Offers, AcceptTimeout(o) PROVE BrokerInv'
<1>1. BrokerTypes /\ BrokerTypeOK /\ MessagesOK /\ OffersFresh /\ StatusTypes
  BY InvParts
<1>2. /\ GiveUp(o)
      /\ UNCHANGED <<call, knownRunners, pendingTaskOffers, pendingTaskRequests, runnerAcceptRejects,
                     tasks, isDraining, request, settled, conn, toRunner, toBroker, runnerVars>>
  BY DEF AcceptTimeout
<1>3. BrokerSide'
  BY <1>2, GiveUpSide DEF BrokerInv
<1>4. /\ StatusTypes' /\ Quiet /\ OffersGoUp /\ UNCHANGED <<openOffers, status>>
  BY <1>1, <1>2, SameQuiet, SameGoesUp DEF runnerVars, StatusTypes
<1>5. OffersFresh'
  BY <1>1, <1>2, <1>4, KeepOffersFresh DEF BrokerTypes
<1>6. QED
  BY <1>2, <1>3, <1>4, <1>5, BrokerSideInv

(* The settings of a task are sent when it becomes settled.                *)
LEMMA SettingsSent ==
    ASSUME BrokerInv, NEW o \in Offers, o \notin settled, SendTaskSettings(o), UNCHANGED status
    PROVE  /\ toRunner' \in [Runners -> Seq(ToMessages)]
           /\ \A r \in Runners : \A m \in ToSet(toRunner'[r]) : m.type \in AboutTasks => m.id[1] = r
           /\ SettingsOnce'
<1>1. MessagesOK /\ SettingsOnce /\ BrokerTypeOK
  BY InvParts
<1> DEFINE m == Message("tasksettings", o)
           r == o[1]
<1>2. /\ m \in ToMessages /\ m.type = "tasksettings" /\ m.id = o
      /\ r \in Runners
  BY OffersInOrder DEF Message, ToMessages, AboutTasks
<1>3. /\ settled' = settled \cup {o}
      /\ toRunner' = [toRunner EXCEPT ![r] = IF Reachable(r) THEN toRunner[r] \o <<m>>
                                                             ELSE toRunner[r]]
      /\ status' = status
  BY DEF SendTaskSettings, MessageRunner, Sending
<1> HIDE DEF m, r
<1>4. /\ toRunner \in [Runners -> Seq(ToMessages)] /\ toRunner[r] \in Seq(ToMessages)
      /\ Once(toRunner[r], "tasksettings")
      /\ \A n \in ToSet(toRunner[r]) : n.type = "tasksettings" => n.id # o
  BY <1>1, <1>2 DEF MessagesOK, SettingsOnce
<1>5. /\ toRunner[r] \o <<m>> \in Seq(ToMessages)
      /\ ToSet(toRunner[r] \o <<m>>) = ToSet(toRunner[r]) \cup {m}
      /\ Once(toRunner[r] \o <<m>>, "tasksettings")
  <2> DEFINE e == <<m>>
  <2>1. e \in Seq(ToMessages) /\ ToSet(e) = {m} /\ Once(e, "tasksettings")
    BY <1>2, OneMessage
  <2> HIDE DEF e
  <2>2. \A n \in ToSet(toRunner[r]), k \in ToSet(e) :
           n.type = "tasksettings" /\ k.type = "tasksettings" => n.id # k.id
    BY <1>2, <1>4, <2>1
  <2>3. /\ toRunner[r] \o e \in Seq(ToMessages)
        /\ ToSet(toRunner[r] \o e) = ToSet(toRunner[r]) \cup ToSet(e)
        /\ Once(toRunner[r] \o e, "tasksettings")
    BY <1>4, <2>1, <2>2, ConcatMessages
  <2>4. QED
    BY <2>1, <2>3 DEF e
<1>6. \A x \in Runners :
         \/ toRunner'[x] = toRunner[x]
         \/ x = r /\ toRunner'[x] = toRunner[r] \o <<m>>
  BY <1>3, <1>4
<1>7. toRunner' \in [Runners -> Seq(ToMessages)]
  BY <1>2, <1>3, <1>4, <1>5
<1>8. ASSUME NEW x \in Runners, NEW n \in ToSet(toRunner'[x])
      PROVE  n \in ToSet(toRunner[x]) \/ (x = r /\ n = m)
  <2>1. CASE toRunner'[x] = toRunner[x]
    BY <1>8, <2>1
  <2>2. CASE x = r /\ toRunner'[x] = toRunner[r] \o <<m>>
    <3>1. n \in ToSet(toRunner[r]) \cup {m}
      BY <1>5, <1>8, <2>2
    <3>2. QED
      BY <2>2, <3>1
  <2>3. QED
    BY <1>6, <2>1, <2>2
<1>9. \A x \in Runners : \A n \in ToSet(toRunner'[x]) : n.type \in AboutTasks => n.id[1] = x
  BY <1>1, <1>2, <1>8 DEF MessagesOK, r
<1>10. SettingsOnce'
  <2>1. status[o] \in {"waitingForSettings", "none"}
    BY <1>1 DEF SettingsOnce
  <2>2. ASSUME NEW x \in Runners, NEW n \in ToSet(toRunner'[x]), n.type = "tasksettings"
        PROVE  n.id \in settled' /\ status'[n.id] \in {"waitingForSettings", "none"}
    BY <1>1, <1>2, <1>3, <1>8, <2>1, <2>2 DEF SettingsOnce
  <2>3. \A x \in Runners : Once(toRunner'[x], "tasksettings")
    BY <1>1, <1>5, <1>6 DEF SettingsOnce
  <2>4. \A p \in Offers : p \in settled' \/ status'[p] \in {"waitingForSettings", "none"}
    BY <1>1, <1>3 DEF SettingsOnce
  <2>5. QED
    BY <2>2, <2>3, <2>4 DEF SettingsOnce
<1>11. QED
  BY <1>7, <1>9, <1>10

(* The request of an accepted offer leaves the queue.                      *)
LEMMA RequestTaken ==
    ASSUME BrokerTypes, NEW q \in Requests,
           pendingTaskRequests' = Filter(pendingTaskRequests, Requests \ {q})
    PROVE  /\ pendingTaskRequests' \in Seq(Requests) /\ IsInjective(pendingTaskRequests')
           /\ ToSet(pendingTaskRequests') = ToSet(pendingTaskRequests) \ {q}
           /\ ToSet(pendingTaskRequests') \subseteq Requests
<1>1. ToSet(pendingTaskRequests) \subseteq Requests
  BY DEF BrokerTypes, ToSet
<1>2. QED
  BY <1>1, FilterProperties DEF BrokerTypes

(* The runner accepted, and acceptOffer makes the task.                    *)
LEMMA AcceptedSide ==
    ASSUME BrokerSide, NEW o \in awaiting, o[1] \in knownRunners, Accepted(o),
           runnerAcceptRejects' = runnerAcceptRejects \ {o}, awaiting' = awaiting \ {o},
           UNCHANGED <<knownRunners, pendingTaskOffers, isDraining, request>>
    PROVE  /\ BrokerSide'
           /\ \/ settled' = settled /\ toRunner' = toRunner
              \/ o \notin settled /\ SendTaskSettings(o)
<1>1. /\ BrokerTypes /\ AcceptsOpen /\ CallsKnown /\ CallsMatchTasks
      /\ OneRunPerCall /\ OneAttempt /\ TasksHaveRunners
  BY DEF BrokerSide
<1> DEFINE q == request[o]
<1>2. /\ o \in Offers /\ q \in Requests /\ q # None /\ o \notin settled
  BY <1>1 DEF AcceptsOpen, BrokerTypes
<1>3. /\ pendingTaskRequests' = Filter(pendingTaskRequests, Requests \ {q})
      /\ IF q \in ToSet(pendingTaskRequests)
         THEN TaskReady(o)
         ELSE tasks' = tasks \cup {o} /\ UNCHANGED <<settled, call, toRunner>>
      /\ UNCHANGED acceptInProgress
  BY DEF Accepted
<1>4. /\ pendingTaskRequests' \in Seq(Requests) /\ IsInjective(pendingTaskRequests')
      /\ ToSet(pendingTaskRequests') = ToSet(pendingTaskRequests) \ {q}
      /\ ToSet(pendingTaskRequests') \subseteq Requests
  <2> HIDE DEF q
  <2>1. QED
    BY <1>1, <1>2, <1>3, RequestTaken
<1>5. OneAttempt'
  <2> SUFFICES ASSUME NEW p \in ToSet(pendingTaskRequests), p # q
               PROVE  /\ p \in acceptInProgress' <=> Attempts(p)' # {}
                      /\ \A n, l \in Attempts(p)' : n = l
    BY <1>4 DEF OneAttempt
  <2>1. Attempts(p)' = Attempts(p)
    BY DEF Attempts, q
  <2>2. QED
    BY <1>1, <1>3, <2>1 DEF OneAttempt
<1>6. awaiting' \subseteq runnerAcceptRejects' /\ runnerAcceptRejects' \subseteq runnerAcceptRejects
  BY <1>1 DEF BrokerTypes
<1>7. tasks' = tasks \cup {o} => TasksHaveRunners'
  BY <1>1 DEF TasksHaveRunners
<1>8. CASE q \notin ToSet(pendingTaskRequests)
  <2>1. tasks' = tasks \cup {o} /\ UNCHANGED <<settled, call, toRunner>>
    BY <1>3, <1>8
  <2>2. BrokerTypes'
    BY <1>1, <1>2, <1>3, <1>4, <1>6, <2>1 DEF BrokerTypes
  <2>3. AcceptsOpen'
    BY <1>1, <1>2, <1>6, <2>1 DEF AcceptsOpen
  <2>4. CallsKnown'
    BY <1>1, <1>3, <2>1 DEF CallsKnown
  <2>5. CallsMatchTasks'
    <3>1. \A p \in Requests : RunsOf(p)' = RunsOf(p)
      BY <1>2, <2>1 DEF RunsOf
    <3>2. ToSet(pendingTaskRequests') = ToSet(pendingTaskRequests)
      BY <1>4, <1>8
    <3>3. QED
      BY <1>1, <2>1, <3>1, <3>2 DEF CallsMatchTasks
  <2>6. OneRunPerCall'
    BY <1>1, <2>1 DEF OneRunPerCall
  <2>7. QED
    BY <1>5, <1>7, <2>1, <2>2, <2>3, <2>4, <2>5, <2>6 DEF BrokerSide
<1>9. CASE q \in ToSet(pendingTaskRequests)
  <2>1. call[q] = "requested"
    BY <1>1, <1>2, <1>9 DEF CallsMatchTasks
  <2>2. /\ call' = [call EXCEPT ![q] = "running"]
        /\ tasks' = tasks \cup {o} /\ settled' = settled \cup {o}
        /\ SendTaskSettings(o)
    BY <1>3, <1>9, <2>1 DEF TaskReady, SendTaskSettings
  <2>3. \A p \in settled : request[p] # q
    BY <1>1, <2>1 DEF CallsKnown
  <2>4. /\ \A p \in Requests : call'[p] = IF p = q THEN "running" ELSE call[p]
        /\ call' \in [Requests -> {"new", "requested", "running", "done", "error",
                                   "expired", "cancelled"}]
    BY <1>1, <2>2 DEF BrokerTypes
  <2>5. BrokerTypes'
    BY <1>1, <1>2, <1>3, <1>4, <1>6, <2>2, <2>4 DEF BrokerTypes
  <2>6. AcceptsOpen'
    BY <1>1, <1>2, <1>6, <2>2 DEF AcceptsOpen
  <2>7. CallsKnown'
    <3>1. \A p \in Requests : call[p] # "new" => call'[p] # "new"
      BY <2>4
    <3>2. \A p \in Offers : request[p] # None => request[p] \in Requests
      BY <1>1 DEF BrokerTypes
    <3>3. \A p \in acceptInProgress : p \in Requests
      BY <1>1 DEF BrokerTypes
    <3>4. ASSUME NEW p \in settled' PROVE call'[request[p]] \notin {"new", "requested"}
      <4>1. CASE p = o
        BY <1>2, <2>4, <4>1
      <4>2. CASE p # o
        <5>1. p \in settled /\ request[p] \in Requests
          BY <1>1, <2>2, <4>2 DEF AcceptsOpen, BrokerTypes
        <5>2. QED
          BY <1>1, <2>4, <5>1 DEF CallsKnown
      <4>3. QED
        BY <4>1, <4>2
    <3>5. QED
      BY <1>1, <1>3, <3>1, <3>2, <3>3, <3>4 DEF CallsKnown
  <2>8. CallsMatchTasks'
    <3>1. \A p \in Requests : RunsOf(p)' = IF p = q THEN RunsOf(p) \cup {o} ELSE RunsOf(p)
      <4>1. tasks' \cap settled' = (tasks \cap settled) \cup {o}
        BY <1>1, <1>2, <2>2, <2>3 DEF AcceptsOpen
      <4>2. QED
        BY <4>1 DEF RunsOf, q
    <3>2. ASSUME NEW p \in Requests
          PROVE  /\ call'[p] = "requested" <=> p \in ToSet(pendingTaskRequests')
                 /\ call'[p] = "running" <=> RunsOf(p)' # {}
      <4>1. CASE p = q
        BY <1>4, <2>4, <3>1, <4>1
      <4>2. CASE p # q
        BY <1>1, <1>4, <2>4, <3>1, <4>2 DEF CallsMatchTasks
      <4>3. QED
        BY <4>1, <4>2
    <3>3. QED
      BY <3>2 DEF CallsMatchTasks
  <2>9. OneRunPerCall'
    BY <1>1, <2>2, <2>3 DEF OneRunPerCall
  <2>10. QED
    BY <1>2, <1>5, <1>7, <2>2, <2>5, <2>6, <2>7, <2>8, <2>9 DEF BrokerSide
<1>10. QED
  BY <1>8, <1>9

(* A runner accepts, in time or after the accept timeout.                  *)
LEMMA HandleRunnerAcceptInv ==
    ASSUME BrokerInv, NEW r \in Runners, HandleRunnerAccept(r) PROVE BrokerInv'
<1>1. BrokerTypes /\ BrokerTypeOK /\ MessagesOK /\ OffersFresh /\ StatusTypes /\ SettingsOnce
      /\ SlotsRespected
  BY InvParts
<1> DEFINE o == Head(toBroker[r]).id
<1>2. /\ FromRunner(r, {"taskaccepted"})
      /\ UNCHANGED <<conn, runnerVars, sent, openOffers, status, request, pendingTaskOffers>>
  BY DEF HandleRunnerAccept, runnerVars, brokerVars
<1>3. OffersGoUp /\ o \in Offers /\ o[1] = r
  BY <1>1, <1>2, FromRunnerGoesUp DEF OffersOf
<1>4. OffersFresh' /\ StatusTypes'
  BY <1>1, <1>2, <1>3, KeepOffersFresh DEF BrokerTypes, StatusTypes, runnerVars
<1> HIDE DEF o
<1>5. ASSUME BrokerSide', settled' = settled, toRunner' = toRunner PROVE BrokerInv'
  <2>1. Quiet
    BY <1>1, <1>5, SameQuiet
  <2>2. QED
    BY <1>2, <1>3, <1>4, <1>5, <2>1, BrokerSideInv
<1>6. CASE ~(r \in knownRunners /\ o \in runnerAcceptRejects)
  <2>1. UNCHANGED <<call, brokerVars, toRunner>>
    BY <1>6 DEF HandleRunnerAccept, o
  <2>2. BrokerSide'
    BY <2>1 DEF BrokerInv, BrokerSide, brokerVars, BrokerTypes, AcceptsOpen, CallsKnown,
                CallsMatchTasks, RunsOf, OneRunPerCall, OneAttempt, Attempts, TasksHaveRunners
  <2>3. QED
    BY <1>5, <2>1, <2>2 DEF brokerVars
<1>7. CASE r \in knownRunners /\ o \in runnerAcceptRejects
  <2>1. /\ runnerAcceptRejects' = runnerAcceptRejects \ {o}
        /\ awaiting' = awaiting \ {o}
        /\ IF o \in awaiting
           THEN Accepted(o)
           ELSE UNCHANGED <<tasks, settled, call, toRunner, pendingTaskRequests, acceptInProgress>>
        /\ UNCHANGED <<knownRunners, pendingTaskOffers, isDraining, request>>
    BY <1>7 DEF HandleRunnerAccept, o
  <2>2. CASE o \notin awaiting
    <3>1. GiveUp(o)
      BY <2>1, <2>2 DEF GiveUp
    <3>2. BrokerSide'
      BY <2>1, <2>2, <3>1, GiveUpSide DEF BrokerInv
    <3>3. QED
      BY <1>5, <2>1, <2>2, <3>2
  <2>3. CASE o \in awaiting
    <3>1. /\ BrokerSide'
          /\ \/ settled' = settled /\ toRunner' = toRunner
             \/ o \notin settled /\ SendTaskSettings(o)
      BY <1>3, <1>7, <2>1, <2>3, AcceptedSide DEF BrokerInv
    <3>2. CASE o \notin settled /\ SendTaskSettings(o)
      <4>1. /\ toRunner' \in [Runners -> Seq(ToMessages)]
            /\ \A x \in Runners : \A m \in ToSet(toRunner'[x]) : m.type \in AboutTasks => m.id[1] = x
            /\ SettingsOnce'
        BY <1>2, <1>3, <3>2, SettingsSent
      <4>2. MessagesOK'
        BY <1>1, <1>3, <4>1 DEF MessagesOK, OffersGoUp
      <4>3. SlotsRespected'
        BY <1>1, <1>2, KeepSlots
      <4>4. QED
        BY <1>3, <1>4, <3>1, <4>1, <4>2, <4>3 DEF BrokerInv, OffersGoUp
    <3>3. QED
      BY <1>5, <3>1, <3>2
  <2>4. QED
    BY <2>2, <2>3
<1>8. QED
  BY <1>6, <1>7

(* A runner has told who it is.                                            *)
LEMMA RegisterRunnerInv ==
    ASSUME BrokerInv, NEW r \in Runners, RegisterRunner(r) PROVE BrokerInv'
<1>1. BrokerTypes /\ BrokerTypeOK /\ MessagesOK /\ OffersFresh /\ StatusTypes /\ TasksHaveRunners
  BY InvParts
<1> DEFINE m == [type |-> "runnerregistered"]
<1>2. /\ knownRunners' = knownRunners \cup {r}
      /\ toRunner' = [toRunner EXCEPT ![r] = Append(toRunner[r], m)]
      /\ UNCHANGED <<call, pendingTaskOffers, pendingTaskRequests, acceptInProgress,
                     runnerAcceptRejects, tasks, isDraining, request, awaiting, settled,
                     conn, toBroker, runnerVars>>
  BY DEF RegisterRunner
<1>3. m \in ToMessages /\ m.type \notin AboutTasks /\ m.type # "tasksettings"
  BY DEF ToMessages, AboutTasks
<1> HIDE DEF m
<1>4. Quiet
  <2>1. /\ toRunner \in [Runners -> Seq(ToMessages)] /\ toRunner[r] \in Seq(ToMessages)
        /\ <<m>> \in Seq(ToMessages) /\ ToSet(<<m>>) = {m} /\ Once(<<m>>, "tasksettings")
    BY <1>1, <1>3, OneMessage DEF MessagesOK
  <2>2. Append(toRunner[r], m) = toRunner[r] \o <<m>>
    BY <1>3, <2>1
  <2>3. /\ toRunner[r] \o <<m>> \in Seq(ToMessages)
        /\ ToSet(toRunner[r] \o <<m>>) = ToSet(toRunner[r]) \cup {m}
        /\ Once(toRunner[r], "tasksettings") => Once(toRunner[r] \o <<m>>, "tasksettings")
    <3> DEFINE e == <<m>>
    <3>1. e \in Seq(ToMessages) /\ ToSet(e) = {m} /\ Once(e, "tasksettings")
      BY <2>1
    <3> HIDE DEF e
    <3>2. /\ toRunner[r] \o e \in Seq(ToMessages)
          /\ ToSet(toRunner[r] \o e) = ToSet(toRunner[r]) \cup ToSet(e)
          /\ Once(toRunner[r], "tasksettings") => Once(toRunner[r] \o e, "tasksettings")
      BY <1>3, <2>1, <3>1, ConcatMessages
    <3>3. QED
      BY <3>1, <3>2 DEF e
  <2>4. QuietQueue(r, toRunner[r], toRunner[r] \o <<m>>)
    BY <1>3, <2>3 DEF QuietQueue
  <2>5. \A x \in Runners : QuietQueue(x, toRunner[x], toRunner[x])
    BY <1>1 DEF MessagesOK, QuietQueue
  <2>6. \A x \in Runners : toRunner'[x] = IF x = r THEN toRunner[r] \o <<m>> ELSE toRunner[x]
    BY <1>2, <2>1, <2>2
  <2>7. toRunner' \in [Runners -> Seq(ToMessages)]
    BY <1>2, <2>1, <2>2, <2>3
  <2>8. QED
    BY <2>4, <2>5, <2>6, <2>7 DEF Quiet
<1>5. BrokerSide'
  BY <1>2 DEF BrokerInv, BrokerSide, BrokerTypes, AcceptsOpen, CallsKnown, CallsMatchTasks,
              RunsOf, OneRunPerCall, OneAttempt, Attempts, TasksHaveRunners
<1>6. /\ StatusTypes' /\ OffersGoUp /\ UNCHANGED <<openOffers, status>>
  BY <1>1, <1>2, SameGoesUp DEF runnerVars, StatusTypes
<1>7. OffersFresh'
  BY <1>1, <1>2, <1>6, KeepOffersFresh DEF BrokerTypes
<1>8. QED
  BY <1>2, <1>4, <1>5, <1>6, <1>7, BrokerSideInv

(* The offers of a runner that is removed go, and its tasks with their     *)
(* calls.                                                                  *)
LEMMA RemoveConnectionInv ==
    ASSUME BrokerInv, NEW r \in Runners, RemoveConnection(r) PROVE BrokerInv'
<1>1. /\ BrokerTypes /\ BrokerTypeOK /\ MessagesOK /\ OffersFresh /\ StatusTypes /\ CallsMatchTasks
      /\ AcceptsOpen /\ CallsKnown /\ OneRunPerCall /\ OneAttempt /\ TasksHaveRunners
  BY InvParts
<1> DEFINE failed == {q \in Requests : call[q] = "running"
                         /\ \E o \in tasks \cap settled \cap OffersOf(r) : request[o] = q}
<1>2. /\ knownRunners' = knownRunners \ {r}
      /\ pendingTaskOffers' = Filter(pendingTaskOffers, Offers \ OffersOf(r))
      /\ tasks' = tasks \ OffersOf(r)
      /\ call' = [q \in Requests |-> IF q \in failed THEN "error" ELSE call[q]]
      /\ conn' = [conn EXCEPT ![r] = IF @ = "up" THEN "closing" ELSE @]
      /\ UNCHANGED <<pendingTaskRequests, acceptInProgress, runnerAcceptRejects, isDraining,
                     request, awaiting, settled, toRunner, toBroker, runnerVars>>
  BY DEF RemoveConnection, DeregisterRunner
<1>3. /\ pendingTaskOffers' \in Seq(Offers) /\ IsInjective(pendingTaskOffers')
      /\ ToSet(pendingTaskOffers') = ToSet(pendingTaskOffers) \cap (Offers \ OffersOf(r))
  BY <1>1, <1>2, FilterProperties DEF BrokerTypes
<1>4. \A q \in Requests : q \in failed <=> \E o \in RunsOf(q) : o \in OffersOf(r)
  BY <1>1 DEF RunsOf, CallsMatchTasks
<1>5. failed \subseteq Requests /\ \A q \in failed : call[q] = "running"
  OBVIOUS
<1> HIDE DEF failed
<1>6. /\ \A q \in Requests : call'[q] = IF q \in failed THEN "error" ELSE call[q]
      /\ call' \in [Requests -> {"new", "requested", "running", "done", "error",
                                 "expired", "cancelled"}]
  BY <1>1, <1>2 DEF BrokerTypes
<1>7. BrokerTypes'
  BY <1>1, <1>2, <1>3, <1>6 DEF BrokerTypes
<1>8. AcceptsOpen' /\ OneRunPerCall'
  BY <1>1, <1>2 DEF AcceptsOpen, OneRunPerCall
<1>9. CallsKnown'
  <2>1. \A q \in Requests : call[q] # "new" => call'[q] # "new"
    BY <1>6
  <2>2. \A q \in Requests : call[q] \notin {"new", "requested"} => call'[q] \notin {"new", "requested"}
    BY <1>6
  <2>3. \A o \in settled : request[o] \in Requests
    BY <1>1 DEF AcceptsOpen, BrokerTypes
  <2>4. QED
    BY <1>1, <1>2, <2>1, <2>2, <2>3 DEF CallsKnown, BrokerTypes
<1>10. CallsMatchTasks'
  <2> SUFFICES ASSUME NEW q \in Requests
               PROVE  /\ call'[q] = "requested" <=> q \in ToSet(pendingTaskRequests)
                      /\ call'[q] = "running" <=> RunsOf(q)' # {}
    BY <1>2 DEF CallsMatchTasks
  <2>1. RunsOf(q)' = RunsOf(q) \ OffersOf(r)
    BY <1>2 DEF RunsOf
  <2>2. CASE q \in failed
    <3>1. \A o, p \in RunsOf(q) : o = p
      BY <1>1 DEF OneRunPerCall, RunsOf
    <3>2. RunsOf(q)' = {}
      BY <1>4, <2>1, <2>2, <3>1
    <3>3. q \notin ToSet(pendingTaskRequests)
      BY <1>1, <1>5, <2>2 DEF CallsMatchTasks
    <3>4. QED
      BY <1>6, <2>2, <3>2, <3>3
  <2>3. CASE q \notin failed
    <3>1. RunsOf(q)' = RunsOf(q)
      BY <1>4, <2>1, <2>3
    <3>2. QED
      BY <1>1, <1>6, <2>3, <3>1 DEF CallsMatchTasks
  <2>4. QED
    BY <2>2, <2>3
<1>11. OneAttempt'
  <2>1. \A q : Attempts(q)' = Attempts(q)
    BY <1>2 DEF Attempts
  <2>2. QED
    BY <1>1, <1>2, <2>1 DEF OneAttempt
<1>12. TasksHaveRunners'
  <2>1. \A o \in tasks' \cup ToSet(pendingTaskOffers') :
           o \in tasks \cup ToSet(pendingTaskOffers) /\ o \in Offers \ OffersOf(r)
    BY <1>1, <1>2, <1>3 DEF BrokerTypes
  <2>2. \A o \in Offers \ OffersOf(r) : o[1] # r
    BY DEF OffersOf
  <2>3. QED
    BY <1>1, <1>2, <2>1, <2>2 DEF TasksHaveRunners
<1>13. BrokerSide'
  BY <1>7, <1>8, <1>9, <1>10, <1>11, <1>12 DEF BrokerSide
<1>14. /\ StatusTypes' /\ Quiet /\ OffersGoUp /\ UNCHANGED <<openOffers, status>>
  BY <1>1, <1>2, SameQuiet, SameGoesUp DEF runnerVars, StatusTypes
<1>15. OffersFresh'
  BY <1>1, <1>2, <1>3, <1>14, KeepOffersFresh DEF BrokerTypes
<1>16. QED
  BY <1>2, <1>13, <1>14, <1>15, BrokerSideInv

(* The broker tells the runners that it drains.                            *)
LEMMA StartDrainingInv ==
    ASSUME BrokerInv, StartDraining PROVE BrokerInv'
<1>1. BrokerTypes /\ BrokerTypeOK /\ MessagesOK /\ OffersFresh /\ StatusTypes
  BY InvParts
<1> DEFINE m == [type |-> "drain"]
<1>2. /\ isDraining' = TRUE
      /\ toRunner' = [r \in Runners |-> Sending(r, <<m>>)[r]]
      /\ UNCHANGED <<call, knownRunners, pendingTaskOffers, pendingTaskRequests, acceptInProgress,
                     runnerAcceptRejects, tasks, request, awaiting, settled,
                     conn, toBroker, runnerVars>>
  BY DEF StartDraining
<1>3. m \in ToMessages /\ m.type \notin AboutTasks /\ m.type # "tasksettings"
  BY DEF ToMessages, AboutTasks
<1> HIDE DEF m
<1>4. Quiet
  <2>1. <<m>> \in Seq(ToMessages) /\ ToSet(<<m>>) = {m}
    BY <1>3, OneMessage
  <2>2. \A r \in Runners : QuietQueue(r, toRunner[r], Sending(r, <<m>>)[r])
    BY <1>1, <1>3, <2>1, SendingQuiet
  <2>3. QED
    BY <1>2, <2>2 DEF Quiet, QuietQueue
<1>5. BrokerSide'
  BY <1>2 DEF BrokerInv, BrokerSide, BrokerTypes, AcceptsOpen, CallsKnown, CallsMatchTasks,
              RunsOf, OneRunPerCall, OneAttempt, Attempts, TasksHaveRunners
<1>6. /\ StatusTypes' /\ OffersGoUp /\ UNCHANGED <<openOffers, status>>
  BY <1>1, <1>2, SameGoesUp DEF runnerVars, StatusTypes
<1>7. OffersFresh'
  BY <1>1, <1>2, <1>6, KeepOffersFresh DEF BrokerTypes
<1>8. QED
  BY <1>2, <1>4, <1>5, <1>6, <1>7, BrokerSideInv

-----------------------------------------------------------------------------
(* The theorems.                                                           *)

(* At the start of the process nothing is kept.                            *)
LEMMA InitInv == Init => BrokerInv
<1> SUFFICES ASSUME Init PROVE BrokerInv
  OBVIOUS
<1>1. ToSet(<<>>) = {} /\ IsInjective(<<>>) /\ \A type : Once(<<>>, type)
  BY DEF ToSet, IsInjective, Once
<1>2. BrokerTypes
  <2>1. /\ pendingTaskOffers \in Seq(Offers) /\ IsInjective(pendingTaskOffers)
        /\ pendingTaskRequests \in Seq(Requests) /\ IsInjective(pendingTaskRequests)
    BY <1>1 DEF Init
  <2>2. /\ call \in [Requests -> {"new", "requested", "running", "done", "error",
                                  "expired", "cancelled"}]
        /\ request \in [Offers -> Requests \cup {None}]
    BY DEF Init
  <2>3. QED
    BY <2>1, <2>2 DEF Init, BrokerTypes
<1>3. StatusTypes /\ sent \in [Runners -> 0 .. MaxOffers]
  BY BrokerAssumption DEF Init, StatusTypes
<1>4. AcceptsOpen /\ CallsKnown /\ OneRunPerCall /\ OneAttempt /\ TasksHaveRunners
  BY <1>1 DEF Init, AcceptsOpen, CallsKnown, OneRunPerCall, OneAttempt, TasksHaveRunners
<1>5. CallsMatchTasks
  BY <1>1 DEF Init, CallsMatchTasks, RunsOf
<1>6. MessagesOK
  BY <1>1 DEF Init, MessagesOK
<1>7. OffersFresh
  BY <1>1 DEF Init, OffersFresh
<1>8. SettingsOnce
  BY <1>1 DEF Init, SettingsOnce
<1>9. SlotsRespected
  <2>1. \A r \in Runners : RunningTasks(r) = {} /\ openOffers \cap OffersOf(r) = {}
    BY DEF Init, RunningTasks, OffersOf
  <2>2. Cardinality({}) = 0 /\ 0 + 0 <= MaxConcurrency
    BY FS_EmptySet, BrokerAssumption
  <2>3. QED
    BY <2>1, <2>2 DEF SlotsRespected
<1>10. QED
  BY <1>2, <1>3, <1>4, <1>5, <1>6, <1>7, <1>8, <1>9 DEF BrokerInv, BrokerSide

(* Steps of other parts of the system.                                     *)
LEMMA StutterInv == BrokerInv /\ UNCHANGED vars => BrokerInv'
<1> SUFFICES ASSUME BrokerInv, UNCHANGED vars PROVE BrokerInv'
  OBVIOUS
<1>1. /\ UNCHANGED <<call, brokerVars, toRunner, toBroker, sent, openOffers, status>>
      /\ UNCHANGED <<conn, offering, draining>>
  BY DEF vars, requesterVars, runnerVars
<1>2. StatusTypes' /\ Quiet /\ OffersGoUp
  BY <1>1, InvParts, SameQuiet, SameGoesUp DEF StatusTypes
<1>3. QED
  BY <1>1, <1>2, QuietRunnerInv

(* Each action keeps the invariant.                                        *)
LEMMA NextInv == BrokerInv /\ Next => BrokerInv'
<1> SUFFICES ASSUME BrokerInv, Next PROVE BrokerInv'
  OBVIOUS
<1>1. ASSUME NEW q \in Requests, StartTask(q) \/ RequestTimeout(q) PROVE BrokerInv'
  BY <1>1, StartTaskInv, RequestTimeoutInv
<1>2. ASSUME NEW o \in Offers, TaskStep(o) PROVE BrokerInv'
  BY <1>2, CancelTaskInv, AcceptTimeoutInv, TaskTimeoutInv, RunnerEndsTaskInv DEF TaskStep
<1>3. ASSUME NEW r \in Runners, FromRunnerStep(r) PROVE BrokerInv'
  BY <1>3, TaskOfferedInv, HandleRunnerAcceptInv, HandleRunnerRejectInv, TaskResultInv
     DEF FromRunnerStep
<1>4. ASSUME NEW r \in Runners, FromBrokerStep(r) PROVE BrokerInv'
  BY <1>4, QuietStepsInv, OfferAcceptedInv, TaskCancelledInv, ReceivedSettingsInv
     DEF FromBrokerStep
<1>5. ASSUME NEW r \in Runners, OfferInterval(r) PROVE BrokerInv'
  BY <1>5, OfferIntervalInv
<1>6. ASSUME NEW r \in Runners, ConnectionStep(r) PROVE BrokerInv'
  BY <1>6, QuietStepsInv, RegisterRunnerInv, RemoveConnectionInv DEF ConnectionStep
<1>7. ASSUME StartDraining PROVE BrokerInv'
  BY <1>7, StartDrainingInv
<1>8. QED
  BY <1>1, <1>2, <1>3, <1>4, <1>5, <1>6, <1>7 DEF Next

(* The inductive invariant: what is in the maps of the broker, in the      *)
(* lists of the runners and on the sockets fits together after any step of *)
(* requester, broker and runners, with any number of each.                 *)
THEOREM BrokerInvariant == Spec => []BrokerInv
<1>1. Init => BrokerInv
  BY InitInv
<1>2. BrokerInv /\ [Next]_vars => BrokerInv'
  BY NextInv, StutterInv
<1>3. QED
  BY <1>1, <1>2, PTL DEF Spec

(* Lists of pending offers and requests hold no offer or request twice,    *)
(* and an awaited offer has its entry in runnerAcceptRejects.              *)
THEOREM BrokerTypeCorrect == Spec => []BrokerTypeOK
<1>1. BrokerInv => BrokerTypeOK
  BY InvParts
<1>2. QED
  BY <1>1, BrokerInvariant, PTL

(* startTask and the broker agree about every call: it is pending, or has  *)
(* a task with a timeout, exactly as long as the call waits for it.        *)
THEOREM CallsMatchTasksHolds == Spec => []CallsMatchTasks
<1>1. BrokerInv => CallsMatchTasks
  BY InvParts
<1>2. QED
  BY <1>1, BrokerInvariant, PTL

(* sendTaskSettings sends the code of a call to one runner only.           *)
THEOREM OneRunPerCallHolds == Spec => []OneRunPerCall
<1>1. BrokerInv => OneRunPerCall
  BY InvParts
<1>2. QED
  BY <1>1, BrokerInvariant, PTL

(* acceptInProgress of a pending request is set exactly while one          *)
(* acceptOffer waits for a runner.                                         *)
THEOREM InProgressExactHolds == Spec => []InProgressExact
<1>1. ASSUME BrokerInv, NEW q \in ToSet(pendingTaskRequests)
      PROVE  Cardinality(Attempts(q)) = IF q \in acceptInProgress THEN 1 ELSE 0
  <2>1. /\ q \in acceptInProgress <=> Attempts(q) # {}
        /\ \A o, p \in Attempts(q) : o = p
    BY <1>1, InvParts DEF OneAttempt
  <2>2. CASE q \in acceptInProgress
    <3>1. PICK o \in Attempts(q) : TRUE
      BY <2>1, <2>2
    <3>2. Attempts(q) = {o}
      BY <2>1, <3>1
    <3>3. QED
      BY <2>2, <3>2, FS_Singleton
  <2>3. CASE q \notin acceptInProgress
    BY <2>1, <2>3, FS_EmptySet
  <2>4. QED
    BY <2>2, <2>3
<1>2. BrokerInv => InProgressExact
  BY <1>1 DEF InProgressExact
<1>3. QED
  BY <1>2, BrokerInvariant, PTL

(* sendOffers never offers a slot that is taken.                           *)
THEOREM SlotsRespectedHolds == Spec => []SlotsRespected
<1>1. BrokerInv => SlotsRespected
  BY InvParts
<1>2. QED
  BY <1>1, BrokerInvariant, PTL

(* deregisterRunner leaves no task and no offer of the runner behind.      *)
THEOREM TasksHaveRunnersHolds == Spec => []TasksHaveRunners
<1>1. BrokerInv => TasksHaveRunners
  BY InvParts
<1>2. QED
  BY <1>1, BrokerInvariant, PTL

(* The settings of a task are sent once and before it runs, so that the    *)
(* assertions of receivedSettings hold.                                    *)
THEOREM SettingsExpectedHolds == Spec => []SettingsExpected
<1>1. ASSUME BrokerInv, NEW r \in Runners, NEW i \in DOMAIN toRunner[r],
             toRunner[r][i].type = "tasksettings"
      PROVE  status[toRunner[r][i].id] \in {"waitingForSettings", "none"}
  <2>1. toRunner[r][i] \in ToSet(toRunner[r])
    BY DEF ToSet
  <2>2. QED
    BY <1>1, <2>1, InvParts DEF SettingsOnce
<1>2. BrokerInv => SettingsExpected
  BY <1>1 DEF SettingsExpected
<1>3. QED
  BY <1>2, BrokerInvariant, PTL
=============================================================================
