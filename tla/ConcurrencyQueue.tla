-------------------------- MODULE ConcurrencyQueue --------------------------
(***************************************************************************)
(* The in-memory queue that throttles production executions in regular     *)
(* mode: cli/src/concurrency/concurrency-queue.ts.                         *)
(*                                                                         *)
(* A call is one call of `enqueue`, and with it the promise it returns.    *)
(* The promise is resolved at once, or the call waits in `queue` until     *)
(* `resolveNext` resolves it.  A call whose promise was resolved holds a   *)
(* slot until its owner calls `dequeue`; a call taken out by `remove`      *)
(* keeps a promise that nobody resolves any more.                          *)
(***************************************************************************)
EXTENDS Integers, Sequences, FiniteSets

CONSTANTS
    Calls,      \* the calls of enqueue
    Limit       \* the capacity the queue is constructed with

ASSUME CallsAssumption == IsFiniteSet(Calls)
ASSUME LimitAssumption == Limit \in Nat \ {0}

VARIABLES
    capacity,   \* this.capacity, negative while calls wait
    queue,      \* this.queue, the waiting calls, oldest first
    slot        \* what has become of each call

queueVars == <<capacity, queue, slot>>

InState(s) == {c \in Calls : slot[c] = s}

Held == InState("held")
Dropped == InState("dropped")

QueueTypeOK ==
    /\ capacity \in Int
    /\ queue \in Seq(Calls)
    /\ slot \in [Calls -> {"idle", "queued", "held", "dropped", "released"}]

QueueInit ==
    /\ capacity = Limit
    /\ queue = <<>>
    /\ slot = [c \in Calls |-> "idle"]

-----------------------------------------------------------------------------

(* Mutant of Enqueue: the comparison is off by one.                        *)
EnqueueOffByOne(c) ==
    /\ slot[c] = "idle"
    /\ capacity' = capacity - 1
    /\ IF capacity' < -1
         THEN queue' = Append(queue, c) /\ slot' = [slot EXCEPT ![c] = "queued"]
         ELSE queue' = queue /\ slot' = [slot EXCEPT ![c] = "held"]

(* Mutant of Enqueue: a throttled call gets a state nobody knows.          *)
EnqueueThrottled(c) ==
    /\ slot[c] = "idle"
    /\ capacity' = capacity - 1
    /\ queue' = IF capacity' < 0 THEN Append(queue, c) ELSE queue
    /\ slot' = [slot EXCEPT ![c] = IF capacity' < 0 THEN "throttled" ELSE "held"]

(* enqueue: takes one unit of capacity; only the calls it leaves without   *)
(* one have to wait.                                                       *)
Enqueue(c) ==
    /\ slot[c] = "idle"
    /\ capacity' = capacity - 1
    /\ IF capacity' < 0
         THEN /\ queue' = Append(queue, c)
              /\ slot' = [slot EXCEPT ![c] = "queued"]
         ELSE /\ queue' = queue
              /\ slot' = [slot EXCEPT ![c] = "held"]

(* Mutant of ResolveNext: the next call is left in the queue.              *)
ResolveNobody(waiting, states) ==
    queue' = waiting /\ slot' = states

(* Mutant of ResolveNext: pop in the place of shift.                       *)
ResolveLast(waiting, states) ==
    IF waiting = <<>>
      THEN queue' = waiting /\ slot' = states
      ELSE /\ queue' = SubSeq(waiting, 1, Len(waiting) - 1)
           /\ slot' = [states EXCEPT ![waiting[Len(waiting)]] = "held"]

(* resolveNext on what is left of the queue: shifts the first waiting call *)
(* and resolves its promise.                                               *)
ResolveNext(waiting, states) ==
    IF waiting = <<>>
      THEN /\ queue' = waiting
           /\ slot' = states
      ELSE /\ queue' = Tail(waiting)
           /\ slot' = [states EXCEPT ![Head(waiting)] = "held"]

(* dequeue: the owner of c gives its capacity back.                        *)
Dequeue(c) ==
    /\ slot[c] = "held"
    /\ capacity' = capacity + 1
    /\ ResolveNext(queue, [slot EXCEPT ![c] = "released"])

(* Mutant of Without: splices two calls out.                               *)
WithoutTwo(i) == SubSeq(queue, 1, i - 1) \o SubSeq(queue, i + 2, Len(queue))

Without(i) == SubSeq(queue, 1, i - 1) \o SubSeq(queue, i + 1, Len(queue))

(* Mutant of RemoveAt: the capacity of the removed call is not given back. *)
RemoveKeepingCapacity(i) ==
    /\ i \in 1 .. Len(queue)
    /\ capacity' = capacity
    /\ ResolveNext(Without(i), [slot EXCEPT ![queue[i]] = "dropped"])

(* remove: splices the call at index i out of the queue, gives back the    *)
(* unit that enqueue took for it, and resolves the next call.              *)
RemoveAt(i) ==
    /\ i \in 1 .. Len(queue)
    /\ capacity' = capacity + 1
    /\ ResolveNext(Without(i), [slot EXCEPT ![queue[i]] = "dropped"])

(* The process ends and a new one constructs the queue again; the calls of *)
(* the old process are lost with it.                                       *)
Reconstruct ==
    /\ capacity' = Limit
    /\ queue' = <<>>
    /\ slot' = [c \in Calls |-> IF slot[c] = "idle" THEN "idle" ELSE "released"]

QueueNext ==
    \/ \E c \in Calls : Enqueue(c) \/ Dequeue(c)
    \/ \E i \in 1 .. Len(queue) : RemoveAt(i)
    \/ Reconstruct

QueueSpec == QueueInit /\ [][QueueNext]_queueVars

-----------------------------------------------------------------------------

(* The counter and the two places a call can be in never disagree:         *)
(* enqueue, dequeue, remove and resolveNext each change the three in step. *)
Accounting ==
    capacity = Limit - Cardinality(Held) - Len(queue)

(* The queue holds exactly the waiting calls, each once.                   *)
QueueIsWaiting ==
    /\ {queue[i] : i \in 1 .. Len(queue)} = InState("queued")
    /\ \A i, j \in 1 .. Len(queue) : queue[i] = queue[j] => i = j

(* Nothing waits while a slot is free: no order of dequeue and remove      *)
(* leaves capacity unused behind a waiting execution.                      *)
NoIdleCapacity ==
    queue # <<>> => Cardinality(Held) >= Limit

(* Each removal lets at most one call too many through, and no other       *)
(* operation exceeds the limit.                                            *)
OvershootBounded ==
    Cardinality(Held) <= Limit + Cardinality(Dropped)

(* First come, first served: a call that is let through leaves nobody      *)
(* waiting that was there before it, whether it comes new or from the      *)
(* queue, and wherever another was removed.                                *)
NoOvertaking ==
    [][\A c \in Calls, i \in 1 .. Len(queue) :
         (/\ slot[c] # "held" /\ slot'[c] = "held"
          /\ \A j \in 1 .. i : queue[j] # c)
             => slot'[queue[i]] # "queued"]_queueVars
=============================================================================
