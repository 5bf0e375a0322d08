# A TLA+ development for n8n

This directory holds TLA+ specifications of the parts of n8n in which several
activities share state and can go wrong together: the executions of a main
process, the queue that throttles them, the executions that wait and are resumed,
the election of a leader between mains, and the protocol between Code nodes,
task broker and task runners. TLC checks them on small instances, TLAPS proves
the safety properties for every value of the constants. `PROJECT.json` maps each definition
to the source lines it stands for. Paths below are relative to `src/packages/`.

## The system

n8n runs workflows. A *main* process receives webhooks, runs triggers and serves
the editor. In *regular mode* it also executes workflows; in *queue mode*
(scaling) workers take executions as jobs from a Redis queue. Several mains may
run next to each other (*multi-main*); one of them is the leader and alone runs
triggers, timers and clean-up. Code nodes run in *task runners*, separate
processes that talk to a broker inside the main.

### Inventory

| Component | State | Operations | Talks to |
|---|---|---|---|
| Concurrency queue (`cli/src/concurrency/concurrency-queue.ts`) | a counter `capacity`, a queue of pending promises | enqueue, dequeue, remove | concurrency control |
| Concurrency control, reservation (`concurrency-control.service.ts`, `concurrency-capacity-reservation.ts`) | one queue per kind of execution, `isEnabled`; whether a call reserved | throttle, release, remove, removeAll, disable | active executions, stop |
| Active executions (`cli/src/active-executions.ts`) | a map from execution id to an entry: status, promise, running workflow | add, attach, stop, finalize, setStatus, shutdown | database, queue, engine |
| Workflow runner (`cli/src/workflow-runner.ts`) | none of its own; the steps of `run` between awaits | run, runMainProcess, failExecution, processError, execution timeout | active executions, engine, database |
| Execution service (`cli/src/executions/execution.service.ts`) | none | stop, in regular and in scaling mode | active executions, queue, wait tracker, database |
| Saving (`execution-lifecycle-hooks.ts`, `execution-persistence.ts`, `execution.repository.ts`) | the execution's row: status, waitTill | setRunning, conditional updates, markAsCrashed | database |
| Process lifecycle (`commands/start.ts`, `commands/base-command.ts`, event bus, execution recovery) | phase of the process, event log | stopProcess, forced exit, start-up recovery, runEnqueuedExecutions | everything |
| Wait tracker (`cli/src/wait-tracker.ts`) | timers per waiting execution | poll, start, stop, resume the parent | workflow runner, leader events |
| Leader election (`scaling/multi-main-setup.ee.ts`, `leader-election-client.ts`) | role of the main, one Redis key with a time to live | init, check, take over, step down, shutdown | Redis, all leader-only services |
| Scaling queue (`scaling/scaling.service.ts`, `job-processor.ts`) | Bull jobs, jobs running on a worker | add, process, stop, recover | Redis, database |
| Redis lock (`scaling/redis-lock.service.ts`) | a lease per key | acquire, renew, release | Redis |
| Task broker, requester, runner (`cli/src/task-runners/`, `@n8n/task-runner`) | offers, requests, tasks, accept handshakes | match, accept, reject, defer, settle, cancel, time-outs, draining | web sockets |
| Workflow engine (`core/src/execution-engine/`) | execution stack, waiting inputs | run nodes, retry, wait, cancel, partial runs | hooks |
| Active workflow manager (`cli/src/active-workflow-manager.ts`) | active triggers, retry timers | add, remove, leader changes | engine, webhooks |
| Collaboration, push, CRDT | open workflows, write locks, connections | open, close, acquire, expire | browser |
| Nodes, editor, AI features | | | third-party services |

What is hard: JavaScript runs until it awaits, so every await in `run`, `stop`
and `shutdown` is a point where another activity can change the row, the map or
the queue; several callers may resume the same execution; timers race results;
a process can be killed between a database update and the next; Redis commands
time out and still take effect; a request can expire while it is being served.
The hazards are listed one by one, each at its line, in `PROJECT.json`.

What makes the components correct:

* queue: no slot is given twice, nobody waits while a slot is free, the limit holds, first
  come first served;
* executions: one run per execution at a time, a stop is final, a finished
  execution stays finished, no row stays `running` in a live process and no slot is
  lost, a shutdown waits for what runs and is not blocked by what does not, what was
  enqueued survives a restart (the code keeps some of this with exceptions only, see
  the findings and the known weaknesses);
* leader election: assertions hold, roles follow the key, and after a failure
  there is again exactly one leader;
* wait tracker: whoever wants to resume an execution, it runs once; what has
  ended stays ended; a wait ends when its time has come; a parent resumes after
  its child, with the child's output;
* scaling queue: one worker runs a job, what a caller was told stays true, a removed
  job never ran, no row stays `running` after its worker has gone, callers are answered;
* task runners: requester and broker agree on every call, a call's code runs at
  most once, a runner does not exceed its slots, nothing is left behind a lost
  runner, and every call and every task ends.

## Modules

| Module | Models |
|---|---|
| `ConcurrencyQueue` | the queue; also the abstract specification that `ActiveExecutions` implements |
| `ActiveExecutions` | a main in regular mode; extends `ConcurrencyQueue` with runs, rows, stops, shutdown and restart |
| `InstanceRole` | the roles of the mains as their services see them: any change at any time (an over-approximation of leader election) |
| `LeaderElection` | multi-main leader election over Redis |
| `WaitTracker` | executions that wait, and the trackers of several mains; extends `InstanceRole` |
| `ScalingQueue` | queue mode: owners, jobs, workers and the leader's recovery; extends `InstanceRole` |
| `TaskBroker` | task requester, task broker and task runners, joined by web sockets; implements `TaskCalls` |
| `TaskCalls` | what `startTask` promises a Code node: its code goes to one task, its call ends once (abstract) |
| `Filters` | `Array.prototype.filter` on the broker's lists, in a form that can be proved about |
| `MC...` | the instances for TLC |
| `..._proofs` | the theorems and their proofs |

Definitions named in a comment as a *mutant* of another are deliberately wrong
versions of it, used to show that a property can fail; no specification uses
them.

### ConcurrencyQueue

An element of `Calls` is one call of `enqueue` and the promise it returns.
`slot[c]` says what has become of it: `idle`, `queued`, `held` (the promise is
resolved, the owner runs), `released`, or `dropped` (taken out by `remove`; its
promise is never resolved). `Enqueue`, `Dequeue` and `RemoveAt` are `enqueue`,
`dequeue` and `remove`, each with its call of `resolveNext`. `Reconstruct` is the
end of the process and a new queue in the next one. Telemetry events are left out.

### ActiveExecutions

An element of `Calls` is one call of `WorkflowRunner.run`, `pc` tells how far it
has come, and an action is what happens between two of its awaits, with the
database update that is awaited:

`Create`/`Resume`/`RunEnqueued` → `Reserve` → `SetRunning` or `ResumeRow` →
`Register` → `SetRunningAgain` (or `FailExecution`) → `StartWorkflow` (or
`StartFails`, `LateSave`) → `WorkflowEnds` → `Finalize`.

Where an awaited database call throws, the call takes another way: `AddThrows` (the catch
of `add` gives the slot back), `PreparationThrows` (what is awaited between `add` and the
`try` of `runMainProcess`, or in `failExecution`: `run` rejects and nobody finalizes the
entry), `SaveThrows` (a hook) and `StopThrows` (the update of `stop`). `AttachThrows` is
`attachResponsePromise` on an entry that a stop has removed. A call that rejected this way is
`stranded`.

`db` is the status column; `active` is the map, in which an entry has the name
of the call that made it; `waiting`, `settled` and `attached` are the fields of
an entry. `StopRequest`, `StopInRegularMode` and `StopWrite` are
`ExecutionService.stop`, cut at its awaits. `Timeout` is the execution timeout.
`Shutdown` is `ActiveExecutions.shutdown` up to its loop, `Exit` the end of the
loop, `Crash` a kill or the forced exit, `Start` the recovery at start-up.

Abstractions: workflow data, binary data, response promises, streaming and the
pub/sub parts are left out; saving is always on (an execution is not deleted
after success); in `Start`, which of the rows left running are found by recovery
is a free choice, because the event log is not modelled.

### LeaderElection

Each main awaits at most one Redis command of its check (`check`), which Redis
executes (`Execute`) some time before the reply is handled. A command may time
out (`CommandFails`); a SET or DEL given up that way, or by a main that left, is
`late` and may still take effect (`ExecuteLate`). Unanswered commands are sent
again after a reconnect (`ExecuteUnanswered`), which is what ioredis does with
`maxRetriesPerRequest: null`. The order of late commands of one connection is
not kept, which only adds behaviours. `Expire` stands for the time to live and
for a Redis failover that loses the key. A main that restarts keeps its host id,
as it does in Docker.

`faults` and `seen` are history variables. `FaultsEnd` marks the point from
which Redis answers and mains keep running; `seen[m]` records whether m held the
key at each moment of its current check.

### InstanceRole, WaitTracker

`InstanceRole` lets a main that is up change its role at will, any number of them lead at
once, and a process end and start. It promises nothing of its own: it is the environment of
`WaitTracker` and `ScalingQueue`, wide enough that what is shown of them holds under
`LeaderElection` (lemma `RolesAllowed` in `LeaderElection_proofs`), also while two mains lead.
`WaitTracker` puts the trackers of several mains on top of it.

| Variable | In the code |
|---|---|
| `status`, `until`, `data` | the row: `status` (`ended` for canceled, error and crashed), how far `waitTill` is, and whether the top of its stack holds its own input or a child's output |
| `wait` | history: the number of the execution's current wait, which names the timers set for it |
| `boot` | how far start-up has come: before `WaitTracker.init`, before `registerEventHandlers`, after it |
| `mainTimer`, `leaked` | the interval, and intervals that were overwritten without being cleared |
| `found` | the answers of `getWaitingExecutions` that are still to be looked at |
| `entry`, `armed` | `waitingExecutions`, and the timers that are set |
| `resuming` | calls of `startExecution` (or of a webhook) between their read of the row and the conditional update of `add` |
| `parents` | calls of `resumeParentExecution`: waiting for the child, before the read, the write or the start of the parent, or awaiting its start |
| `runs` | runs of resumed executions; they go on in a worker when the main ends |
| `jobs` | those no worker has begun: the row is `running`, `setRunning` of the worker (`SetRunning`) is still to come |
| `stopping` | stops between their check of the status and `stopDuringRun` |

`Poll`, `Track`, `TimerFires`, `Add` are the way of one execution through the tracker;
`TakeOver`, `StepDown`, `InitTracker`, `RegisterEventHandlers` and `End` are what start-up,
leader events and the end of a process do to it; `ReadParent`, `WriteParent`, `StartParent`,
`ParentStepFails` and `ResumeFails` are `resumeParentExecution` cut at its awaits, with
`withRetry`. Abstractions: the child has an output or an error to hand over; pre-flight failures
are one action (`Refuse`); the run itself is `Finish` or `WaitAgain`. Resumed executions run on
workers, whose writes have no condition: `setRunning` undoes a stop that came after `add`, and
the hook saves over one that came during the run. Concurrency limits do not apply to waits in
queue mode and are left to `ActiveExecutions`.

### ScalingQueue

Executions in queue mode, also over the roles of `InstanceRole`. An execution has
one row, one job and one owner, the main that called `run` for it.

| Variable | In the code |
|---|---|
| `call`, `entry`, `told` | how far `enqueueExecution` has come (`adding`, `awaiting` job.finished, `reading` the row, in the `sanity` run of processError or saving as `failing`), the entry of `activeExecutions`, and history: what its promise settled with |
| `job` | Bull's state of the job; `canceled` is a job that failed with the message of a cancelled execution, `stalled` one that Bull gave up |
| `work` | jobs on workers and the next step of `processJob` |
| `message`, `aborts`, `result` | job-finished and abort-job messages under way, and `jobResults` of the owner |
| `stopJob`, `stopping` | the next step of `stopJob` after a cancel on the owner, and stops between `stopInScalingMode` and `stopDuringRun` |
| `timer`, `older` | the timeout of the recovery, and one that was overwritten while it was set |
| `recoveries` | calls of `recoverFromQueue` between its read of the rows, its read of the queue and `markAsCrashed` |

A main is answered by Bull or by a message, in any order; a message that is never
handled is lost. `Stall` is Bull's check of locks: it finds jobs of crashed
workers, and, as a fault, a job whose worker is too busy to renew its lock.
`RunEnds` is the workflow with the hook that saves it. Assumed of Bull: a job
that a worker has locked is not removed, a job whose lock is lost is not ended by
its worker, `job.finished()` settles once the job has ended, and does not settle
when it is removed. Abstractions: nothing waits in a job (`WaitTracker` has
that); rows are not deleted after they were saved; saving does not fail; a batch
of the recovery holds all rows; two recovery calls of one main that have read the
same are one.

### TaskBroker

Requester and broker are objects of the same process: a message between them is
a direct call, and the promise continuations it triggers run before the next
event. So the handling of one event (a message of a runner, a timer, a call of
`startTask`) is one action, including for example the whole way from
`runner:taskaccepted` over `broker:taskready` to the settings
(`HandleRunnerAccept`, `Accepted`, `TaskReady`, `SendTaskSettings`). Between
broker and runner there are two channels per runner that keep their order;
`conn` is the socket. A runner that ends loses what was sent to it, while what it
sent may still arrive, before or after the broker has removed it.

| Variable | In the code |
|---|---|
| `call` | the entries of `requestAcceptRejects` (`requested`) and `taskAcceptRejects` (`running`) of the requester, and how `startTask` ended |
| `pendingTaskOffers`, `pendingTaskRequests`, `acceptInProgress`, `runnerAcceptRejects`, `tasks`, `knownRunners`, `isDraining` | the fields of the broker |
| `request`, `awaiting` | the argument of each call of `acceptOffer`, and whether it awaits the runner |
| `settled` | tasks whose settings were sent; also what starts `task.timeout` |
| `offering`, `draining`, `openOffers`, `status` | `canSendOffers`, `isDraining`, `openOffers`, `runningTasks` of each runner |

An offer is taken out of the list when it is matched, so it names the task made of it. Time is
abstract: any offer may be stale when `sendOffers` or `expireTasks` looks, and any timer may
fire. The runners are JavaScript runners: the Python runner answers the same messages in other
ways, and is not modelled. A launcher (not in this repository) offers without expiry and defers
what it is given. Left out: data, node type and RPC requests of a running task, which the broker
forwards; the mismatch warning; the idle timer.

`Calls` maps this state to `TaskCalls`, and `ImplementsCalls` says that the protocol
implements it. `call` is the requester's; `code` is the set of pairs of a call and the
task that was sent its settings, `{<<request[o], o>> : o \in settled}`. Offers,
answers of runners, rejections, deferrals and expiries of offers are stutters; the step that
sends the settings is `Give`; the removal of a runner is `Lose`, which fails
exactly the calls whose code that runner's tasks have. `TasksCanEnd` looks at one
state only: a task in the broker without settings belongs to a runner that waits
for them, has an error under way (`ErrorUnderWay`), or belongs to a socket that is
closed.

## Runs

| Run | Instance | Shows |
|---|---|---|
| `queue` | 5 calls, limit 2 | counter, queue and slots agree (its types are part of `TypeOK` in `executions`); no idle capacity; overshoot only by removals; first come, first served |
| `executions` | 3 calls, 2 executions, limit 1, 1 call with database calls that throw | one run per execution; the queue is used correctly; a slot is on its way back, but for the two cases of `SlotLost`; nothing starts while draining; results do not replace `canceled` |
| `executions_live` | 3 calls, 1 execution, timeout, 1 restart | finished stays finished; a row does not stay running, unless a call that ran it was given up; the queue empties, unless a slot is lost |
| `stopped` | 2 calls, 1 execution | **violated**: a stopped execution stays stopped |
| `enqueued` | 3 calls, 2 executions, 1 restart | **violated**: enqueued executions run after a restart |
| `leader` | 2 mains | assertions hold; role changes are justified by the key; one leader in the end, holding the key |
| `waits` | 2 mains, a parent and its child, 2 troubles | one run per execution; a resumed parent has the output; what has ended, with no run left, stays ended |
| `waits_live` | 1 main, a parent and its child, 2 waits each, 1 trouble | a tracked wait ends; a parent resumes after its child |
| `waits_lost` | 1 main, 1 execution, 1 trouble | **violated**: a main that tracks resumes what waits for a time, also after it stepped down and took over again |
| `tasks` | 2 requests, 1 internal runner, 2 slots, 3 offers | requester and broker agree; a call's code is given to one task and the call ends once (`TaskCalls` is implemented); every task the broker keeps can end; flags are reset; slots are respected; the runner's assertions on settings hold |
| `tasks_live` | 1 request, an external runner and a launcher | calls end unless deferred for ever, and tasks end; no task without its runner |
| `scaling` | 2 mains, 1 worker, 1 execution, 2 troubles | one worker runs it; a reported success stays; a removed job never ran; rows settle; callers are answered |

The violated properties state what a comment or the documentation of the code
says; `findings` in `PROJECT.json` quotes it and says what the code does instead.

Known weaknesses that the models have, as the code does, without a run of their
own:

* `ConcurrencyQueue.remove` gives capacity back and resolves the next waiting
  call (`concurrency-queue.ts:52`): with one slot, two waiting calls and a stop of
  the first, two executions run. `OvershootBounded` says by how much the limit
  can be exceeded.
* An execution that begins to wait while the shutdown drains keeps its entry,
  and the loop of `ActiveExecutions.shutdown` waits for it until the forced exit
  (`active-executions.ts:350`).
* A run that has called `putExecutionToWait` and has not saved yet is dropped
  from the map by the shutdown (`active-executions.ts:342`), which may exit under it.
* A request for a task expires while an offer is being accepted for it; the
  runner accepts, and the broker holds a task that belongs to no request
  (`task-broker.service.ts:596`) until the runner's own timeout.
* The timer of an earlier wait of an execution, left by `startExecution` or on
  another main, may end a later wait before its time (`wait-tracker.ts:122`).
* The shutdown of a stale leader deletes the key of its successor (a comment
  in the code asks for a guard), from which the election recovers.
* `hookFunctionsSaveWorker` saves a completed run without the condition that
  `hookFunctionsSave` has (`execution-lifecycle-hooks.ts:619`, "A completed run must
  never overwrite a status the user already canceled"). In queue mode a stop on a
  main that does not own the execution reaches no top-level job, an abort that
  comes before the worker has registered the run is ignored
  (`job-processor.ts:428`), and an execution stopped while its job is being added
  has no job to stop yet: each time the run completes over `canceled`.
* `processError` returns early for an error that says "cancelled" and for the false
  positive of the sanity run (`workflow-runner.ts:107`, `:127`) without
  `finalizeExecution`: after a timeout on a worker, or a success whose job Bull
  took for stalled, the entry stays in the owner's map and its caller waits.
  `CallsEnd` names these two exceptions.
* Recovery marks a row whose job is still being added (`scaling.service.ts:620`); the
  worker then does not run it.
* A recovery that is under way when its main steps down schedules the next one on
  a follower, and taking over again starts a second chain of timers
  (`scaling.service.ts:573`).
* `jobResults` is filled on every main and emptied on the owner only.
* A worker whose job Bull took for stalled may save its success before the owner
  saves the error (`workflow-runner.ts:156`).
* A stop between `putExecutionToWait` and the end of the workflow loses a
  concurrency slot (`active-executions.ts:228`), as does a resume that replaces the
  entry before its promise has settled.
* What `run` awaits between `add` and the `try` of `runMainProcess` (static data, base data,
  the second `setRunning`, `workflow-runner.ts:336`, `:367`, `:386`) or in `failExecution` may
  throw; so does `attachResponsePromise` when a stop, or the late end of an earlier run of the
  same execution, has settled the entry. `run` rejects, and nobody saves the row, finalizes the entry or gives the slot back: the row stays
  `running` until start-up recovery, and calls in the queue may wait as long. A hook that
  cannot save leaves the row as it is, too. `RunningRowSettles`, `SlotsAttended` and `QueueEmpties`
  name these as exceptions (`GivenUp`, `SlotLost`) and show that there are no others.
* `setRunning` and the hook of a worker write without a condition: an execution that is
  stopped between `add` and its job, or while it runs on a worker, comes back
  (`job-processor.ts:120`, `execution-lifecycle-hooks.ts:707`). `EndedStaysEnded` is
  about executions with no run left.
* A main that takes over between `WaitTracker.init` (`start.ts:262`) and the registration of
  its handlers (`start.ts:289`) does not hear the event and tracks nothing until it leads anew.
* Each deferral starts the timeout of a request anew (`task-broker.service.ts:573`): a launcher
  whose runner never gets ready postpones it for ever. `CallsEnd` names this exception.
* The Python runner has no timer for a task that waits for its settings
  (`@n8n/task-runner-python/src/task_runner.py:284`). One that was accepted after its request
  expired stays in `tasks` and holds the draining; `TasksEnd` and `TasksCanEnd` are about
  JavaScript runners.

Bounds. `Calls` bounds how often `run` or `enqueue` is called: with limit 2, five calls give two
holders, a queue of three, and removals from its middle. With one slot and three calls on two
executions there are a holder, two waiters, and two calls for the same execution, which is what
the races need: resume against resume, resume against stop, stop against setRunning. `MaxThrows`
bounds the calls of `run` of which a database call throws; it is one in `executions` (where a
call that throws meets two that do not), and zero in the other runs, in which a call can still
be stranded by `AttachThrows`. `MaxStarts` bounds restarts; one is enough for a call of the old
process to meet rows recovered by the new one. Two mains are enough for a stale leader and its
successor; the theorems cover any number. For a call to be matched twice, with a late answer to
the first offer, it takes two offers; a third one lets two calls run on the two slots of a
runner while an offer of it is stale. `MaxTrouble` bounds, together, step-downs, ends of
processes, failing operations and stops by users: one is enough to lose a timer or a step, and
two give a main that loses the lead and another that then loses its process, or a stop and a
retry. Two waits of an execution are needed for a timer of an earlier one; one retry
(`MaxAttempts` 2) shows that retries happen and that they end. In `scaling`, two troubles give a
worker that crashes on a job whose owner has ended, a stop during an overlap of two recoveries,
or a stall during a stop; the executions of a batch do not interact, so one is enough. The
instances have one task type: types only say which offers a request may take. `MaxOffers` bounds
the offers of a runner; with the one of `tasks_live` a launcher defers once, so that the
exception of `CallsEnd` does not arise in the instance: it shows that a call which is deferred
finitely often ends. `executions` uses symmetry on calls, `tasks` on requests, `waits` on mains;
the runs with liveness properties use none. The runs of `ActiveExecutions`, `WaitTracker` and
`TaskBroker` do not check deadlock: once all calls or offers are used up, or the process is down
for good, nothing has to happen.

Fairness. `ConcurrencyQueue` has none: that a slot is given back depends on its owner, and is
stated where the owners are (`SlotsAttended`, `QueueEmpties`). In `ActiveExecutions` promises
and updates settle, nodes end, and start-up runs what it found; no request, timeout, stop or
crash is forced. In `LeaderElection` the interval timer fires, Redis executes and answers what
it is sent, and a key nobody renews expires; recovery is only claimed after the last fault. In
`WaitTracker` a started main comes up, intervals and timers fire, queries and updates are
continued, time passes, and a main that runs takes over when none leads; no run, webhook call,
stop or trouble is forced. In `ScalingQueue` promises settle, workers take jobs and end them,
Bull finds orphaned jobs, timers of the recovery fire, mains are started again, and one takes
over when none leads (what `Recovers` shows of the election); messages, aborts and stops are not
forced. In `TaskBroker` timers fire, that of a pending request unless it is deferred for ever
(`RequestTimer`), what a runner sent is handled, and a closed socket is noticed; no offer, no
result and no reaction of a runner to the broker is assumed.

## Proofs

* `ConcurrencyQueue_proofs`: `QueueInv` joins type correctness, the accounting
  equation, that the queue is an injective list of exactly the waiting calls,
  and the two bounds on held slots. The bounds alone are not inductive: that a
  dequeue with an empty queue keeps them needs the equation, and the equation
  needs the queue to be injective. The cardinality steps rest on
  `FiniteSetTheorems`. `NoOvertaking` (first come, first served) compares positions: `shift`
  resolves the head, and a removal keeps the order of the others.
* `ActiveExecutions_proofs`: `RunInv` says that a call has an execution once it was made, that a
  call which *claims* an execution (it is new, or its update of the waiting row succeeded)
  excludes any other, that the row of a claimed execution is neither missing nor waiting, and
  that a process which is down has no call under way. `AtMostOneRun` follows from the claims,
  the two action properties from the row. `ImplementsQueue` maps each action to a step of the
  queue or a stutter, and with `QueueTypeCorrect` gives `TypeCorrect`. `NoStartWhileDraining`
  rests on `DrainInv`: throttling is disabled from the first step of the shutdown on, and a
  queue that is disabled hands out no slot any more (`DrainKeepsSlots`). `RunningRowsAttended`
  is the safety half of `RunningRowSettles`: before any restart, a row that is running has a
  call that will save it, or the hook of a cancelled one, or a call that was given up
  (`GivenUp`). It needs `EntriesOwned`: a running call finds its own entry in the map or none,
  so that it attaches its workflow to itself, and only a workflow that was started can be
  cancelled; its hook then saves. `SlotsAttended` is proved likewise: a slot that is held
  belongs to an entry that has not settled and whose run goes on, with the two exceptions of
  `SlotLost`.
* `LeaderElection_proofs`: `LeaderInv` adds which replies a command can get and
  what the history has recorded by then; with it each change of role has its
  reason in the history. `RolesAllowed` says that `InstanceRole` is wide enough: it allows
  each step of the election. `LeadershipStays` is the safety
  half of `Recovers`: `Steady(m)` (the faults are over, m leads with the key, no late DEL
  and no reply that would make another main leader is under way) is never left, so
  that the one leader stays. That `Steady` is reached is left to TLC.
* `WaitTracker_proofs`: `RunsOnce` is inductive together with the types, because a
  run begins only by the conditional update; `EndedStaysEnded` follows from it: what writes a row
  without a condition is a run that is left (`JobsRun`: a job belongs to one) or a stop.
  `OutputReachesParent` needs `HandOverInv`: a main has one call of
  `resumeParentExecution` per child (`ParentsInOrder`), which awaits one start of
  the parent (`ResumesInOrder`), and before that start the output is in the row, or
  the parent has left the wait in which it was written (`HandedOver`). Waits only
  go up, which is why the number of the wait read can be compared.
  `ParentsAttended` is the safety half of `ParentsResume`: the run or the start that a call of
  `resumeParentExecution` waits for exists, and its main is up. It needs that only
  a process that is up holds timers and calls (`HeldByUp`) and that
  an awaited start is under way (`StartsAwaited`). `EntriesStayArmed` is the safety half of
  `TrackedWaitsEnd`: as long as a main's `mainTimer` was never cleared, each entry has its
  timer. After a step-down it does not (`stopTracking` clears the timers and keeps the
  entries), which is what the run `waits_lost` shows.
* `ScalingQueue_proofs`: `ScalingInv` says that a job is added once and taken once, so
  that work on it is unique (`WorkInOrder`), that stopJob is only under way for a job
  whose owner waits for it, so that a removable job has not run
  (`RemovalsInOrder`), and that from the moment a worker has saved a success until
  the owner has answered, only a stop writes the row (`AnswersInOrder`).
  `CallersAttended` is the safety half of `CallsEnd`: whoever has an entry waits for a call
  that goes on or for a job that Bull still has, with the two exceptions of
  `processError`. It follows from `EntriesAttended`, which adds that a success is the last
  thing a worker saves (so that the early return of the sanity run leaves a row that
  nobody writes any more) and that the job of a caller who waits is not being removed.
  `LeaderRecovers` is the safety half of `RowsSettle`: a leader has a recovery
  timeout or a recovery cycle, whatever fails; it is inductive by itself.
* `TaskBroker_proofs`: `BrokerInv` joins, besides the invariants TLC checks, that an offer is in
  one place only (on its way, in the list, or matched) and was made once (`OffersFresh`), that
  an awaited offer has no task yet (`AcceptsOpen`), that what the broker keeps belongs to a call
  that was made (`CallsKnown`), and that settings are sent once and a task runs only after they
  were sent (`SettingsOnce`). `CallsMatchTasks` and `OneRunPerCall` need each other: a call that
  is answered has one task to lose, and a call that is still pending has none that is settled
  (`CallsKnown`). A late answer to an offer that was given up is harmless since `awaiting` no
  longer holds it. Each action is treated once, by what it does to the messages (`Quiet`,
  `OffersGoUp`), to broker and requester (`BrokerSide`) and to the slots of a runner.
* `TaskCalls_proofs`: the refinement, `Spec => ImplementsCalls`, with lemmas for each action
  that is a step of `TaskCalls` and for those that stutter. A step that sends settings is `Give`
  because `BrokerInv` makes the call still `requested` and the task new; `RequestsKept` (the
  request of a matched offer never changes) keeps the pairs in `code`. `TasksCanEnd` needs
  `HeldInv` on the order of the messages: when a runner has given up before its
  answer is handled, the error is in the same queue behind that answer (`AcceptsBacked`),
  and only tasks whose settings were sent are cancelled (`CancelsSettled`).
* `Filters_proofs`: what filtering and appending do to the elements of a list and to their
  uniqueness, by induction on its length.

Assumptions: a finite set of calls, a positive limit, that `None` is no call, no
main and no execution, a parent (or none) for each execution, at least one
wait and one attempt, and finite sets of requests and runners, each with one task type
and a positive number of slots. Every invariant, every action property and every refinement
of a passing run is proved. Only model-checked: the liveness properties, and the properties
that are violated. A liveness property says that something waited for is still there, and that
fairness then brings it about. The second half needs `ENABLED`, and is TLC's; the first is
an invariant and is proved: `RunningRowsAttended`, `LeadershipStays`, `ParentsAttended`,
`EntriesStayArmed`, `CallersAttended`, `LeaderRecovers`, `TasksCanEnd`, and `SlotsAttended` with
`NoIdleCapacity` for `QueueEmpties`. The first six are stated beside their proofs and no run lists
them; the runs of the liveness properties they belong to cover their instances.

## Plan

1. *(done)* executions in regular mode: `ConcurrencyQueue`, `ActiveExecutions`.
2. *(done)* `LeaderElection`.
3. *(done)* `TaskBroker` and `TaskCalls`, the invariants and the refinement proved. To do: the
   requests a running task makes (data, node types, RPC), and the Python runner.
4. *(done)* `WaitTracker` under leader changes, over the roles that
   `InstanceRole` allows.
5. *(done)* `ScalingQueue`: jobs on workers, stops, recovery. To do: the broadcast
   that stops sub-workflows, and the Redis lock with its lease.
6. Engine algorithms: the execution stack with waiting inputs, partial
   execution (start nodes, subgraphs, cycles) against reference definitions.
7. Active workflow manager, collaboration locks, event log and recovery.

Of the proofs: an abstract specification of the life of a row, which `WaitTracker` and
`ScalingQueue` would both implement; `TasksCanEnd` extended to tasks whose settings were
sent, whose timers are in the runner.

## Not modelled

Nodes and integrations, the editor, AI features, the license and the CRDT
library are I/O around third-party code. Push and webhooks are transports; what
they start is an action here. Pruning works on rows no execution uses any more.
Recursive operators are not used in modules with theorems: recursion is written
as a recursive function, and induction on its argument as a statement about sets of
numbers (`SetInduction`). Liveness under fairness is out of TLAPS' reach and is
left to TLC.
