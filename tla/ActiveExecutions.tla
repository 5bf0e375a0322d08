-------------------------- MODULE ActiveExecutions --------------------------
(***************************************************************************)
(* One n8n main in regular mode: the executions it runs, the rows it keeps *)
(* for them in the database, stopping them, and shutting the process down  *)
(* and starting it again.                                                  *)
(*                                                                         *)
(*   cli/src/active-executions.ts             the map of active executions *)
(*   cli/src/workflow-runner.ts               run, runMainProcess          *)
(*   cli/src/executions/execution.service.ts  stop                         *)
(*   cli/src/concurrency/*                    throttling                   *)
(*   cli/src/commands/start.ts                shutdown and start-up        *)
(*                                                                         *)
(* An element of Calls is one call of `WorkflowRunner.run`.  JavaScript    *)
(* runs until it awaits, so an action is what happens between two awaits   *)
(* of one call; a database update takes effect in the action that awaits   *)
(* it.  The entry that a call puts in the map has the name of the call.    *)
(***************************************************************************)
EXTENDS ConcurrencyQueue

CONSTANTS
    Executions,     \* execution ids
    Limited,        \* those in a mode that the production queue throttles
    HasTimeout,     \* whether workflows have an execution timeout
    MaxStarts,      \* bound: how often the process is started again
    MaxThrows,      \* bound: calls of run of which a database call throws
    None

ASSUME ExecutionsAssumption ==
    /\ Limited \subseteq Executions
    /\ HasTimeout \in BOOLEAN
    /\ MaxStarts \in Nat /\ MaxThrows \in Nat
    /\ None \notin Calls

VARIABLES
    db,         \* status column of each execution's row
    pc,         \* how far each call of run has come
    exec,       \* the execution id of the call
    existing,   \* calls that were given the id of an existing execution
    threw,      \* calls of which a database call has thrown
    active,     \* this.activeExecutions: the entry of each execution
    waiting,    \* entries whose status is "waiting"
    settled,    \* entries whose postExecutePromise has settled
    attached,   \* entries with a workflowExecution
    waitTill,   \* runs that put themselves to wait
    aborted,    \* runs whose workflowExecution was cancelled
    hooks,      \* aborted runs whose workflowExecuteAfter hook has yet to save
    timer,      \* runs whose execution timeout is armed
    stop,       \* how far ExecutionService.stop is, per execution
    stopped,    \* executions of which stop has returned
    enabled,    \* ConcurrencyControlService.isEnabled
    phase,      \* of the process
    boot,       \* enqueued executions found at start-up, still to be run
    starts      \* how often the process was started again

callVars == <<exec, existing, threw>>
runVars == <<pc, callVars>>
entryVars == <<active, waiting, settled, attached>>
workflowVars == <<waitTill, aborted, hooks, timer>>
stopVars == <<stop, stopped>>
processVars == <<enabled, phase, boot, starts>>

vars == <<queueVars, db, runVars, entryVars, workflowVars, stopVars, processVars>>

Statuses == {"none", "new", "running", "waiting", "success", "error", "canceled", "crashed"}

PCs == {"free", "created", "reserving", "updated", "registered", "starting",
        "running", "saved", "failed", "late", "stranded", "done"}

TypeOK ==
    /\ QueueTypeOK
    /\ db \in [Executions -> Statuses]
    /\ pc \in [Calls -> PCs]
    /\ exec \in [Calls -> Executions \cup {None}]
    /\ existing \subseteq Calls /\ threw \subseteq Calls
    /\ active \in [Executions -> Calls \cup {None}]
    /\ {waiting, settled, attached, waitTill, aborted, hooks, timer} \subseteq SUBSET Calls
    /\ stop \in [Executions -> {"idle", "read", "write"}]
    /\ stopped \subseteq Executions
    /\ enabled \in BOOLEAN
    /\ phase \in {"up", "draining", "down"}
    /\ boot \subseteq Executions
    /\ starts \in 0 .. MaxStarts

Init ==
    /\ QueueInit
    /\ db = [e \in Executions |-> "none"]
    /\ pc = [r \in Calls |-> "free"]
    /\ exec = [r \in Calls |-> None]
    /\ existing = {} /\ threw = {}
    /\ active = [e \in Executions |-> None]
    /\ waiting = {} /\ settled = {} /\ attached = {}
    /\ waitTill = {} /\ aborted = {} /\ hooks = {} /\ timer = {}
    /\ stop = [e \in Executions |-> "idle"]
    /\ stopped = {}
    /\ enabled = TRUE
    /\ phase = "up"
    /\ boot = {}
    /\ starts = 0

-----------------------------------------------------------------------------

Alive == phase \in {"up", "draining"}

At(r, here) == Alive /\ pc[r] = here
Goto(r, there) == pc' = [pc EXCEPT ![r] = there]

SetStatus(e, s) == db' = [db EXCEPT ![e] = s]

(* A database call of r throws, without an effect on the rows.             *)
Throws(r) ==
    /\ Cardinality(threw \cup {r}) <= MaxThrows
    /\ threw' = threw \cup {r}

(* throttle: whether this call has to go through the queue.                *)
IsThrottled(r) == enabled /\ exec[r] \in Limited

(* Mutant of Release: releases what was never reserved, or twice.          *)
ReleaseAlways(r) ==
    IF enabled
      THEN capacity' = capacity + 1 /\ ResolveNext(queue, slot)
      ELSE UNCHANGED queueVars

(* ConcurrencyCapacityReservation.release, with the early return of        *)
(* ConcurrencyControlService.release once it is disabled.                  *)
Release(r) ==
    IF slot[r] = "held" /\ enabled THEN Dequeue(r) ELSE UNCHANGED queueVars

(* Mutant of Settle: the `finally` keeps the capacity of a waiting entry.  *)
SettleKeepingSlot(r) ==
    IF r \in settled
      THEN UNCHANGED <<queueVars, active, settled>>
      ELSE /\ settled' = settled \cup {r}
           /\ IF r \in waiting
                THEN UNCHANGED <<queueVars, active>>
                ELSE Release(r) /\ active' = [active EXCEPT ![exec[r]] = None]

(* The postExecutePromise of entry r settles, and its `finally` runs: give *)
(* the capacity back, keep a waiting entry, delete any other.  (A waiting  *)
(* entry also drops its workflowExecution, which nobody reads after that.) *)
Settle(r) ==
    IF r \in settled
      THEN UNCHANGED <<queueVars, active, settled>>
      ELSE /\ settled' = settled \cup {r}
           /\ Release(r)
           /\ active' = IF r \in waiting THEN active
                        ELSE [active EXCEPT ![exec[r]] = None]

(* finalizeExecution: resolves the promise of the entry the execution has  *)
(* now, whichever call made it.                                            *)
FinalizeExecution(e) ==
    IF active[e] = None
      THEN UNCHANGED <<queueVars, active, settled>>
      ELSE Settle(active[e])

(* stopExecution: a waiting entry is only deleted; of any other the        *)
(* workflow is cancelled, which starts its workflowExecuteAfter hook, and  *)
(* the promise rejected.                                                   *)
StopExecution(e) ==
    LET r == active[e] IN
    IF r = None
      THEN UNCHANGED <<queueVars, active, settled, aborted, hooks>>
      ELSE IF r \in waiting
        THEN /\ active' = [active EXCEPT ![e] = None]
             /\ UNCHANGED <<queueVars, settled, aborted, hooks>>
        ELSE /\ Settle(r)
             /\ IF r \in attached
                  THEN aborted' = aborted \cup {r} /\ hooks' = hooks \cup {r}
                  ELSE UNCHANGED <<aborted, hooks>>

-----------------------------------------------------------------------------
(* WorkflowRunner.run and ActiveExecutions.add.                            *)

Call(r, e) ==
    /\ phase = "up"
    /\ pc[r] = "free"
    /\ Goto(r, "created")
    /\ exec' = [exec EXCEPT ![r] = e]
    /\ UNCHANGED <<queueVars, threw, entryVars, workflowVars, stopVars, enabled, phase, starts>>

(* A webhook, a trigger or a user starts an execution: add creates its row.*)
Create(r, e) ==
    /\ db[e] = "none"
    /\ SetStatus(e, "new")
    /\ Call(r, e)
    /\ UNCHANGED <<existing, boot>>

(* A webhook or a timer of the wait tracker found the row waiting.         *)
Resume(r, e) ==
    /\ db[e] = "waiting"
    /\ Call(r, e)
    /\ existing' = existing \cup {r}
    /\ UNCHANGED <<db, boot>>

(* Start.runEnqueuedExecutions: one of the rows that start-up found new.   *)
RunEnqueued(r, e) ==
    /\ e \in boot
    /\ boot' = boot \ {e}
    /\ Call(r, e)
    /\ existing' = existing \cup {r}
    /\ UNCHANGED db

(* reserve: let through at once, or held back in the queue.                *)
Reserve(r) ==
    /\ At(r, "created")
    /\ Goto(r, "reserving")
    /\ IF IsThrottled(r) THEN Enqueue(r) ELSE UNCHANGED queueVars
    /\ UNCHANGED <<db, callVars, entryVars, workflowVars, stopVars, processVars>>

LetThrough(r) == slot[r] \notin {"queued", "dropped"}

(* setRunning, by id and whatever the status of the row.                   *)
SetRunning(r) ==
    /\ At(r, "reserving") /\ LetThrough(r) /\ r \notin existing
    /\ SetStatus(exec[r], "running")
    /\ Goto(r, "updated")
    /\ UNCHANGED <<queueVars, callVars, entryVars, workflowVars, stopVars, processVars>>

(* Mutant of ResumeRow: the update does not require the waiting status.    *)
ResumeAnyRow(r) ==
    /\ At(r, "reserving") /\ LetThrough(r) /\ r \in existing
    /\ SetStatus(exec[r], "running")
    /\ Goto(r, "updated")
    /\ UNCHANGED <<queueVars, callVars, entryVars, workflowVars, stopVars, processVars>>

(* The row of an existing execution is updated only if it is waiting.      *)
ResumeRow(r) ==
    /\ At(r, "reserving") /\ LetThrough(r) /\ r \in existing
    /\ IF db[exec[r]] = "waiting"
         THEN /\ SetStatus(exec[r], "running")
              /\ Goto(r, "updated")
              /\ UNCHANGED queueVars
         ELSE /\ Goto(r, "done")       \* ExecutionAlreadyResumingError
              /\ Release(r)
              /\ UNCHANGED db
    /\ UNCHANGED <<callVars, entryVars, workflowVars, stopVars, processVars>>

(* The update throws instead: the catch of add gives the capacity back.    *)
AddThrows(r) ==
    /\ At(r, "reserving") /\ LetThrough(r)
    /\ Throws(r)
    /\ Goto(r, "done")
    /\ Release(r)
    /\ UNCHANGED <<db, exec, existing, entryVars, workflowVars, stopVars, processVars>>

(* add puts its entry in the map, over the one the execution may have.     *)
Register(r) ==
    /\ At(r, "updated")
    /\ active' = [active EXCEPT ![exec[r]] = r]
    /\ Goto(r, "registered")
    /\ UNCHANGED <<queueVars, db, callVars, waiting, settled, attached,
                   workflowVars, stopVars, processVars>>

(* Mutant of SaveUnlessCanceled: the update has no condition.              *)
SaveAlways(e, s) == SetStatus(e, s)

(* updateExistingExecution with requireNotCanceled, in hookFunctionsSave.  *)
SaveUnlessCanceled(e, s) ==
    IF db[e] = "canceled" THEN UNCHANGED db ELSE SetStatus(e, s)

(* failExecution, when the context or the credentials are refused.         *)
FailExecution(r) ==
    /\ At(r, "registered")
    /\ SaveUnlessCanceled(exec[r], "error")
    /\ Goto(r, "failed")
    /\ UNCHANGED <<queueVars, callVars, entryVars, workflowVars, stopVars, processVars>>

(* runMainProcess sets the row to running a second time.                   *)
SetRunningAgain(r) ==
    /\ At(r, "registered")
    /\ SetStatus(exec[r], "running")
    /\ Goto(r, "starting")
    /\ UNCHANGED <<queueVars, callVars, entryVars, workflowVars, stopVars, processVars>>

(* What run and runMainProcess await between add and the `try` - the hooks  *)
(* of failExecution, static data, the base data, the second setRunning -   *)
(* throws.  run rejects, and nobody finalizes the entry or saves the row.  *)
PreparationThrows(r) ==
    /\ At(r, "registered")
    /\ Throws(r)
    /\ Goto(r, "stranded")
    /\ UNCHANGED <<queueVars, db, exec, existing, entryVars, workflowVars, stopVars, processVars>>

(* attachResponsePromise, for a caller that awaits a response, throws when *)
(* the entry is gone: run rejects in the same way.                         *)
AttachThrows(r) ==
    /\ At(r, "registered")
    /\ active[exec[r]] = None
    /\ Goto(r, "stranded")
    /\ UNCHANGED <<queueVars, db, callVars, entryVars, workflowVars, stopVars, processVars>>

(* processRunExecutionData throws: processError finalizes the entry before *)
(* the hook saves the error.                                               *)
StartFails(r) ==
    /\ At(r, "starting")
    /\ FinalizeExecution(exec[r])
    /\ Goto(r, "late")
    /\ UNCHANGED <<db, callVars, waiting, attached, workflowVars, stopVars, processVars>>

LateSave(r) ==
    /\ At(r, "late")
    /\ SaveUnlessCanceled(exec[r], "error")
    /\ Goto(r, "done")
    /\ UNCHANGED <<queueVars, callVars, entryVars, workflowVars, stopVars, processVars>>

(* The workflow is started and then attached to the entry.  Without an     *)
(* entry that throws, and processError returns: the workflow goes on, but  *)
(* nobody waits for it or can cancel it.                                   *)
StartWorkflow(r) ==
    /\ At(r, "starting")
    /\ Goto(r, "running")
    /\ IF active[exec[r]] = None
         THEN UNCHANGED <<attached, timer>>
         ELSE /\ attached' = attached \cup {active[exec[r]]}
              /\ timer' = IF HasTimeout THEN timer \cup {r} ELSE timer
    /\ UNCHANGED <<queueVars, db, callVars, active, waiting, settled,
                   waitTill, aborted, hooks, stopVars, processVars>>

(* putExecutionToWait in a node of the run.  Without an entry it throws,   *)
(* which fails the node.                                                   *)
PutExecutionToWait(r) ==
    /\ At(r, "running")
    /\ r \notin waitTill
    /\ active[exec[r]] # None
    /\ waitTill' = waitTill \cup {r}
    /\ waiting' = waiting \cup {active[exec[r]]}
    /\ UNCHANGED <<queueVars, db, runVars, active, settled, attached,
                   aborted, hooks, timer, stopVars, processVars>>

AfterWorkflow(r) == IF r \in attached THEN "saved" ELSE "done"

(* The workflow ends and its hook saves the result.  A cancelled run does  *)
(* not save: onCancel has already run the hook.                            *)
WorkflowEnds(r) ==
    /\ At(r, "running")
    /\ Goto(r, AfterWorkflow(r))
    /\ \/ r \in aborted /\ UNCHANGED db
       \/ /\ r \notin aborted
          /\ \E s \in IF r \in waitTill THEN {"waiting"} ELSE {"success", "error"} :
               SaveUnlessCanceled(exec[r], s)
    /\ UNCHANGED <<queueVars, callVars, entryVars, workflowVars, stopVars, processVars>>

(* The `then` of the workflow, or the end of failExecution.                *)
Finalize(r) ==
    /\ At(r, "saved") \/ At(r, "failed")
    /\ FinalizeExecution(exec[r])
    /\ Goto(r, "done")
    /\ timer' = timer \ {r}
    /\ UNCHANGED <<db, callVars, waiting, attached, waitTill, aborted, hooks,
                   stopVars, processVars>>

(* Mutant of SaveCanceled: onCancel does not run the hook.                 *)
NoSaveCanceled(r) ==
    /\ Alive
    /\ r \in hooks
    /\ hooks' = hooks \ {r}
    /\ UNCHANGED <<queueVars, db, runVars, entryVars, waitTill, aborted, timer,
                   stopVars, processVars>>

(* The hook that onCancel started saves the status "canceled".             *)
SaveCanceled(r) ==
    /\ Alive
    /\ r \in hooks
    /\ hooks' = hooks \ {r}
    /\ SaveUnlessCanceled(exec[r], "canceled")
    /\ UNCHANGED <<queueVars, runVars, entryVars, waitTill, aborted, timer,
                   stopVars, processVars>>

(* A hook cannot save the row: at the end of the workflow, where it is     *)
(* tried twice and then logged, for processError, or for onCancel.         *)
SaveThrows(r) ==
    /\ Alive
    /\ Throws(r)
    /\ \/ /\ pc[r] = "running" /\ r \notin aborted
          /\ Goto(r, AfterWorkflow(r))
          /\ UNCHANGED hooks
       \/ /\ pc[r] = "late"
          /\ Goto(r, "done")
          /\ UNCHANGED hooks
       \/ /\ r \in hooks
          /\ hooks' = hooks \ {r}
          /\ UNCHANGED pc
    /\ UNCHANGED <<queueVars, db, exec, existing, entryVars, waitTill, aborted, timer,
                   stopVars, processVars>>

(* The execution timeout fires.                                            *)
Timeout(r) ==
    /\ Alive
    /\ r \in timer
    /\ timer' = timer \ {r}
    /\ StopExecution(exec[r])
    /\ UNCHANGED <<db, runVars, waiting, attached, waitTill, stopVars, processVars>>

-----------------------------------------------------------------------------
(* ExecutionService.stop in regular mode.                                  *)

(* The row is read and is of a stoppable status.                           *)
StopRequest(e) ==
    /\ phase = "up"
    /\ stop[e] = "idle"
    /\ db[e] \in {"new", "waiting", "running"}
    /\ stop' = [stop EXCEPT ![e] = "read"]
    /\ UNCHANGED <<queueVars, db, runVars, entryVars, workflowVars, stopped, processVars>>

QueuedAt(e) == {i \in 1 .. Len(queue) : exec[queue[i]] = e}

(* stopInRegularMode up to its database update: an execution in the queue  *)
(* is removed from it, any other is stopped if it has an entry.            *)
StopInRegularMode(e) ==
    /\ Alive
    /\ stop[e] = "read"
    /\ stop' = [stop EXCEPT ![e] = "write"]
    /\ \/ /\ enabled /\ QueuedAt(e) # {}
          /\ \E i \in QueuedAt(e) :
               /\ \A j \in QueuedAt(e) : i <= j
               /\ RemoveAt(i)
          /\ UNCHANGED <<active, settled, aborted, hooks>>
       \/ /\ ~(enabled /\ QueuedAt(e) # {})
          /\ StopExecution(e)
    /\ UNCHANGED <<db, runVars, waiting, attached, waitTill, timer, stopped, processVars>>

(* Mutant of StopWrite: the other spelling of the status.                  *)
StopWriteMisspelt(e) ==
    /\ Alive
    /\ stop[e] = "write"
    /\ stop' = [stop EXCEPT ![e] = "idle"]
    /\ stopped' = stopped \cup {e}
    /\ SetStatus(e, "cancelled")
    /\ UNCHANGED <<queueVars, runVars, entryVars, workflowVars, processVars>>

(* stopBeforeRun or stopDuringRun: an update by id, whatever the status.   *)
StopWrite(e) ==
    /\ Alive
    /\ stop[e] = "write"
    /\ stop' = [stop EXCEPT ![e] = "idle"]
    /\ stopped' = stopped \cup {e}
    /\ SetStatus(e, "canceled")
    /\ UNCHANGED <<queueVars, runVars, entryVars, workflowVars, processVars>>

(* The update throws, and stop with it, after it has stopped the execution.*)
StopThrows(e) ==
    /\ Alive
    /\ stop[e] = "write"
    /\ stop' = [stop EXCEPT ![e] = "idle"]
    /\ UNCHANGED <<queueVars, db, runVars, entryVars, workflowVars, stopped, processVars>>

-----------------------------------------------------------------------------
(* Shutting down and starting the process.                                 *)

(* Mutant of Shutdown: throttling stays enabled.                           *)
ShutdownEnabled ==
    /\ phase = "up"
    /\ phase' = "draining"
    /\ active' = [e \in Executions |-> IF active[e] \in waiting THEN None ELSE active[e]]
    /\ UNCHANGED <<queueVars, db, runVars, waiting, settled, attached, workflowVars,
                   stopVars, enabled, boot, starts>>

(* ActiveExecutions.shutdown up to its waiting loop.  Throttling is        *)
(* disabled first, so that removeAll then returns at once.                 *)
Shutdown ==
    /\ phase = "up"
    /\ phase' = "draining"
    /\ enabled' = FALSE
    /\ active' = [e \in Executions |-> IF active[e] \in waiting THEN None ELSE active[e]]
    /\ UNCHANGED <<queueVars, db, runVars, waiting, settled, attached, workflowVars,
                   stopVars, boot, starts>>

(* What the process kept in memory is gone.                                *)
ProcessEnds ==
    /\ phase' = "down"
    /\ Reconstruct
    /\ pc' = [r \in Calls |-> IF pc[r] = "free" THEN "free" ELSE "done"]
    /\ active' = [e \in Executions |-> None]
    /\ waiting' = {} /\ settled' = {} /\ attached' = {}
    /\ waitTill' = {} /\ aborted' = {} /\ hooks' = {} /\ timer' = {}
    /\ stop' = [e \in Executions |-> "idle"]
    /\ boot' = {}
    /\ UNCHANGED <<db, callVars, stopped, enabled, starts>>

(* The loop of shutdown finds the map empty, and the process exits.        *)
Exit ==
    /\ phase = "draining"
    /\ \A e \in Executions : active[e] = None
    /\ ProcessEnds

(* The process is killed, or the forced shutdown timer fires.              *)
Crash ==
    /\ Alive
    /\ ProcessEnds

(* Start-up: the event bus marks the rows that were left running as        *)
(* crashed, except those whose log has no node event, and the enqueued     *)
(* rows are listed.                                                        *)
Start ==
    /\ phase = "down"
    /\ starts < MaxStarts
    /\ starts' = starts + 1
    /\ phase' = "up"
    /\ enabled' = TRUE
    /\ \E crashed \in SUBSET {e \in Executions : db[e] = "running"} :
         db' = [e \in Executions |-> IF e \in crashed THEN "crashed" ELSE db[e]]
    /\ boot' = {e \in Executions : db[e] = "new"}
    /\ UNCHANGED <<queueVars, runVars, entryVars, workflowVars, stopVars>>

-----------------------------------------------------------------------------

RunStep(r) ==
    \/ Reserve(r) \/ SetRunning(r) \/ ResumeRow(r) \/ Register(r)
    \/ FailExecution(r) \/ SetRunningAgain(r) \/ StartFails(r) \/ LateSave(r)
    \/ StartWorkflow(r) \/ WorkflowEnds(r) \/ Finalize(r) \/ SaveCanceled(r)
    \/ AddThrows(r) \/ PreparationThrows(r) \/ AttachThrows(r) \/ SaveThrows(r)

StopStep(e) == StopInRegularMode(e) \/ StopWrite(e) \/ StopThrows(e)

Next ==
    \/ \E r \in Calls, e \in Executions : Create(r, e) \/ Resume(r, e) \/ RunEnqueued(r, e)
    \/ \E r \in Calls : RunStep(r) \/ PutExecutionToWait(r) \/ Timeout(r)
    \/ \E e \in Executions : StopRequest(e) \/ StopStep(e)
    \/ Shutdown \/ Exit \/ Crash \/ Start

Spec == Init /\ [][Next]_vars

(* Promises and database updates settle, nodes end, and start-up runs what *)
(* it found; nothing forces a request, a timeout or a crash.               *)
FairSpec ==
    /\ Spec
    /\ \A r \in Calls : WF_vars(RunStep(r))
    /\ \A e \in Executions :
         WF_vars(StopStep(e)) /\ WF_vars(\E r \in Calls : RunEnqueued(r, e))
    /\ WF_vars(Exit)

-----------------------------------------------------------------------------
(* Properties.                                                             *)

Working(r) == pc[r] \in {"updated", "registered", "starting", "running"}

(* However many webhooks, timers and restarts resume an execution, at most *)
(* one call of run executes it at any time.                                *)
AtMostOneRun ==
    \A r1, r2 \in Calls :
        (Working(r1) /\ Working(r2) /\ exec[r1] = exec[r2]) => r1 = r2

(* An execution that is throttled when the shutdown begins is not started  *)
(* by it: executions that finish no longer release capacity to the queue.  *)
NoStartWhileDraining ==
    [][phase = "draining" =>
         \A r \in Calls : slot[r] = "queued" => slot'[r] # "held"]_vars

(* The result of a run never replaces the status of a canceled execution;  *)
(* only the two unconditional setRunning can leave that status.            *)
ResultNeverReplacesCanceled ==
    [][\A e \in Executions :
         db[e] = "canceled" => db'[e] \in {"canceled", "running"}]_vars

(* A finished execution is not run again, whatever stale resume or queued  *)
(* call is still under way; a late stop can only mark it canceled.         *)
FinishedStaysFinished ==
    [][\A e \in Executions :
         db[e] \in {"success", "error", "crashed"} => db'[e] \in {db[e], "canceled"}]_vars

(* A call of run that has begun and been given up: run has rejected before *)
(* its `try`, or a database call of it has thrown.                         *)
GivenUp(r) == pc[r] = "stranded" \/ r \in threw

(* No interleaving of runs, stops and timeouts leaves a row running for    *)
(* ever in a process that stays up, unless a call that ran it was given up.*)
RunningRowSettles ==
    \A e \in Executions :
        (phase = "up" /\ db[e] = "running" /\ starts = 0)
            ~> \/ phase # "up"
               \/ db[e] # "running"
               \/ \E r \in Calls : exec[r] = e /\ GivenUp(r)

(* Nobody gives back the slot of a run that was rejected before its `try`, *)
(* nor of one whose entry was waiting when a stop or a resume removed it.  *)
SlotLost(r) ==
    \/ pc[r] = "stranded"
    \/ r \in waiting /\ active[exec[r]] # r

(* Each slot that is taken while the process is up is on its way back: add *)
(* goes on with the call, or its entry is in the map, has not settled, and *)
(* the run that will finalize it goes on; only the two cases of SlotLost   *)
(* keep a slot for good.                                                   *)
SlotsAttended ==
    phase = "up" =>
        \A r \in Held :
            \/ pc[r] \in {"reserving", "updated"}
            \/ /\ active[exec[r]] = r /\ r \notin settled
               /\ pc[r] \in {"registered", "starting", "running", "saved", "failed"}
            \/ SlotLost(r)

(* The executions that the limit holds back are all let through or stopped *)
(* once no more of them are started (Calls is finite), unless the process  *)
(* ends or a slot is lost.                                                 *)
QueueEmpties ==
    (queue # <<>> /\ phase = "up")
        ~> \/ queue = <<>>
           \/ phase # "up"
           \/ \E r \in Held : SlotLost(r)

(* The comment of hookFunctionsSave: "A completed run must never overwrite *)
(* a status the user already canceled".                                    *)
StoppedStaysStopped ==
    \A e \in stopped : db[e] \notin {"success", "error", "waiting"}

(* The comment of runEnqueuedExecutions: "start running any such           *)
(* executions concurrently up to the concurrency limit, and enqueue any    *)
(* remaining ones".                                                        *)
EnqueuedRunsAfterRestart ==
    \A e \in Executions :
        (e \in boot) ~> (db[e] # "new" \/ phase # "up")
=============================================================================
