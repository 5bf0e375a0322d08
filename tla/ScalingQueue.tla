---------------------------- MODULE ScalingQueue ----------------------------
(***************************************************************************)
(* Executions in queue mode: mains put them into a Bull queue, workers run *)
(* them, and the leader recovers what is in no queue any more.             *)
(*                                                                         *)
(*   cli/src/workflow-runner.ts             enqueueExecution, processError *)
(*   cli/src/scaling/scaling.service.ts     the queue, its messages, recovery *)
(*   cli/src/scaling/job-processor.ts       a job on a worker              *)
(*   cli/src/executions/execution.service.ts   stopping                    *)
(*                                                                         *)
(* An action is what happens between two awaits.  Roles change as          *)
(* InstanceRole allows.                                                    *)
(***************************************************************************)
EXTENDS InstanceRole, Naturals

CONSTANTS
    Workers,
    Executions,
    None,
    MaxTrouble      \* bound: step-downs, ends of processes, stops by users, and
                    \*   commands or queries that fail

ASSUME ScalingAssumption == None \notin Mains /\ MaxTrouble \in Nat

VARIABLES
    status,     \* the row of each execution
    owner,      \* the main that called `run` for it
    call,       \* how far its enqueueExecution has come
    entry,      \* executions that the owner's activeExecutions holds
    told,       \* history: what the owner's post-execution promise settled with
    stopJob,    \* the next step of stopJob, called when the owner cancels
    stopping,   \* stops that have yet to write the row, with their main
    job,        \* Bull's state of each job
    work,       \* jobs on workers, and the next step of each
    aborts,     \* abort-job messages under way
    message,    \* job-finished messages under way
    result,     \* jobResults of the owner
    timer,      \* mains whose queueRecoveryContext.timeout is set
    older,      \* mains with a timeout that was overwritten while set
    recoveries, \* calls of recoverFromQueue between two of their awaits
    trouble

callVars == <<owner, call, entry, told, result>>
stopVars == <<stopJob, stopping>>
queueVars == <<job, aborts, message>>
recoveryVars == <<timer, older, recoveries>>
vars == <<roleVars, status, callVars, stopVars, queueVars, work, recoveryVars, trouble>>

Outcomes == {"success", "error", "canceled"}

Work == [worker : Workers, exec : Executions,
         next : {"read", "set", "register", "running", "cancelling", "sent"} \cup Outcomes]

(* `ids` are the stored ids before, and the dangling ids after the queue   *)
(* was read.                                                               *)
Recoveries == [main : Mains, ids : SUBSET Executions, next : {"queue", "mark"}]

ScalingTypeOK ==
    /\ RoleTypeOK
    /\ status \in [Executions -> {"none", "new", "running", "crashed"} \cup Outcomes]
    /\ owner \in [Executions -> Mains \cup {None}]
    /\ call \in [Executions -> {"none", "adding", "awaiting", "reading", "sanity", "failing", "left"}]
    /\ entry \subseteq {e \in Executions : owner[e] # None}
    /\ told \in [Executions -> {"none", "new", "running", "crashed"} \cup Outcomes]
    /\ stopJob \in [Executions -> {"none", "check", "abort", "remove"}]
    /\ stopping \subseteq Mains \X Executions
    /\ job \in [Executions -> {"none", "waiting", "active", "completed", "failed", "stalled",
                               "canceled", "removed"}]
    /\ work \subseteq Work
    /\ aborts \subseteq Executions
    /\ message \in [Executions -> {"none", "success", "error"}]
    /\ result \in [Executions -> {"none", "success", "error"}]
    /\ timer \subseteq Mains /\ older \subseteq Mains
    /\ recoveries \subseteq Recoveries
    /\ trouble \in 0..MaxTrouble

Init ==
    /\ RoleInit
    /\ status = [e \in Executions |-> "none"]
    /\ owner = [e \in Executions |-> None]
    /\ call = [e \in Executions |-> "none"]
    /\ told = [e \in Executions |-> "none"]
    /\ stopJob = [e \in Executions |-> "none"]
    /\ job = [e \in Executions |-> "none"]
    /\ message = [e \in Executions |-> "none"]
    /\ result = [e \in Executions |-> "none"]
    /\ entry = {} /\ stopping = {} /\ work = {} /\ aborts = {}
    /\ timer = {} /\ older = {} /\ recoveries = {}
    /\ trouble = 0

Trouble == trouble < MaxTrouble /\ trouble' = trouble + 1

-----------------------------------------------------------------------------
(* enqueueExecution on the owner.                                          *)

(* run: the row is inserted and the entry is made.                         *)
Run(m, e) ==
    /\ process[m] = "up" /\ role[m] # "unset"
    /\ status[e] = "none"
    /\ status' = [status EXCEPT ![e] = "new"]
    /\ owner' = [owner EXCEPT ![e] = m]
    /\ call' = [call EXCEPT ![e] = "adding"]
    /\ entry' = entry \cup {e}
    /\ UNCHANGED <<roleVars, told, result, stopVars, queueVars, work, recoveryVars, trouble>>

AddJob(e) ==
    /\ call[e] = "adding"
    /\ call' = [call EXCEPT ![e] = "awaiting"]
    /\ job' = [job EXCEPT ![e] = "waiting"]
    /\ UNCHANGED <<roleVars, status, owner, entry, told, result, stopVars, aborts, message, work,
                   recoveryVars, trouble>>

(* The command fails, or its reply is lost.                                *)
AddJobFails(e) ==
    /\ Trouble
    /\ call[e] = "adding"
    /\ call' = [call EXCEPT ![e] = "sanity"]
    /\ \E j \in {"none", "waiting"} : job' = [job EXCEPT ![e] = j]
    /\ UNCHANGED <<roleVars, status, owner, entry, told, result, stopVars, aborts, message, work,
                   recoveryVars>>

(* finalizeExecution: only an entry that is still there has a promise.     *)
Finalize(e, r) ==
    /\ entry' = entry \ {e}
    /\ told' = IF e \in entry THEN [told EXCEPT ![e] = r] ELSE told

(* Mutant of JobCompleted: it relies on the message.                       *)
JobCompletedByMessage(e) ==
    /\ result[e] # "none"
    /\ Finalize(e, result[e])
    /\ call' = [call EXCEPT ![e] = "left"]
    /\ result' = [result EXCEPT ![e] = "none"]

(* popJobResult; without a result, or when more than it is needed, the row *)
(* is read.                                                                *)
JobCompleted(e) ==
    /\ result' = [result EXCEPT ![e] = "none"]
    /\ \/ /\ result[e] # "none"
          /\ Finalize(e, result[e])
          /\ call' = [call EXCEPT ![e] = "left"]
       \/ /\ call' = [call EXCEPT ![e] = "reading"]
          /\ UNCHANGED <<entry, told>>

(* job.finished(): resolved, rejected with an error, or rejected with one  *)
(* that says "cancelled", which processError takes for the owner's own.    *)
Finished(e) ==
    /\ call[e] = "awaiting"
    /\ \/ job[e] = "completed" /\ JobCompleted(e)
       \/ /\ job[e] \in {"failed", "stalled"}
          /\ call' = [call EXCEPT ![e] = "sanity"]
          /\ UNCHANGED <<entry, told, result>>
       \/ /\ job[e] = "canceled"
          /\ call' = [call EXCEPT ![e] = "left"]
          /\ result' = [result EXCEPT ![e] = "none"]
          /\ UNCHANGED <<entry, told>>
    /\ UNCHANGED <<roleVars, status, owner, stopVars, queueVars, work, recoveryVars, trouble>>

(* Mutant of RowResult: the state of the job is returned.                  *)
JobState(e) == job[e]

RowResult(e) == status[e]

ReadResult(e) ==
    /\ call[e] = "reading"
    /\ call' = [call EXCEPT ![e] = "left"]
    /\ Finalize(e, RowResult(e))
    /\ UNCHANGED <<roleVars, status, owner, result, stopVars, queueVars, work, recoveryVars, trouble>>

(* processError: an execution that has succeeded is left as it is.         *)
SanityRun(e) ==
    /\ call[e] = "sanity"
    /\ IF status[e] = "success"
       THEN /\ call' = [call EXCEPT ![e] = "left"]
            /\ result' = [result EXCEPT ![e] = "none"]
            /\ UNCHANGED <<entry, told>>
       ELSE /\ call' = [call EXCEPT ![e] = "failing"]
            /\ Finalize(e, "error")
            /\ UNCHANGED result
    /\ UNCHANGED <<roleVars, status, owner, stopVars, queueVars, work, recoveryVars, trouble>>

SaveError(e) ==
    /\ call[e] = "failing"
    /\ status' = [status EXCEPT ![e] = "error"]
    /\ call' = [call EXCEPT ![e] = "left"]
    /\ result' = [result EXCEPT ![e] = "none"]
    /\ UNCHANGED <<roleVars, owner, entry, told, stopVars, queueVars, work, recoveryVars, trouble>>

(* The global:progress listener.  Events and the check that job.finished() *)
(* makes by itself come in any order.                                      *)
JobFinishedMessage(e) ==
    /\ message[e] # "none"
    /\ message' = [message EXCEPT ![e] = "none"]
    /\ result' = IF call[e] = "none" THEN result ELSE [result EXCEPT ![e] = message[e]]
    /\ UNCHANGED <<roleVars, status, owner, call, entry, told, stopVars, job, aborts, work,
                   recoveryVars, trouble>>

-----------------------------------------------------------------------------
(* Stopping.                                                               *)

(* stop on any main.  Only the owner holds the entry: it rejects the       *)
(* promise and cancels the call, which runs stopJob if it was attached.    *)
Stop(m, e) ==
    /\ Trouble
    /\ process[m] = "up" /\ role[m] # "unset"
    /\ status[e] \in {"new", "running"}
    /\ stopping' = stopping \cup {<<m, e>>}
    /\ IF owner[e] = m /\ e \in entry
       THEN /\ Finalize(e, "canceled")
            /\ stopJob' = IF call[e] = "awaiting" THEN [stopJob EXCEPT ![e] = "check"] ELSE stopJob
       ELSE UNCHANGED <<entry, told, stopJob>>
    /\ UNCHANGED <<roleVars, status, owner, call, result, queueVars, work, recoveryVars>>

(* stopDuringRun.                                                          *)
StopWrite(m, e) ==
    /\ <<m, e>> \in stopping
    /\ stopping' = stopping \ {<<m, e>>}
    /\ status' = [status EXCEPT ![e] = "canceled"]
    /\ UNCHANGED <<roleVars, callVars, stopJob, queueVars, work, recoveryVars, trouble>>

(* stopJob asks whether the job is active ...                              *)
CheckJob(e) ==
    /\ stopJob[e] = "check"
    /\ stopJob' = [stopJob EXCEPT ![e] = IF job[e] = "active" THEN "abort" ELSE "remove"]
    /\ UNCHANGED <<roleVars, status, callVars, stopping, queueVars, work, recoveryVars, trouble>>

(* ... to tell its worker ...                                              *)
AbortJob(e) ==
    /\ stopJob[e] = "abort"
    /\ stopJob' = [stopJob EXCEPT ![e] = "none"]
    /\ aborts' = aborts \cup {e}
    /\ UNCHANGED <<roleVars, status, callVars, stopping, job, message, work, recoveryVars, trouble>>

(* Mutant of Removable: without Bull's lock.                               *)
RemovableWhenActive(e) == job[e] \in {"waiting", "active"}

(* Jobs that Bull lets remove: not those a worker has locked.              *)
Removable(e) == job[e] = "waiting"

(* ... or to remove it; an error is logged.                                *)
RemoveJob(e) ==
    /\ stopJob[e] = "remove"
    /\ stopJob' = [stopJob EXCEPT ![e] = "none"]
    /\ job' = IF Removable(e) THEN [job EXCEPT ![e] = "removed"] ELSE job
    /\ UNCHANGED <<roleVars, status, callVars, stopping, aborts, message, work, recoveryVars, trouble>>

-----------------------------------------------------------------------------
(* Workers: processJob.                                                    *)

NextStep(x, n) == work' = (work \ {x}) \cup {[x EXCEPT !.next = n]}

(* The job leaves the worker.  Bull ends it only if the lock still holds.  *)
EndJob(x, s) ==
    /\ work' = work \ {x}
    /\ job' = IF job[x.exec] = "active" THEN [job EXCEPT ![x.exec] = s] ELSE job

Pick(w, e) ==
    /\ job[e] = "waiting"
    /\ job' = [job EXCEPT ![e] = "active"]
    /\ work' = work \cup {[worker |-> w, exec |-> e, next |-> "read"]}
    /\ UNCHANGED <<roleVars, status, callVars, stopVars, aborts, message, recoveryVars, trouble>>

(* A crashed execution is not processed.                                   *)
ReadRow(x) ==
    /\ x.next = "read"
    /\ IF status[x.exec] = "crashed"
       THEN EndJob(x, "completed")
       ELSE NextStep(x, "set") /\ UNCHANGED job
    /\ UNCHANGED <<roleVars, status, callVars, stopVars, aborts, message, recoveryVars, trouble>>

SetRunning(x) ==
    /\ x.next = "set"
    /\ NextStep(x, "register")
    /\ status' = [status EXCEPT ![x.exec] = "running"]
    /\ UNCHANGED <<roleVars, callVars, stopVars, queueVars, recoveryVars, trouble>>

(* The run starts, and from now on stopJob of the worker knows it.         *)
Register(x) ==
    /\ x.next = "register"
    /\ NextStep(x, "running")
    /\ UNCHANGED <<roleVars, status, callVars, stopVars, queueVars, recoveryVars, trouble>>

ReceiveAbort(e) ==
    /\ e \in aborts
    /\ aborts' = aborts \ {e}
    /\ work' = {IF x.exec = e /\ x.next = "running" THEN [x EXCEPT !.next = "cancelling"] ELSE x :
                    x \in work}
    /\ UNCHANGED <<roleVars, status, callVars, stopVars, job, message, recoveryVars, trouble>>

(* The workflow has run, or was cancelled or timed out, and its hook saves *)
(* it whatever the row says.                                               *)
RunEnds(x) ==
    /\ \E r \in Outcomes :
          /\ x.next = "running" \/ (x.next = "cancelling" /\ r = "canceled")
          /\ NextStep(x, r)
          /\ status' = [status EXCEPT ![x.exec] = r]
    /\ UNCHANGED <<roleVars, callVars, stopVars, queueVars, recoveryVars, trouble>>

Report(x) ==
    /\ \/ /\ x.next \in {"success", "error"}
          /\ message' = [message EXCEPT ![x.exec] = x.next]
          /\ NextStep(x, "sent")
          /\ UNCHANGED job
       \/ /\ x.next = "canceled"
          /\ EndJob(x, "canceled")
          /\ UNCHANGED message
    /\ UNCHANGED <<roleVars, status, callVars, stopVars, aborts, recoveryVars, trouble>>

Complete(x) ==
    /\ x.next = "sent"
    /\ EndJob(x, "completed")
    /\ UNCHANGED <<roleVars, status, callVars, stopVars, aborts, message, recoveryVars, trouble>>

(* A query fails before the run.                                           *)
TaskFails(x) ==
    /\ Trouble
    /\ x.next \in {"read", "set", "register"}
    /\ EndJob(x, "failed")
    /\ UNCHANGED <<roleVars, status, callVars, stopVars, aborts, message, recoveryVars>>

CrashWorker(w) ==
    /\ Trouble
    /\ \E x \in work : x.worker = w
    /\ work' = {x \in work : x.worker # w}
    /\ UNCHANGED <<roleVars, status, callVars, stopVars, queueVars, recoveryVars>>

(* Mutant of Stalled: Bull's default.                                      *)
StalledRetried(e) == job' = [job EXCEPT ![e] = "waiting"]

(* With a maxStalledCount of 0 a stalled job fails at once.                *)
Stalled(e) == job' = [job EXCEPT ![e] = "stalled"]

(* Bull finds an active job without a lock: its worker crashed, or is too  *)
(* busy to renew it.                                                       *)
Stall(e) ==
    /\ job[e] = "active"
    /\ Stalled(e)
    /\ IF \E x \in work : x.exec = e THEN Trouble ELSE UNCHANGED trouble
    /\ UNCHANGED <<roleVars, status, callVars, stopVars, aborts, message, work, recoveryVars>>

-----------------------------------------------------------------------------
(* Recovery.                                                               *)

(* scheduleQueueRecovery forgets a timeout that is still set.              *)
Schedule(m) ==
    /\ timer' = timer \cup {m}
    /\ older' = IF m \in timer THEN older \cup {m} ELSE older

(* The timeout runs recoverFromQueue up to its second command; without any *)
(* stored ids, the next cycle is scheduled.                                *)
RecoveryFires(m) ==
    LET ids == {e \in Executions : status[e] \in {"new", "running"}}
    IN  /\ m \in timer \cup older
        /\ IF ids = {}
           THEN UNCHANGED recoveryVars
           ELSE /\ IF m \in timer
                   THEN timer' = timer \ {m} /\ UNCHANGED older
                   ELSE older' = older \ {m} /\ UNCHANGED timer
                /\ recoveries' = recoveries \cup {[main |-> m, ids |-> ids, next |-> "queue"]}
        /\ UNCHANGED <<roleVars, status, callVars, stopVars, queueVars, work, trouble>>

(* Mutant of Queued: every job that Bull has kept.                         *)
QueuedOrKept(e) == job[e] \notin {"none", "removed"}

Queued(e) == job[e] \in {"active", "waiting"}

(* Ids without a job dangle; without any, the next cycle is scheduled.     *)
RecoverQueue(r) ==
    LET dangling == {e \in r.ids : ~Queued(e)}
    IN  /\ r.next = "queue"
        /\ IF dangling = {}
           THEN recoveries' = recoveries \ {r} /\ Schedule(r.main)
           ELSE /\ recoveries' = (recoveries \ {r}) \cup {[r EXCEPT !.ids = dangling, !.next = "mark"]}
                /\ UNCHANGED <<timer, older>>
        /\ UNCHANGED <<roleVars, status, callVars, stopVars, queueVars, work, trouble>>

(* Mutant of Crashable.                                                    *)
CrashableAlways(e) == TRUE

(* markAsCrashed.                                                          *)
Crashable(e) == status[e] \in {"new", "running"}

RecoverMark(r) ==
    /\ r.next = "mark"
    /\ recoveries' = recoveries \ {r}
    /\ status' = [e \in Executions |-> IF e \in r.ids /\ Crashable(e) THEN "crashed" ELSE status[e]]
    /\ Schedule(r.main)
    /\ UNCHANGED <<roleVars, callVars, stopVars, queueVars, work, trouble>>

RecoveryFails(r) ==
    /\ Trouble
    /\ recoveries' = recoveries \ {r}
    /\ Schedule(r.main)
    /\ UNCHANGED <<roleVars, status, callVars, stopVars, queueVars, work>>

-----------------------------------------------------------------------------
(* Mains.                                                                  *)

Start(m) ==
    /\ StartProcess(m)
    /\ UNCHANGED <<status, callVars, stopVars, queueVars, work, recoveryVars, trouble>>

(* The first role, with which setupQueue schedules the recovery.           *)
GetRole(m) ==
    /\ \/ FirstRole(m, "leader") /\ Schedule(m)
       \/ FirstRole(m, "follower") /\ UNCHANGED <<timer, older>>
    /\ UNCHANGED <<status, callVars, stopVars, queueVars, work, recoveries, trouble>>

TakeOver(m) ==
    /\ TakeOverAsLeader(m)
    /\ Schedule(m)
    /\ UNCHANGED <<status, callVars, stopVars, queueVars, work, recoveries, trouble>>

(* stopQueueRecovery.                                                      *)
StepDown(m) ==
    /\ Trouble
    /\ StepDownToFollower(m)
    /\ timer' = timer \ {m}
    /\ UNCHANGED <<status, callVars, stopVars, queueVars, work, older, recoveries>>

(* Everything the process held in memory is gone.                          *)
End(m) ==
    LET own == {e \in Executions : owner[e] = m}
    IN  /\ Trouble
        /\ EndProcess(m) /\ BecomeRole(m, "unset")
        /\ call' = [e \in Executions |-> IF e \in own THEN "left" ELSE call[e]]
        /\ entry' = entry \ own
        /\ result' = [e \in Executions |-> IF e \in own THEN "none" ELSE result[e]]
        /\ stopJob' = [e \in Executions |-> IF e \in own THEN "none" ELSE stopJob[e]]
        /\ stopping' = {s \in stopping : s[1] # m}
        /\ timer' = timer \ {m} /\ older' = older \ {m}
        /\ recoveries' = {r \in recoveries : r.main # m}
        /\ UNCHANGED <<status, owner, told, queueVars, work>>

-----------------------------------------------------------------------------

MainNext ==
    \E m \in Mains :
        \/ Start(m) \/ GetRole(m) \/ TakeOver(m) \/ StepDown(m) \/ End(m)
        \/ RecoveryFires(m)
        \/ \E e \in Executions : Run(m, e) \/ Stop(m, e) \/ StopWrite(m, e)

CallNext ==
    \E e \in Executions :
        \/ AddJob(e) \/ AddJobFails(e) \/ Finished(e) \/ ReadResult(e) \/ SanityRun(e) \/ SaveError(e)
        \/ JobFinishedMessage(e)
        \/ CheckJob(e) \/ AbortJob(e) \/ RemoveJob(e)

(* What a worker does with a job it has.                                   *)
Process(x) ==
    ReadRow(x) \/ SetRunning(x) \/ Register(x) \/ RunEnds(x) \/ Report(x) \/ Complete(x)

WorkerNext ==
    \/ \E w \in Workers : CrashWorker(w) \/ (\E e \in Executions : Pick(w, e))
    \/ \E x \in work : Process(x) \/ TaskFails(x)
    \/ \E e \in Executions : ReceiveAbort(e) \/ Stall(e)

RecoveryNext == \E r \in recoveries : RecoverQueue(r) \/ RecoverMark(r) \/ RecoveryFails(r)

Next == MainNext \/ CallNext \/ WorkerNext \/ RecoveryNext

Spec == Init /\ [][Next]_vars

(* Promises settle, timers fire, workers take jobs and runs end, Bull      *)
(* checks for orphaned jobs, and processes are started again.  The last    *)
(* conjunct is the promise of the election.  Messages may get lost.        *)
Fairness ==
    /\ \A e \in Executions :
          /\ WF_vars(AddJob(e)) /\ WF_vars(Finished(e)) /\ WF_vars(ReadResult(e))
          /\ WF_vars(SanityRun(e)) /\ WF_vars(SaveError(e))
          /\ WF_vars(CheckJob(e) \/ AbortJob(e) \/ RemoveJob(e))
          /\ WF_vars(\E w \in Workers : Pick(w, e))
          /\ WF_vars(\E x \in work : x.exec = e /\ Process(x))
          /\ WF_vars(~(\E x \in work : x.exec = e) /\ Stall(e))
    /\ \A m \in Mains :
          /\ WF_vars(RecoveryFires(m))
          /\ WF_vars(\E r \in recoveries : r.main = m /\ (RecoverQueue(r) \/ RecoverMark(r)))
          /\ WF_vars(Start(m)) /\ WF_vars(GetRole(m))
          /\ WF_vars((\A n \in Mains : role[n] # "leader") /\ TakeOver(m))

FairSpec == Spec /\ Fairness

-----------------------------------------------------------------------------
(* Properties.                                                             *)

(* A job is processed by one worker at a time: a job whose lock was lost   *)
(* while its worker still runs it is not handed out again                  *)
(* (scaling.service.ts setupQueue, maxStalledCount).                       *)
OneWorkerRuns == \A x, y \in work : x.exec = y.exec => x = y

(* A success that was returned to the caller of an execution stays in the  *)
(* database, unless a user has stopped it: no recovery cycle, late error   *)
(* or other worker overwrites it.                                          *)
SuccessIsKept == \A e \in Executions : told[e] = "success" => status[e] \in {"success", "canceled"}

(* An execution whose job was removed from the queue is on no worker, and  *)
(* has not been on one.                                                    *)
RemovedNeverRuns ==
    \A e \in Executions :
        job[e] = "removed" =>
            /\ \A x \in work : x.exec # e
            /\ status[e] \in {"new", "canceled", "crashed"}

(* The row of an execution does not stay new or running, whichever of the  *)
(* processes that could have written it has gone.                          *)
RowsSettle ==
    \A e \in Executions : status[e] \in {"new", "running"} ~> status[e] \notin {"new", "running"}

(* processError returned early; a stop may still write the row.            *)
Abandoned(e) ==
    call[e] = "left" /\ (job[e] = "canceled" \/ status[e] \in {"success", "canceled"})

(* The caller of an execution is answered even if the job-finished message *)
(* got lost or the worker crashed; the exceptions are the early returns of *)
(* processError.                                                           *)
CallsEnd == \A e \in Executions : e \in entry ~> (e \notin entry \/ Abandoned(e))
=============================================================================
