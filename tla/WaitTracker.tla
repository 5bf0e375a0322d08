----------------------------- MODULE WaitTracker -----------------------------
(***************************************************************************)
(* Executions that wait, and the mains that resume them.                   *)
(*                                                                         *)
(*   cli/src/wait-tracker.ts             timers, resuming, parents         *)
(*   cli/src/active-executions.ts        the conditional update of `add`   *)
(*   cli/src/webhooks/waiting-webhooks.ts  resuming by a call              *)
(*   cli/src/workflow-helpers.ts         handing a child's output over     *)
(*   cli/src/commands/start.ts           the order of start-up             *)
(*                                                                         *)
(* Every main has a tracker; the one that leads polls the database and     *)
(* sets a timer for each execution whose wait is about to end.  Roles      *)
(* change as InstanceRole allows, so for a while two mains may lead.       *)
(*                                                                         *)
(* Resumed executions run on workers; what a worker writes to the row it   *)
(* writes whatever the row says.                                           *)
(*                                                                         *)
(* A query takes effect when it is sent and is continued later; between    *)
(* the two anything can happen.  Waits of one execution are numbered, and  *)
(* a timer is named by the wait it was set for.                            *)
(***************************************************************************)
EXTENDS InstanceRole, Naturals

CONSTANTS
    Executions,
    Parent,         \* the execution that each sub-workflow execution resumes
    None,
    MaxWaits,       \* bound: waits of one execution
    MaxAttempts,    \* MAX_PARENT_RESUME_ATTEMPTS
    MaxTrouble      \* bound: step-downs, ends of processes, operations of the
                    \*   database or the queue that fail, and stops by users

ASSUME WaitAssumption ==
    /\ {None, "timer", "webhook"} \cap Executions = {}
    /\ Parent \in [Executions -> Executions \cup {None}]
    /\ MaxWaits \in Nat \ {0} /\ MaxAttempts \in Nat \ {0}
    /\ MaxTrouble \in Nat

Waits == 1..MaxWaits

VARIABLES
    status,     \* row of each execution: its status ("ended" unless it succeeded),
    until,      \*   how far away waitTill is,
    data,       \*   and whose output its stack holds
    wait,       \* the number of its current or last wait
    called,     \* waiting executions that a webhook call resumes as well
    stopping,   \* executions that a stop under way will mark as canceled
    boot,       \* how far the start of each main has come
    mainTimer,  \* this.mainTimer
    leaked,     \* mains with an older interval that nothing can clear
    found,      \* results of queries that are still to be looked at
    entry,      \* this.waitingExecutions: the wait its timer was set for
    armed,      \* timers that are set
    resuming,   \* calls of startExecution that have read the row
    parents,    \* calls of resumeParentExecution
    runs,       \* runs of resumed executions, with the main that resumed them
    jobs,       \*   of which no worker has begun these
    trouble

rowVars == <<status, until, data, wait, called, stopping>>
trackerVars == <<mainTimer, leaked, found, entry, armed>>
resumeVars == <<resuming, parents, runs, jobs>>
vars == <<roleVars, rowVars, boot, trackerVars, resumeVars, trouble>>

Timers == Mains \X Executions \X Waits

(* A call of startExecution: by a timer, a webhook call or the child that  *)
(* `by` names; `output` is what it read of the row.                        *)
Resumes == [main : Mains, exec : Executions, by : Executions \cup {"timer", "webhook"},
            output : {"own", "child"}]

(* A call of resumeParentExecution for a child, and what comes next in it. *)
ParentResumes == [main : Mains, child : {c \in Executions : Parent[c] # None},
                  wait : 0..MaxWaits, attempt : 1..MaxAttempts,
                  next : {"child", "read", "write", "start", "starting"}]

WaitTypeOK ==
    /\ RoleTypeOK
    /\ status \in [Executions -> {"waiting", "running", "success", "ended"}]
    /\ until \in [Executions -> {"indefinite", "later", "soon", "due"}]
    /\ data \in [Executions -> {"own", "child"}]
    /\ wait \in [Executions -> Waits]
    /\ called \subseteq Executions /\ stopping \subseteq Executions
    /\ boot \in [Mains -> {"starting", "tracking", "listening"}]
    /\ mainTimer \in [Mains -> {"none", "running", "cleared"}]
    /\ leaked \subseteq Mains
    /\ found \in [Mains -> SUBSET (Executions \X Waits)]
    /\ entry \in [Mains -> [Executions -> 0..MaxWaits]]
    /\ armed \subseteq Timers
    /\ resuming \subseteq Resumes
    /\ parents \subseteq ParentResumes
    /\ runs \subseteq Mains \X Executions /\ jobs \subseteq Executions
    /\ trouble \in 0..MaxTrouble

Children(e) == {c \in Executions : Parent[c] = e}

(* An execution waits for its children, for a time, or for a call.         *)
Init ==
    /\ RoleInit
    /\ status = [e \in Executions |-> "waiting"]
    /\ data = [e \in Executions |-> "own"]
    /\ wait = [e \in Executions |-> 1]
    /\ until \in [Executions -> {"indefinite", "later"}]
    /\ called \in SUBSET Executions
    /\ \A e \in Executions :
          IF Children(e) # {} THEN until[e] = "indefinite" /\ e \notin called
                              ELSE until[e] = "indefinite" => e \in called
    /\ boot = [m \in Mains |-> "starting"]
    /\ mainTimer = [m \in Mains |-> "none"]
    /\ leaked = {}
    /\ found = [m \in Mains |-> {}]
    /\ entry = [m \in Mains |-> [e \in Executions |-> 0]]
    /\ stopping = {} /\ armed = {} /\ resuming = {} /\ parents = {} /\ runs = {}
    /\ jobs = {}
    /\ trouble = 0

-----------------------------------------------------------------------------
(* Polling.                                                                *)

(* getWaitingExecutions: the query, for waits that end within 70 seconds.  *)
Upcoming == {<<e, wait[e]>> : e \in {x \in Executions : status[x] = "waiting"
                                                         /\ until[x] \in {"soon", "due"}}}

QueryDatabase(m) == found' = [found EXCEPT ![m] = @ \cup Upcoming]

(* The interval of 60 seconds.                                             *)
Poll(m) ==
    /\ process[m] = "up"
    /\ mainTimer[m] = "running" \/ m \in leaked
    /\ QueryDatabase(m)
    /\ UNCHANGED <<roleVars, rowVars, boot, mainTimer, leaked, entry, armed, resumeVars, trouble>>

(* Mutant of AddTimers: the entry is written, the timer is not set.        *)
AddEntriesOnly(m) ==
    /\ entry' = [entry EXCEPT ![m] = [e \in Executions |->
          IF entry[m][e] = 0 /\ \E w \in Waits : <<e, w>> \in found[m]
          THEN CHOOSE w \in Waits : <<e, w>> \in found[m] ELSE entry[m][e]]]
    /\ UNCHANGED armed

(* The loop over the result: a timer for each execution without an entry.  *)
AddTimers(m) ==
    LET new(e) == {w \in Waits : entry[m][e] = 0 /\ <<e, w>> \in found[m]}
    IN  \E pick \in [Executions -> 0..MaxWaits] :
          /\ \A e \in Executions : IF new(e) = {} THEN pick[e] = 0 ELSE pick[e] \in new(e)
          /\ entry' = [entry EXCEPT ![m] =
                [e \in Executions |-> IF pick[e] = 0 THEN entry[m][e] ELSE pick[e]]]
          /\ armed' = armed \cup {<<m, e, pick[e]>> : e \in {x \in Executions : pick[x] # 0}}

Track(m) ==
    /\ found[m] # {}
    /\ AddTimers(m)
    /\ found' = [found EXCEPT ![m] = {}]
    /\ UNCHANGED <<roleVars, rowVars, boot, mainTimer, leaked, resumeVars, trouble>>

(* waitTill comes nearer.                                                  *)
Elapse(e) ==
    /\ until[e] \in {"later", "soon"}
    /\ until' = [until EXCEPT ![e] = IF @ = "later" THEN "soon" ELSE "due"]
    /\ UNCHANGED <<roleVars, status, data, wait, called, stopping, boot, trackerVars, resumeVars,
                   trouble>>
-----------------------------------------------------------------------------
(* Roles, start-up and the end of a process.                               *)

Trouble == trouble < MaxTrouble /\ trouble' = trouble + 1

(* startTracking sets a new interval, whether or not there is one, and     *)
(* polls at once.                                                          *)
StartTracking(m) ==
    /\ mainTimer' = [mainTimer EXCEPT ![m] = "running"]
    /\ leaked' = IF mainTimer[m] = "running" THEN leaked \cup {m} ELSE leaked
    /\ QueryDatabase(m)

(* stopTracking clears the interval and the timers; the entries stay.      *)
StopTracking(m) ==
    /\ mainTimer' = [mainTimer EXCEPT ![m] = IF @ = "none" THEN "none" ELSE "cleared"]
    /\ armed' = IF mainTimer[m] = "none" THEN armed
                ELSE armed \ {<<m, e, entry[m][e]>> : e \in Executions}

Start(m) ==
    /\ StartProcess(m)
    /\ UNCHANGED <<rowVars, boot, trackerVars, resumeVars, trouble>>

GetRole(m) ==
    /\ \E r \in {"leader", "follower"} : FirstRole(m, r)
    /\ UNCHANGED <<rowVars, boot, trackerVars, resumeVars, trouble>>

(* init *)
InitTracker(m) ==
    /\ process[m] = "up" /\ role[m] # "unset"
    /\ boot[m] = "starting"
    /\ boot' = [boot EXCEPT ![m] = "tracking"]
    /\ IF role[m] = "leader" THEN StartTracking(m) ELSE UNCHANGED <<mainTimer, leaked, found>>
    /\ UNCHANGED <<roleVars, rowVars, entry, armed, resumeVars, trouble>>

(* registerEventHandlers, later in the same start                          *)
RegisterEventHandlers(m) ==
    /\ boot[m] = "tracking"
    /\ boot' = [boot EXCEPT ![m] = "listening"]
    /\ UNCHANGED <<roleVars, rowVars, trackerVars, resumeVars, trouble>>

(* leader-takeover: heard once the handlers are registered                 *)
TakeOver(m) ==
    /\ TakeOverAsLeader(m)
    /\ IF boot[m] = "listening" THEN StartTracking(m) ELSE UNCHANGED <<mainTimer, leaked, found>>
    /\ UNCHANGED <<rowVars, boot, entry, armed, resumeVars, trouble>>

(* leader-stepdown *)
StepDown(m) ==
    /\ Trouble
    /\ StepDownToFollower(m)
    /\ IF boot[m] = "listening" THEN StopTracking(m) ELSE UNCHANGED <<mainTimer, armed>>
    /\ UNCHANGED <<rowVars, boot, leaked, found, entry, resumeVars>>

(* The process ends, from stopTracking in a shutdown or in a crash.  What  *)
(* it resumed goes on in a worker.                                         *)
End(m) ==
    /\ Trouble
    /\ EndProcess(m) /\ role'[m] = "unset"
    /\ boot' = [boot EXCEPT ![m] = "starting"]
    /\ mainTimer' = [mainTimer EXCEPT ![m] = "none"]
    /\ leaked' = leaked \ {m}
    /\ found' = [found EXCEPT ![m] = {}]
    /\ entry' = [entry EXCEPT ![m] = [e \in Executions |-> 0]]
    /\ armed' = {t \in armed : t[1] # m}
    /\ resuming' = {r \in resuming : r.main # m}
    /\ parents' = {t \in parents : t.main # m}
    /\ UNCHANGED <<rowVars, runs, jobs>>

-----------------------------------------------------------------------------
(* Resuming.                                                               *)

Resume(m, e, by) == [main |-> m, exec |-> e, by |-> by, output |-> data[e]]

(* startExecution up to the continuation of its query: the entry is        *)
(* deleted, a timer that may belong to it is left alone.                   *)
StartExecution(m, e, by) ==
    /\ entry' = [entry EXCEPT ![m][e] = 0]
    /\ resuming' = IF status[e] = "success" THEN resuming ELSE resuming \cup {Resume(m, e, by)}

(* A timer fires when the wait it was set for is over, or would have been. *)
TimerFires(m, e, w) ==
    /\ <<m, e, w>> \in armed
    /\ w = wait[e] => until[e] = "due"
    /\ armed' = armed \ {<<m, e, w>>}
    /\ StartExecution(m, e, "timer")
    /\ UNCHANGED <<roleVars, rowVars, boot, mainTimer, leaked, found, parents, runs, jobs,
                   trouble>>

(* executeWebhook of WaitingWebhooks, on any main.                         *)
ExecuteWebhook(m, e) ==
    /\ process[m] = "up" /\ boot[m] = "listening"
    /\ e \in called /\ status[e] = "waiting"
    /\ resuming' = resuming \cup {Resume(m, e, "webhook")}
    /\ UNCHANGED <<roleVars, rowVars, boot, trackerVars, parents, runs, jobs, trouble>>

(* The call of resumeParentExecution that awaits this startExecution.      *)
Caller(r) == {t \in parents : t.main = r.main /\ t.child = r.by /\ t.next = "starting"}

(* resumeParentExecution, called once the run has started.                 *)
ForParent(m, e) ==
    IF Parent[e] = None THEN {}
    ELSE {[main |-> m, child |-> e, wait |-> 0, attempt |-> 1, next |-> "child"]}

(* Mutant of IsResumable: the update has no condition.                     *)
IsAnything(e) == TRUE

(* requireStatus: 'waiting'                                                *)
IsResumable(e) == status[e] = "waiting"

(* add, and the job that is queued.  When the row no longer waits,         *)
(* ExecutionAlreadyResumingError ends the call.                            *)
Add(r) ==
    /\ r \in resuming
    /\ resuming' = resuming \ {r}
    /\ IF IsResumable(r.exec)
       THEN /\ status' = [status EXCEPT ![r.exec] = "running"]
            /\ data' = [data EXCEPT ![r.exec] = r.output]
            /\ runs' = runs \cup {<<r.main, r.exec>>}
            /\ jobs' = jobs \cup {r.exec}
            /\ parents' = (parents \ Caller(r)) \cup ForParent(r.main, r.exec)
       ELSE /\ parents' = parents \ Caller(r)
            /\ UNCHANGED <<status, data, runs, jobs>>
    /\ UNCHANGED <<roleVars, until, wait, called, stopping, boot, trackerVars, trouble>>

(* The run is refused before it starts (failExecution): its promise has no *)
(* result, so that a parent is not resumed.                                *)
Refuse(r) ==
    /\ r \in resuming
    /\ status[r.exec] = "waiting"
    /\ resuming' = resuming \ {r}
    /\ parents' = parents \ Caller(r)
    /\ status' = [status EXCEPT ![r.exec] = "ended"]
    /\ UNCHANGED <<roleVars, until, data, wait, called, stopping, boot, trackerVars, runs,
                   jobs, trouble>>

(* setRunning, as a worker begins the job: the row may have been stopped   *)
(* since it was updated.                                                   *)
SetRunning(e) ==
    /\ e \in jobs
    /\ jobs' = jobs \ {e}
    /\ status' = [status EXCEPT ![e] = "running"]
    /\ UNCHANGED <<roleVars, until, data, wait, called, stopping, boot, trackerVars, resuming,
                   parents, runs, trouble>>

(* A run ends, or its job fails before a worker begins it.  The row is     *)
(* saved, canceled meanwhile or not, and the promise on the main that      *)
(* resumed it settles.                                                     *)
Settled(m, e, resumes) ==
    {t \in parents : ~(t.main = m /\ t.child = e /\ t.next = "child")} \cup
    {[t EXCEPT !.next = "read"] : t \in {x \in parents : resumes /\ x.main = m /\ x.child = e
                                                          /\ x.next = "child"}}

Finish(m, e) ==
    /\ <<m, e>> \in runs
    /\ runs' = runs \ {<<m, e>>}
    /\ jobs' = jobs \ {e}
    /\ \E s \in IF e \in jobs THEN {"ended"} ELSE {"success", "ended"} :
         status' = [status EXCEPT ![e] = s]
    /\ data' = [data EXCEPT ![e] = "own"]
    /\ parents' = Settled(m, e, TRUE)
    /\ UNCHANGED <<roleVars, until, wait, called, stopping, boot, trackerVars, resuming, trouble>>

NextWait(e) ==
    /\ status' = [status EXCEPT ![e] = "waiting"]
    /\ wait' = [wait EXCEPT ![e] = @ + 1]
    /\ data' = [data EXCEPT ![e] = "own"]
    /\ \E u \in {"indefinite", "later"}, call \in BOOLEAN :
          /\ u = "indefinite" => call
          /\ until' = [until EXCEPT ![e] = u]
          /\ called' = IF call THEN called \cup {e} ELSE called \ {e}

WaitAgain(m, e) ==
    /\ <<m, e>> \in runs /\ e \notin jobs
    /\ wait[e] < MaxWaits
    /\ runs' = runs \ {<<m, e>>}
    /\ NextWait(e)
    /\ parents' = Settled(m, e, FALSE)
    /\ UNCHANGED <<roleVars, stopping, boot, trackerVars, resuming, jobs, trouble>>

(* stop, of an execution that waits: stopExecution clears timer and entry  *)
(* of this main, whichever main holds one.                                 *)
Stop(m, e) ==
    /\ process[m] = "up" /\ boot[m] = "listening"
    /\ status[e] = "waiting"
    /\ Trouble
    /\ armed' = armed \ {<<m, e, entry[m][e]>>}
    /\ entry' = [entry EXCEPT ![m][e] = 0]
    /\ stopping' = stopping \cup {e}
    /\ UNCHANGED <<roleVars, status, until, data, wait, called, boot, mainTimer, leaked, found,
                   resumeVars>>

(* stopDuringRun, whatever the row has become since it was read.           *)
StopDuringRun(e) ==
    /\ e \in stopping
    /\ stopping' = stopping \ {e}
    /\ status' = [status EXCEPT ![e] = "ended"]
    /\ UNCHANGED <<roleVars, until, data, wait, called, boot, trackerVars, resumeVars, trouble>>

-----------------------------------------------------------------------------
(* resumeParentExecution.                                                  *)

Proceed(t, next) ==
    /\ t \in parents
    /\ parents' = (parents \ {t}) \cup {next}

(* Mutant of ReadParent: the child's output is not handed over.            *)
ReadParentOnly(t) ==
    /\ t.next = "read"
    /\ Proceed(t, [t EXCEPT !.next = "start", !.attempt = 1, !.wait = wait[Parent[t.child]]])
    /\ UNCHANGED <<roleVars, rowVars, boot, trackerVars, resuming, runs, jobs, trouble>>

(* updateParentExecutionWithChildResults: only a waiting parent is changed. *)
ReadParent(t) ==
    LET parent == Parent[t.child]
    IN  /\ t.next = "read"
        /\ Proceed(t, IF status[parent] = "waiting"
                      THEN [t EXCEPT !.next = "write", !.wait = wait[parent]]
                      ELSE [t EXCEPT !.next = "start", !.attempt = 1])
        /\ UNCHANGED <<roleVars, rowVars, boot, trackerVars, resuming, runs, jobs, trouble>>

WriteParent(t) ==
    /\ t.next = "write"
    /\ data' = [data EXCEPT ![Parent[t.child]] = "child"]
    /\ Proceed(t, [t EXCEPT !.next = "start", !.attempt = 1])
    /\ UNCHANGED <<roleVars, status, until, wait, called, stopping, boot, trackerVars, resuming,
                   runs, jobs, trouble>>

(* startExecution of the parent.  If it has succeeded, an UnexpectedError  *)
(* ends the call.                                                          *)
StartParent(t) ==
    /\ t.next = "start"
    /\ StartExecution(t.main, Parent[t.child], t.child)
    /\ IF status[Parent[t.child]] = "success"
       THEN t \in parents /\ parents' = parents \ {t}
       ELSE Proceed(t, [t EXCEPT !.next = "starting"])
    /\ UNCHANGED <<roleVars, rowVars, boot, mainTimer, leaked, found, armed, runs, jobs,
                   trouble>>

(* Mutant of Retry: the first error is the last.                           *)
RetryNever(t, next) == {}

(* Mutant of Retry: nothing ends the attempts.                             *)
RetryForever(t, next) == {[t EXCEPT !.attempt = @ + 1, !.next = next]}

(* withRetry                                                               *)
Retry(t, next) ==
    IF t.attempt < MaxAttempts THEN {[t EXCEPT !.attempt = @ + 1, !.next = next]} ELSE {}

(* A step of resumeParentExecution fails: it is tried again, or the error  *)
(* is logged.                                                              *)
ParentStepFails(t) ==
    /\ Trouble
    /\ t \in parents /\ t.next \in {"read", "write", "start"}
    /\ parents' = (parents \ {t}) \cup Retry(t, IF t.next = "start" THEN "start" ELSE "read")
    /\ UNCHANGED <<roleVars, rowVars, boot, trackerVars, resuming, runs, jobs>>

(* startExecution fails before the row is updated.  Only a parent's start  *)
(* is tried again; the error of any other is not handled.                  *)
ResumeFails(r) ==
    /\ Trouble
    /\ r \in resuming
    /\ resuming' = resuming \ {r}
    /\ parents' = (parents \ Caller(r)) \cup UNION {Retry(t, "start") : t \in Caller(r)}
    /\ UNCHANGED <<roleVars, rowVars, boot, trackerVars, runs, jobs>>

-----------------------------------------------------------------------------

ProcessStep(m) ==
    \/ Start(m) \/ GetRole(m) \/ InitTracker(m) \/ RegisterEventHandlers(m)
    \/ TakeOver(m) \/ StepDown(m) \/ End(m) \/ Poll(m) \/ Track(m)

ExecutionStep(e) ==
    \/ Elapse(e) \/ SetRunning(e) \/ StopDuringRun(e)
    \/ \E m \in Mains : \/ ExecuteWebhook(m, e) \/ Finish(m, e) \/ WaitAgain(m, e) \/ Stop(m, e)
                        \/ \E w \in Waits : TimerFires(m, e, w)

ParentStep(t) == ReadParent(t) \/ WriteParent(t) \/ StartParent(t)

Next ==
    \/ \E m \in Mains : ProcessStep(m)
    \/ \E e \in Executions : ExecutionStep(e)
    \/ \E r \in resuming : Add(r) \/ Refuse(r) \/ ResumeFails(r)
    \/ \E t \in parents : ParentStep(t) \/ ParentStepFails(t)

Spec == Init /\ [][Next]_vars

(* A main that was started comes up, intervals and timers fire, queries    *)
(* and updates are continued, time passes, and when no main leads one of   *)
(* those that run takes over.  Nothing is assumed of runs, of webhook      *)
(* calls or of users.                                                      *)
Leading == {m \in Mains : process[m] = "up" /\ role[m] = "leader"}

Fairness ==
    /\ \A m \in Mains :
          /\ WF_vars(Start(m)) /\ WF_vars(GetRole(m))
          /\ WF_vars(InitTracker(m)) /\ WF_vars(RegisterEventHandlers(m))
          /\ WF_vars(Poll(m)) /\ WF_vars(Track(m))
          /\ \A e \in Executions, w \in Waits : WF_vars(TimerFires(m, e, w))
    /\ WF_vars(Leading = {} /\ \E m \in Mains : TakeOver(m))
    /\ \A e \in Executions : WF_vars(Elapse(e)) /\ WF_vars(StopDuringRun(e))
    /\ WF_vars(\E r \in resuming : Add(r))
    /\ WF_vars(\E t \in parents : ParentStep(t))

FairSpec == Spec /\ Fairness

-----------------------------------------------------------------------------
(* Properties.                                                             *)

(* "Only one child will successfully resume the parent due to the atomic   *)
(* status check in ActiveExecutions.add()": whatever timers of two leaders, *)
(* webhook calls and children want to resume an execution, it runs once,   *)
(* also when a stop changes the row under the run.                         *)
RunsOnce ==
    \A e \in Executions :
        /\ status[e] = "running" => \E m \in Mains : <<m, e>> \in runs
        /\ status[e] = "waiting" => \A m \in Mains : <<m, e>> \notin runs
        /\ \A m, n \in Mains : <<m, e>> \in runs /\ <<n, e>> \in runs => m = n

(* An execution that has ended, or was stopped, and has no run left is not *)
(* resumed by a timer that another main has set, or that was being set.    *)
(* (A run that is left writes over the stop.)                              *)
Ended(e) == status[e] \in {"success", "ended"} /\ \A m \in Mains : <<m, e>> \notin runs

EndedStaysEnded ==
    [][\A e \in Executions : Ended(e) => Ended(e)']_vars

(* A parent that a child resumes has the output of a child, also when      *)
(* reading or writing it fails and is tried again.                         *)
OutputReachesParent ==
    \A r \in resuming : \A t \in Caller(r) :
        status[r.exec] = "waiting" /\ t.wait = wait[r.exec] => r.output = "child"

(* A main that tracks waiting executions, and was never told to stop,      *)
(* resumes each of them when its time has come, whatever other mains,      *)
(* webhook calls and errors do.                                            *)
TimedWait(e) == status[e] = "waiting" /\ until[e] # "indefinite"

TrackedWaitsEnd ==
    \A m \in Mains :
        [](mainTimer[m] # "cleared") =>
            \A e \in Executions : ~<>[](mainTimer[m] = "running" /\ TimedWait(e))

(* A parent whose child has ended resumes, although a step fails now and   *)
(* then, unless the main that awaits the child goes away.                  *)
ParentsResume ==
    \A c \in Executions : Parent[c] # None =>
        \A m \in Mains :
            (\E t \in parents : t.main = m /\ t.child = c /\ t.next # "child")
                ~> (status[Parent[c]] # "waiting" \/ process[m] = "off")

(* "leader-takeover: in response, its various services will start ...      *)
(* wait-tracking": a main that tracks, for the first time or again after a *)
(* step-down, resumes what waits for a time.                               *)
TimedWaitsEnd ==
    \A m \in Mains, e \in Executions : ~<>[](mainTimer[m] = "running" /\ TimedWait(e))
=============================================================================
