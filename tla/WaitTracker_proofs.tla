------------------------- MODULE WaitTracker_proofs -------------------------
(***************************************************************************)
(* Proofs about WaitTracker, for any number of mains, executions, waits    *)
(* and any trouble.                                                        *)
(*                                                                         *)
(* That an execution runs once depends on the status of its row and on the *)
(* job of its run: what a worker writes belongs to a run (JobsRun).        *)
(* That the output of a child reaches its parent also depends on how the   *)
(* calls of resumeParentExecution and of startExecution belong together:   *)
(* ParentsInOrder and HandedOver.  What these calls wait for exists        *)
(* (HeldByUp, StartsAwaited), and entries have timers (EntriesArmed).      *)
(***************************************************************************)
EXTENDS WaitTracker, TLAPS

-----------------------------------------------------------------------------
(* Types.                                                                  *)

LEMMA RoleTypeStep ==
    ASSUME RoleTypeOK, NEW m \in Mains,
           \/ StartProcess(m) \/ EndProcess(m)
           \/ \E r \in {"leader", "follower"} : FirstRole(m, r)
           \/ TakeOverAsLeader(m) \/ StepDownToFollower(m)
    PROVE  RoleTypeOK'
BY DEF RoleTypeOK, StartProcess, EndProcess, FirstRole, TakeOverAsLeader, StepDownToFollower,
       BecomeRole

LEMMA RoleTypeUnchanged ==
    ASSUME RoleTypeOK, UNCHANGED roleVars
    PROVE  RoleTypeOK'
BY DEF RoleTypeOK, roleVars

LEMMA InitType == Init => WaitTypeOK
<1> SUFFICES ASSUME Init PROVE WaitTypeOK
  OBVIOUS
<1> USE WaitAssumption DEF Init, RoleInit
<1>1. RoleTypeOK
  BY DEF RoleTypeOK
<1>2. 1 \in Waits /\ 0 \in 0..MaxWaits /\ 0 \in 0..MaxTrouble
  BY DEF Waits
<1>3. until \in [Executions -> {"indefinite", "later", "soon", "due"}]
  OBVIOUS
<1> QED BY <1>1, <1>2, <1>3 DEF WaitTypeOK, Timers, Resumes, ParentResumes

LEMMA TrackingType ==
    ASSUME WaitTypeOK, NEW m \in Mains,
           \/ StartTracking(m)
           \/ UNCHANGED <<mainTimer, leaked, found>>
    PROVE  /\ mainTimer' \in [Mains -> {"none", "running", "cleared"}]
           /\ leaked' \subseteq Mains
           /\ found' \in [Mains -> SUBSET (Executions \X Waits)]
<1>1. Upcoming \subseteq Executions \X Waits
  BY DEF Upcoming, WaitTypeOK
<1>2. CASE StartTracking(m)
  BY <1>1, <1>2 DEF StartTracking, QueryDatabase, WaitTypeOK
<1> QED BY <1>2 DEF WaitTypeOK

LEMMA ProcessType ==
    ASSUME WaitTypeOK, NEW m \in Mains, ProcessStep(m)
    PROVE  WaitTypeOK'
<1> USE WaitAssumption DEF WaitTypeOK
<1>1. CASE Start(m)
  BY <1>1, RoleTypeStep
     DEF Start, rowVars, trackerVars, resumeVars, Timers, Resumes, ParentResumes
<1>2. CASE GetRole(m)
  BY <1>2, RoleTypeStep
     DEF GetRole, rowVars, trackerVars, resumeVars, Timers, Resumes, ParentResumes
<1>3. Upcoming \subseteq Executions \X Waits
  BY DEF Upcoming
<1>4. CASE InitTracker(m)
  <2>1. StartTracking(m) \/ UNCHANGED <<mainTimer, leaked, found>>
    BY <1>4 DEF InitTracker
  <2>2. boot' \in [Mains -> {"starting", "tracking", "listening"}]
    BY <1>4 DEF InitTracker
  <2> QED
    BY <1>4, <2>1, <2>2, TrackingType, RoleTypeUnchanged
       DEF InitTracker, rowVars, resumeVars, Timers, Resumes, ParentResumes
<1>5. CASE RegisterEventHandlers(m)
  BY <1>5, RoleTypeUnchanged
     DEF RegisterEventHandlers, rowVars, trackerVars, resumeVars, Timers, Resumes, ParentResumes
<1>6. CASE TakeOver(m)
  <2>1. StartTracking(m) \/ UNCHANGED <<mainTimer, leaked, found>>
    BY <1>6 DEF TakeOver
  <2> QED
    BY <1>6, <2>1, TrackingType, RoleTypeStep
       DEF TakeOver, rowVars, resumeVars, Timers, Resumes, ParentResumes
<1>7. CASE StepDown(m)
  <2>1. RoleTypeOK' /\ trouble' \in 0..MaxTrouble
    BY <1>7, RoleTypeStep DEF StepDown, Trouble
  <2>2. mainTimer' \in [Mains -> {"none", "running", "cleared"}] /\ armed' \subseteq Timers
    BY <1>7 DEF StepDown, StopTracking
  <2> QED
    BY <1>7, <2>1, <2>2 DEF StepDown, rowVars, resumeVars, Timers, Resumes, ParentResumes
<1>8. CASE End(m)
  <2>1. RoleTypeOK' /\ trouble' \in 0..MaxTrouble
    BY <1>8, RoleTypeStep DEF End, Trouble
  <2>2. 0 \in 0..MaxWaits
    OBVIOUS
  <2> QED BY <1>8, <2>1, <2>2 DEF End, rowVars, Timers, Resumes, ParentResumes
<1>9. CASE Poll(m)
  BY <1>3, <1>9, RoleTypeUnchanged
     DEF Poll, QueryDatabase, rowVars, resumeVars, Timers, Resumes, ParentResumes
<1>10. CASE Track(m)
  <2>1. PICK pick \in [Executions -> 0..MaxWaits] :
          /\ \A e \in Executions : pick[e] # 0 => <<e, pick[e]>> \in found[m]
          /\ entry' = [entry EXCEPT ![m] =
                [e \in Executions |-> IF pick[e] = 0 THEN entry[m][e] ELSE pick[e]]]
          /\ armed' = armed \cup {<<m, e, pick[e]>> : e \in {x \in Executions : pick[x] # 0}}
    BY <1>10 DEF Track, AddTimers
  <2>2. entry' \in [Mains -> [Executions -> 0..MaxWaits]]
    BY <2>1
  <2>3. armed' \subseteq Timers
    BY <2>1 DEF Timers, Waits
  <2> QED
    BY <1>10, <2>2, <2>3, RoleTypeUnchanged
       DEF Track, rowVars, resumeVars, Timers, Resumes, ParentResumes
<1> QED
  BY <1>1, <1>2, <1>4, <1>5, <1>6, <1>7, <1>8, <1>9, <1>10 DEF ProcessStep

(* A call of startExecution, and the calls it makes.                       *)
LEMMA ResumeType ==
    ASSUME WaitTypeOK, NEW m \in Mains, NEW e \in Executions,
           NEW by \in Executions \cup {"timer", "webhook"}, StartExecution(m, e, by)
    PROVE  /\ entry' \in [Mains -> [Executions -> 0..MaxWaits]]
           /\ resuming' \subseteq Resumes
<1>1. 0 \in 0..MaxWaits
  BY WaitAssumption
<1>2. Resume(m, e, by) \in Resumes
  BY DEF Resume, Resumes, WaitTypeOK
<1> QED BY <1>1, <1>2 DEF StartExecution, WaitTypeOK

LEMMA SettledType ==
    ASSUME WaitTypeOK, NEW m \in Mains, NEW e \in Executions, NEW resumes \in BOOLEAN
    PROVE  Settled(m, e, resumes) \subseteq ParentResumes
<1>1. \A t \in ParentResumes : [t EXCEPT !.next = "read"] \in ParentResumes
  BY DEF ParentResumes
<1> QED BY <1>1 DEF Settled, WaitTypeOK

LEMMA ExecutionType ==
    ASSUME WaitTypeOK, NEW e \in Executions, ExecutionStep(e)
    PROVE  WaitTypeOK'
<1> USE WaitAssumption DEF WaitTypeOK
<1>1. CASE Elapse(e)
  BY <1>1, RoleTypeUnchanged DEF Elapse, trackerVars, resumeVars, Timers, Resumes, ParentResumes
<1>2. ASSUME NEW m \in Mains, NEW w \in Waits, TimerFires(m, e, w)
      PROVE  WaitTypeOK'
  <2>1. entry' \in [Mains -> [Executions -> 0..MaxWaits]] /\ resuming' \subseteq Resumes
    BY <1>2, ResumeType DEF TimerFires
  <2> QED BY <1>2, <2>1, RoleTypeUnchanged DEF TimerFires, rowVars, Timers, ParentResumes
<1>3. ASSUME NEW m \in Mains, ExecuteWebhook(m, e)
      PROVE  WaitTypeOK'
  <2>1. Resume(m, e, "webhook") \in Resumes
    BY DEF Resume, Resumes
  <2> QED
    BY <1>3, <2>1, RoleTypeUnchanged DEF ExecuteWebhook, rowVars, trackerVars, Timers, ParentResumes
<1>4. ASSUME NEW m \in Mains, Finish(m, e)
      PROVE  WaitTypeOK'
  <2>1. parents' \subseteq ParentResumes
    BY <1>4, SettledType DEF Finish
  <2>2. status' \in [Executions -> {"waiting", "running", "success", "ended"}]
    BY <1>4 DEF Finish
  <2>3. /\ data' \in [Executions -> {"own", "child"}]
        /\ runs' \subseteq Mains \X Executions /\ jobs' \subseteq Executions
    BY <1>4 DEF Finish
  <2> QED BY <1>4, <2>1, <2>2, <2>3, RoleTypeUnchanged DEF Finish, trackerVars, Timers, Resumes
<1>5. ASSUME NEW m \in Mains, WaitAgain(m, e)
      PROVE  WaitTypeOK'
  <2>1. parents' \subseteq ParentResumes
    BY <1>5, SettledType DEF WaitAgain
  <2>2. /\ status' \in [Executions -> {"waiting", "running", "success", "ended"}]
        /\ until' \in [Executions -> {"indefinite", "later", "soon", "due"}]
        /\ data' \in [Executions -> {"own", "child"}]
        /\ called' \subseteq Executions
        /\ wait' \in [Executions -> Waits]
    <3>1. wait' \in [Executions -> Waits]
      BY <1>5 DEF WaitAgain, NextWait, Waits
    <3> QED BY <1>5, <3>1 DEF WaitAgain, NextWait
  <2>3. runs' \subseteq Mains \X Executions
    BY <1>5 DEF WaitAgain
  <2> QED
    BY <1>5, <2>1, <2>2, <2>3, RoleTypeUnchanged DEF WaitAgain, trackerVars, Timers, Resumes
<1>6. ASSUME NEW m \in Mains, Stop(m, e)
      PROVE  WaitTypeOK'
  <2>1. /\ entry' \in [Mains -> [Executions -> 0..MaxWaits]]
        /\ armed' \subseteq Timers
        /\ trouble' \in 0..MaxTrouble
    BY <1>6 DEF Stop, Trouble
  <2> QED
    BY <1>6, <2>1, RoleTypeUnchanged DEF Stop, resumeVars, Timers, Resumes, ParentResumes
<1>7. CASE StopDuringRun(e)
  BY <1>7, RoleTypeUnchanged
     DEF StopDuringRun, trackerVars, resumeVars, Timers, Resumes, ParentResumes
<1>8. CASE SetRunning(e)
  BY <1>8, RoleTypeUnchanged DEF SetRunning, trackerVars, Timers, Resumes, ParentResumes
<1> QED BY <1>1, <1>2, <1>3, <1>4, <1>5, <1>6, <1>7, <1>8 DEF ExecutionStep

LEMMA RetryType ==
    ASSUME NEW t \in ParentResumes, NEW next \in {"read", "start"}
    PROVE  Retry(t, next) \subseteq ParentResumes
<1>1. CASE t.attempt < MaxAttempts
  <2>1. t.attempt + 1 \in 1..MaxAttempts
    BY <1>1, WaitAssumption DEF ParentResumes
  <2>2. [t EXCEPT !.attempt = @ + 1, !.next = next] \in ParentResumes
    BY <2>1 DEF ParentResumes
  <2> QED BY <2>2 DEF Retry
<1> QED BY <1>1 DEF Retry

LEMMA AddType ==
    ASSUME WaitTypeOK, NEW r \in resuming, Add(r) \/ Refuse(r) \/ ResumeFails(r)
    PROVE  WaitTypeOK'
<1> USE WaitAssumption DEF WaitTypeOK
<1>1. r.exec \in Executions /\ r.main \in Mains /\ r.output \in {"own", "child"}
  BY DEF Resumes
<1>2. ForParent(r.main, r.exec) \subseteq ParentResumes
  BY <1>1 DEF ForParent, ParentResumes
<1>3. CASE Add(r)
  <2>1. /\ status' \in [Executions -> {"waiting", "running", "success", "ended"}]
        /\ data' \in [Executions -> {"own", "child"}]
        /\ runs' \subseteq Mains \X Executions /\ jobs' \subseteq Executions
        /\ parents' \subseteq ParentResumes
    <3>1. CASE IsResumable(r.exec)
      <4>1. /\ status' = [status EXCEPT ![r.exec] = "running"]
            /\ data' = [data EXCEPT ![r.exec] = r.output]
            /\ runs' = runs \cup {<<r.main, r.exec>>} /\ jobs' = jobs \cup {r.exec}
            /\ parents' = (parents \ Caller(r)) \cup ForParent(r.main, r.exec)
        BY <1>3, <3>1 DEF Add
      <4>2. /\ runs' \subseteq Mains \X Executions /\ jobs' \subseteq Executions
            /\ parents' \subseteq ParentResumes
        BY <1>1, <1>2, <4>1
      <4> QED BY <1>1, <4>1, <4>2
    <3>2. CASE ~IsResumable(r.exec)
      BY <1>3, <3>2 DEF Add
    <3> QED BY <3>1, <3>2
  <2> QED BY <1>3, <2>1, RoleTypeUnchanged DEF Add, trackerVars, Timers, Resumes
<1>4. CASE Refuse(r)
  <2>1. status' \in [Executions -> {"waiting", "running", "success", "ended"}]
    BY <1>1, <1>4 DEF Refuse
  <2> QED
    BY <1>4, <2>1, RoleTypeUnchanged DEF Refuse, trackerVars, Timers, Resumes, ParentResumes
<1>5. CASE ResumeFails(r)
  <2>1. \A t \in Caller(r) : Retry(t, "start") \subseteq ParentResumes
    BY RetryType DEF Caller
  <2>2. parents' \subseteq ParentResumes /\ trouble' \in 0..MaxTrouble
    BY <1>5, <2>1 DEF ResumeFails, Trouble
  <2> QED
    BY <1>5, <2>2, RoleTypeUnchanged DEF ResumeFails, rowVars, trackerVars, Timers, Resumes
<1> QED BY <1>3, <1>4, <1>5

LEMMA ParentType ==
    ASSUME WaitTypeOK, NEW t \in parents, ParentStep(t) \/ ParentStepFails(t)
    PROVE  WaitTypeOK'
<1> USE WaitAssumption DEF WaitTypeOK
<1>1. /\ t \in ParentResumes
      /\ t.main \in Mains /\ t.child \in Executions /\ Parent[t.child] \in Executions
  BY DEF ParentResumes
<1>2. 1 \in 1..MaxAttempts
  OBVIOUS
<1>3. CASE ReadParent(t)
  <2>1. wait[Parent[t.child]] \in 0..MaxWaits
    BY <1>1 DEF Waits
  <2>2. /\ [t EXCEPT !.next = "write", !.wait = wait[Parent[t.child]]] \in ParentResumes
        /\ [t EXCEPT !.next = "start", !.attempt = 1] \in ParentResumes
    BY <1>1, <1>2, <2>1 DEF ParentResumes
  <2>3. parents' \subseteq ParentResumes
    BY <1>3, <2>2 DEF ReadParent, Proceed
  <2> QED
    BY <1>3, <2>3, RoleTypeUnchanged DEF ReadParent, rowVars, trackerVars, Timers, Resumes
<1>4. CASE WriteParent(t)
  <2>1. parents' \subseteq ParentResumes
    <3>1. [t EXCEPT !.next = "start", !.attempt = 1] \in ParentResumes
      BY <1>1, <1>2 DEF ParentResumes
    <3> QED BY <1>4, <3>1 DEF WriteParent, Proceed
  <2>2. data' \in [Executions -> {"own", "child"}]
    BY <1>4 DEF WriteParent
  <2> QED BY <1>4, <2>1, <2>2, RoleTypeUnchanged DEF WriteParent, trackerVars, Timers, Resumes
<1>5. CASE StartParent(t)
  <2>1. parents' \subseteq ParentResumes
    <3>1. [t EXCEPT !.next = "starting"] \in ParentResumes
      BY <1>1 DEF ParentResumes
    <3> QED BY <1>5, <3>1 DEF StartParent, Proceed
  <2>2. entry' \in [Mains -> [Executions -> 0..MaxWaits]] /\ resuming' \subseteq Resumes
    BY <1>1, <1>5, ResumeType DEF StartParent
  <2> QED
    BY <1>5, <2>1, <2>2, RoleTypeUnchanged DEF StartParent, rowVars, Timers
<1>6. CASE ParentStepFails(t)
  <2>1. parents' \subseteq ParentResumes /\ trouble' \in 0..MaxTrouble
    <3>1. Retry(t, "start") \subseteq ParentResumes /\ Retry(t, "read") \subseteq ParentResumes
      BY <1>1, RetryType
    <3> QED BY <1>6, <3>1 DEF ParentStepFails, Trouble
  <2> QED
    BY <1>6, <2>1, RoleTypeUnchanged DEF ParentStepFails, rowVars, trackerVars, Timers, Resumes
<1> QED BY <1>3, <1>4, <1>5, <1>6 DEF ParentStep

LEMMA TypeStep == WaitTypeOK /\ [Next]_vars => WaitTypeOK'
<1> SUFFICES ASSUME WaitTypeOK, [Next]_vars
             PROVE  WaitTypeOK'
  OBVIOUS
<1>1. CASE UNCHANGED vars
  BY <1>1, RoleTypeUnchanged
     DEF vars, rowVars, trackerVars, resumeVars, WaitTypeOK, Timers, Resumes, ParentResumes
<1>2. CASE Next
  BY <1>2, ProcessType, ExecutionType, AddType, ParentType DEF Next
<1> QED BY <1>1, <1>2

(* The state of every main and row is one the code can be in; in           *)
(* particular no step of resumeParentExecution is tried more often than    *)
(* MAX_PARENT_RESUME_ATTEMPTS.                                             *)
THEOREM WaitTypeCorrect == Spec => []WaitTypeOK
BY InitType, TypeStep, PTL DEF Spec

-----------------------------------------------------------------------------
(* An execution runs once.                                                 *)

(* A job that no worker has begun belongs to a run.                        *)
JobsRun == \A e \in jobs : \E m \in Mains : <<m, e>> \in runs

EndedKept == \A e \in Executions : Ended(e) => Ended(e)'

(* A step that leaves the row, the runs and the job of e alone.            *)
Untouched(e) ==
    /\ status'[e] = status[e]
    /\ \A m \in Mains : <<m, e>> \in runs' <=> <<m, e>> \in runs
    /\ e \in jobs' => e \in jobs

(* RunsOnce, JobsRun and EndedKept, of one execution.                      *)
RunsOf(e) ==
    /\ status[e] = "running" => \E m \in Mains : <<m, e>> \in runs
    /\ status[e] = "waiting" => \A m \in Mains : <<m, e>> \notin runs
    /\ \A m, n \in Mains : <<m, e>> \in runs /\ <<n, e>> \in runs => m = n
    /\ e \in jobs => \E m \in Mains : <<m, e>> \in runs

LEMMA RunsFrame ==
    ASSUME WaitTypeOK, WaitTypeOK', RunsOnce, JobsRun, NEW e \in Executions,
           \A x \in Executions : x # e => Untouched(x),
           RunsOf(e)', Ended(e) => Ended(e)'
    PROVE  RunsOnce' /\ JobsRun' /\ EndedKept
<1>1. ASSUME NEW x \in Executions
      PROVE  RunsOf(x)' /\ (Ended(x) => Ended(x)')
  <2>1. CASE x = e
    BY <2>1
  <2>2. CASE x # e
    BY <2>2 DEF Untouched, RunsOf, RunsOnce, JobsRun, Ended
  <2> QED BY <2>1, <2>2
<1> QED BY <1>1 DEF RunsOf, RunsOnce, JobsRun, EndedKept, WaitTypeOK

LEMMA RunsStep ==
    ASSUME WaitTypeOK, WaitTypeOK', RunsOnce, JobsRun, [Next]_vars
    PROVE  RunsOnce' /\ JobsRun' /\ EndedKept
<1> USE DEF WaitTypeOK
<1>1. CASE UNCHANGED <<status, runs, jobs>>
  BY <1>1 DEF RunsOnce, JobsRun, EndedKept, Ended
<1>2. ASSUME NEW r \in resuming, Add(r), IsResumable(r.exec)
      PROVE  RunsOnce' /\ JobsRun' /\ EndedKept
  <2>1. /\ status' = [status EXCEPT ![r.exec] = "running"]
        /\ runs' = runs \cup {<<r.main, r.exec>>} /\ jobs' = jobs \cup {r.exec}
        /\ status[r.exec] = "waiting"
        /\ r.exec \in Executions /\ r.main \in Mains
    BY <1>2 DEF Add, IsResumable, Resumes
  <2>2. \A m \in Mains : <<m, r.exec>> \notin runs
    BY <2>1 DEF RunsOnce
  <2>3. RunsOf(r.exec)' /\ ~Ended(r.exec)
    BY <2>1, <2>2 DEF RunsOf, Ended
  <2>4. \A x \in Executions : x # r.exec => Untouched(x)
    BY <2>1 DEF Untouched
  <2> QED BY <2>1, <2>3, <2>4, RunsFrame
<1>3. ASSUME NEW e \in Executions,
             status' = [status EXCEPT ![e] = "ended"], runs' = runs, jobs' = jobs
      PROVE  RunsOnce' /\ JobsRun' /\ EndedKept
  <2>1. status'[e] = "ended"
    BY <1>3
  <2>2. RunsOf(e)'
    BY <1>3, <2>1 DEF RunsOf, RunsOnce, JobsRun
  <2>3. Ended(e) => Ended(e)'
    BY <1>3, <2>1 DEF Ended
  <2>4. \A x \in Executions : x # e => Untouched(x)
    BY <1>3 DEF Untouched
  <2> QED BY <2>2, <2>3, <2>4, RunsFrame
<1>4. ASSUME NEW r \in resuming, Refuse(r)
      PROVE  RunsOnce' /\ JobsRun' /\ EndedKept
  <2>1. r.exec \in Executions
    BY DEF Resumes
  <2> QED BY <1>3, <1>4, <2>1 DEF Refuse
<1>5. ASSUME NEW e \in Executions, SetRunning(e)
      PROVE  RunsOnce' /\ JobsRun' /\ EndedKept
  <2>1. /\ status' = [status EXCEPT ![e] = "running"] /\ runs' = runs /\ jobs' = jobs \ {e}
        /\ \E m \in Mains : <<m, e>> \in runs
    BY <1>5 DEF SetRunning, JobsRun
  <2>2. RunsOf(e)' /\ ~Ended(e)
    BY <2>1 DEF RunsOf, RunsOnce, Ended
  <2>3. \A x \in Executions : x # e => Untouched(x)
    BY <2>1 DEF Untouched
  <2> QED BY <2>2, <2>3, RunsFrame
<1>6. ASSUME NEW m \in Mains, NEW e \in Executions, Finish(m, e) \/ WaitAgain(m, e)
      PROVE  RunsOnce' /\ JobsRun' /\ EndedKept
  <2>1. /\ <<m, e>> \in runs /\ runs' = runs \ {<<m, e>>} /\ jobs' \subseteq jobs /\ e \notin jobs'
        /\ \A x \in Executions : x # e => status'[x] = status[x]
        /\ status'[e] # "running"
    <3>1. CASE Finish(m, e)
      BY <3>1 DEF Finish
    <3>2. CASE WaitAgain(m, e)
      BY <3>2 DEF WaitAgain, NextWait
    <3> QED BY <1>6, <3>1, <3>2
  <2>2. \A n \in Mains : <<n, e>> \notin runs'
    BY <2>1 DEF RunsOnce
  <2>3. RunsOf(e)' /\ ~Ended(e)
    BY <2>1, <2>2 DEF RunsOf, Ended
  <2>4. \A x \in Executions : x # e => Untouched(x)
    BY <2>1 DEF Untouched
  <2> QED BY <2>3, <2>4, RunsFrame
<1>7. CASE Next
  <2>1. ASSUME NEW m \in Mains, ProcessStep(m)
        PROVE  UNCHANGED <<status, runs, jobs>>
    BY <2>1
       DEF ProcessStep, Start, GetRole, InitTracker, RegisterEventHandlers, TakeOver, StepDown,
           End, Poll, Track, rowVars, resumeVars
  <2>2. ASSUME NEW e \in Executions, ExecutionStep(e)
        PROVE  \/ UNCHANGED <<status, runs, jobs>>
               \/ SetRunning(e) \/ StopDuringRun(e)
               \/ \E m \in Mains : Finish(m, e) \/ WaitAgain(m, e)
    BY <2>2 DEF ExecutionStep, Elapse, TimerFires, ExecuteWebhook, Stop, rowVars, resumeVars
  <2>3. ASSUME NEW r \in resuming, Add(r) \/ ResumeFails(r), ~(Add(r) /\ IsResumable(r.exec))
        PROVE  UNCHANGED <<status, runs, jobs>>
    BY <2>3 DEF Add, ResumeFails, rowVars
  <2>4. ASSUME NEW t \in parents, ParentStep(t) \/ ParentStepFails(t)
        PROVE  UNCHANGED <<status, runs, jobs>>
    BY <2>4 DEF ParentStep, ReadParent, WriteParent, StartParent, ParentStepFails, rowVars
  <2>5. ASSUME NEW e \in Executions, StopDuringRun(e)
        PROVE  status' = [status EXCEPT ![e] = "ended"] /\ runs' = runs /\ jobs' = jobs
    BY <2>5 DEF StopDuringRun, resumeVars
  <2> QED
    BY <1>1, <1>2, <1>3, <1>4, <1>5, <1>6, <1>7, <2>1, <2>2, <2>3, <2>4, <2>5 DEF Next
<1>8. CASE UNCHANGED vars
  BY <1>1, <1>8 DEF vars, rowVars, resumeVars
<1> QED BY <1>7, <1>8

LEMMA InitRuns == Init => RunsOnce /\ JobsRun
BY DEF Init, RunsOnce, JobsRun

LEMMA RunsAlways == Spec => [](RunsOnce /\ JobsRun)
<1>1. WaitTypeOK /\ WaitTypeOK' /\ RunsOnce /\ JobsRun /\ [Next]_vars => RunsOnce' /\ JobsRun'
  BY RunsStep
<1> QED BY <1>1, InitRuns, WaitTypeCorrect, PTL DEF Spec

(* However many mains, timers, webhook calls and children want to resume   *)
(* an execution, ActiveExecutions.add lets one of them run it.             *)
THEOREM ExecutionsRunOnce == Spec => []RunsOnce
BY RunsAlways, PTL

(* No timer, webhook call or child brings back an execution that has ended *)
(* or was stopped, once its run is over.                                   *)
THEOREM EndedExecutionsStayEnded == Spec => EndedStaysEnded
<1>1. WaitTypeOK /\ WaitTypeOK' /\ RunsOnce /\ JobsRun /\ [Next]_vars
        => [\A e \in Executions : Ended(e) => Ended(e)']_vars
  BY RunsStep DEF EndedKept
<1> QED BY <1>1, WaitTypeCorrect, RunsAlways, PTL DEF Spec, EndedStaysEnded

-----------------------------------------------------------------------------
(* The output of a child reaches its parent.                               *)

(* A main has one call of resumeParentExecution for a child; it awaits the *)
(* child's run, or the child has ended.                                    *)
ParentsInOrder ==
    /\ \A t, u \in parents : t.main = u.main /\ t.child = u.child => t = u
    /\ \A t \in parents :
         /\ t.next = "child" => <<t.main, t.child>> \in runs
         /\ t.next # "child" => Ended(t.child)
         /\ t.wait <= wait[Parent[t.child]]

(* It awaits one call of startExecution, for the parent.                   *)
ResumesInOrder ==
    /\ \A r, s \in resuming :
         r.by \in Executions /\ r.by = s.by /\ r.main = s.main => r = s
    /\ \A r \in resuming :
         r.by \in Executions => r.exec = Parent[r.by] /\ Caller(r) # {}

(* Before it starts the parent it has written the output, unless the       *)
(* parent has meanwhile left the wait it was written in.                   *)
HandedOver ==
    \A t \in parents :
        LET parent == Parent[t.child]
        IN  t.next \in {"start", "starting"} /\ status[parent] = "waiting" /\ t.wait = wait[parent]
              => data[parent] = "child"

HandOverInv == RunsOnce /\ ParentsInOrder /\ ResumesInOrder /\ HandedOver /\ OutputReachesParent

(* What has to be shown of a call that a step adds or changes, unless it   *)
(* then awaits the start of the parent.                                    *)
Fresh(t) ==
    /\ t.next # "starting"
    /\ t.next = "child" => <<t.main, t.child>> \in runs
    /\ t.next # "child" => Ended(t.child)
    /\ t.wait <= wait[Parent[t.child]]
    /\ t.next = "start" /\ status[Parent[t.child]] = "waiting" /\ t.wait = wait[Parent[t.child]]
         => data[Parent[t.child]] = "child"
    /\ \A u \in parents : u.main = t.main /\ u.child = t.child => u = t

(* A row in a wait it was already in was not given the parent's own input. *)
RowsKept ==
    \A e \in Executions :
        /\ wait[e] <= wait'[e]
        /\ status'[e] = "waiting" /\ wait'[e] = wait[e]
             => status[e] = "waiting" /\ (data'[e] = data[e] \/ data'[e] = "child")

LEMMA Between ==
    ASSUME NEW a \in Nat, NEW b \in Nat, NEW c \in Nat, a <= b, b <= c, a = c
    PROVE  b = c
OBVIOUS

LEMMA HandOverFrame ==
    ASSUME WaitTypeOK, WaitTypeOK', HandOverInv, RunsOnce', EndedKept, RowsKept,
           \A t \in parents' : \/ Fresh(t)'
                               \/ t \in parents /\ (t.next = "child" => <<t.main, t.child>> \in runs'),
           \A r \in resuming' : \/ r.by \notin Executions
                                \/ r \in resuming /\ \E t \in parents' : t \in Caller(r)
    PROVE  HandOverInv'
<1> USE DEF WaitTypeOK, HandOverInv
<1>1. \A t \in parents \cup parents' :
        /\ t \in ParentResumes /\ t.child \in Executions /\ Parent[t.child] \in Executions
        /\ t.wait \in Nat
  BY WaitAssumption DEF ParentResumes
<1>2. \A e \in Executions : wait[e] \in Nat /\ wait'[e] \in Nat
  BY DEF Waits
<1>3. ParentsInOrder'
  <2>1. ASSUME NEW t \in parents', NEW u \in parents', t.main = u.main, t.child = u.child
        PROVE  t = u
    BY <2>1 DEF ParentsInOrder, Fresh
  <2>2. ASSUME NEW t \in parents'
        PROVE  /\ t.next = "child" => <<t.main, t.child>> \in runs'
               /\ t.next # "child" => Ended(t.child)'
               /\ t.wait <= wait'[Parent[t.child]]
    <3>1. CASE t \in parents /\ (t.next = "child" => <<t.main, t.child>> \in runs')
      <4>1. t.wait <= wait[Parent[t.child]] /\ wait[Parent[t.child]] <= wait'[Parent[t.child]]
        BY <1>1, <3>1 DEF ParentsInOrder, RowsKept
      <4>2. t.next # "child" => Ended(t.child)'
        BY <1>1, <3>1 DEF ParentsInOrder, EndedKept
      <4> QED BY <1>1, <1>2, <3>1, <4>1, <4>2
    <3>2. CASE Fresh(t)'
      BY <3>2 DEF Fresh
    <3> QED BY <3>1, <3>2
  <2> QED BY <2>1, <2>2 DEF ParentsInOrder
<1>4. \A r \in resuming' : Caller(r)' = {t \in parents' : t.main = r.main /\ t.child = r.by
                                                          /\ t.next = "starting"}
  BY DEF Caller
<1>5. ResumesInOrder'
  <2>1. ASSUME NEW r \in resuming', NEW s \in resuming',
               r.by \in Executions, r.by = s.by, r.main = s.main
        PROVE  r = s
    BY <2>1 DEF ResumesInOrder
  <2>2. ASSUME NEW r \in resuming', r.by \in Executions
        PROVE  r.exec = Parent[r.by] /\ Caller(r)' # {}
    <3>1. PICK t \in parents' : t \in Caller(r)
      BY <2>2
    <3>2. t.main = r.main /\ t.child = r.by /\ t.next = "starting"
      BY <3>1 DEF Caller
    <3> QED BY <1>4, <2>2, <3>2 DEF ResumesInOrder
  <2> QED BY <2>1, <2>2 DEF ResumesInOrder
<1>6. HandedOver'
  <2> SUFFICES ASSUME NEW t \in parents',
                      t.next \in {"start", "starting"},
                      status'[Parent[t.child]] = "waiting",
                      t.wait = wait'[Parent[t.child]]
               PROVE  data'[Parent[t.child]] = "child"
    BY DEF HandedOver
  <2>1. CASE Fresh(t)'
    BY <2>1 DEF Fresh
  <2>2. CASE t \in parents
    <3> DEFINE parent == Parent[t.child]
    <3>1. wait'[parent] = wait[parent]
      <4>1. t.wait <= wait[parent] /\ wait[parent] <= wait'[parent]
        BY <1>1, <2>2 DEF ParentsInOrder, RowsKept
      <4>2. wait[parent] \in Nat /\ wait'[parent] \in Nat /\ t.wait \in Nat
        BY <1>1, <1>2
      <4>3. t.wait = wait'[parent]
        OBVIOUS
      <4> HIDE DEF parent
      <4> QED BY <4>1, <4>2, <4>3, Between
    <3>2. status[parent] = "waiting" /\ (data'[parent] = data[parent] \/ data'[parent] = "child")
      BY <1>1, <2>2, <3>1 DEF RowsKept
    <3> QED BY <2>2, <3>1, <3>2 DEF HandedOver
  <2> QED BY <2>1, <2>2
<1>7. OutputReachesParent'
  <2> SUFFICES ASSUME NEW r \in resuming', NEW t \in Caller(r)',
                      status'[r.exec] = "waiting", t.wait = wait'[r.exec]
               PROVE  r.output = "child"
    BY DEF OutputReachesParent
  <2>1. t \in parents' /\ t.main = r.main /\ t.child = r.by /\ t.next = "starting"
    BY <1>4
  <2>2. r.by \in Executions /\ r \in resuming
    BY <1>1, <2>1
  <2>3. t \in parents /\ t \in Caller(r)
    BY <2>1 DEF Fresh, Caller
  <2>4. r.exec = Parent[t.child]
    BY <2>1, <2>2 DEF ResumesInOrder
  <2>5. wait'[r.exec] = wait[r.exec]
    <3>1. t.wait <= wait[r.exec] /\ wait[r.exec] <= wait'[r.exec]
      BY <1>1, <2>3, <2>4 DEF ParentsInOrder, RowsKept
    <3>2. wait[r.exec] \in Nat /\ wait'[r.exec] \in Nat /\ t.wait \in Nat
      BY <1>1, <1>2, <2>3, <2>4
    <3> QED BY <3>1, <3>2, Between
  <2>6. status[r.exec] = "waiting"
    BY <1>1, <2>3, <2>4, <2>5 DEF RowsKept
  <2> QED BY <2>2, <2>3, <2>5, <2>6 DEF OutputReachesParent
<1> QED BY <1>3, <1>5, <1>6, <1>7

LEMMA InitHandOver == Init => HandOverInv
BY InitRuns
   DEF Init, HandOverInv, ParentsInOrder, ResumesInOrder, HandedOver, OutputReachesParent

(* Calls of startExecution keep the calls of resumeParentExecution that    *)
(* await them, and the other way round.                                    *)
LEMMA CallersKept ==
    ASSUME HandOverInv, NEW r \in resuming, r.by \in Executions
    PROVE  \E t \in parents : t \in Caller(r) /\ t.next = "starting"
BY DEF HandOverInv, ResumesInOrder, Caller

LEMMA ProcessHandOver ==
    ASSUME WaitTypeOK, WaitTypeOK', HandOverInv, RunsOnce', EndedKept, NEW m \in Mains, ProcessStep(m)
    PROVE  HandOverInv'
<1>1. RowsKept
  BY DEF ProcessStep, Start, GetRole, InitTracker, RegisterEventHandlers, TakeOver, StepDown,
         End, Poll, Track, rowVars, RowsKept, WaitTypeOK, Waits
<1>2. CASE UNCHANGED <<parents, resuming, runs>>
  BY <1>1, <1>2, CallersKept, HandOverFrame DEF HandOverInv, ParentsInOrder
<1>3. CASE End(m)
  <2>1. /\ parents' = {t \in parents : t.main # m}
        /\ resuming' = {r \in resuming : r.main # m}
        /\ runs' = runs
    BY <1>3 DEF End
  <2>2. ASSUME NEW r \in resuming', r.by \in Executions
        PROVE  \E t \in parents' : t \in Caller(r)
    BY <2>1, <2>2, CallersKept DEF Caller
  <2> QED BY <1>1, <2>1, <2>2, HandOverFrame DEF HandOverInv, ParentsInOrder
<1> QED
  BY <1>2, <1>3
     DEF ProcessStep, Start, GetRole, InitTracker, RegisterEventHandlers, TakeOver, StepDown,
         Poll, Track, resumeVars

LEMMA ExecutionHandOver ==
    ASSUME WaitTypeOK, WaitTypeOK', HandOverInv, RunsOnce', EndedKept, NEW e \in Executions,
           ExecutionStep(e)
    PROVE  HandOverInv'
<1> USE DEF WaitTypeOK
<1>0. "timer" \notin Executions /\ "webhook" \notin Executions
  BY WaitAssumption
<1>1. CASE UNCHANGED <<status, wait, data, parents, resuming, runs>>
  BY <1>1, CallersKept, HandOverFrame DEF HandOverInv, ParentsInOrder, RowsKept, Waits
<1>2. ASSUME NEW by \in {"timer", "webhook"}, NEW m \in Mains,
             resuming' \subseteq resuming \cup {Resume(m, e, by)},
             UNCHANGED <<status, wait, data, parents, runs>>
      PROVE  HandOverInv'
  <2>1. RowsKept
    BY <1>2 DEF RowsKept, Waits
  <2>2. \A r \in resuming' : r.by \notin Executions \/ r \in resuming
    BY <1>0, <1>2 DEF Resume
  <2> QED BY <1>2, <2>1, <2>2, CallersKept, HandOverFrame DEF HandOverInv, ParentsInOrder
<1>3. ASSUME NEW m \in Mains, Stop(m, e)
      PROVE  HandOverInv'
  <2>1. RowsKept /\ UNCHANGED <<parents, resuming, runs>>
    BY <1>3 DEF Stop, RowsKept, resumeVars, Waits
  <2> QED BY <2>1, CallersKept, HandOverFrame DEF HandOverInv, ParentsInOrder
<1>4. ASSUME NEW m \in Mains, Finish(m, e)
      PROVE  HandOverInv'
  <2>1. /\ status'[e] \in {"success", "ended"}
        /\ <<m, e>> \in runs /\ runs' = runs \ {<<m, e>>}
        /\ wait' = wait /\ resuming' = resuming
        /\ parents' = Settled(m, e, TRUE)
        /\ \A x \in Executions : x # e => status'[x] = status[x] /\ data'[x] = data[x]
    <3>1. <<m, e>> \in runs
      BY <1>4 DEF Finish
    <3>2. status[e] # "waiting"
      BY <3>1 DEF HandOverInv, RunsOnce
    <3> QED BY <1>4, <3>1, <3>2 DEF Finish
  <2>2. RowsKept
    BY <2>1 DEF RowsKept, Waits
  <2>3. ASSUME NEW t \in parents'
        PROVE  \/ Fresh(t)'
               \/ t \in parents /\ (t.next = "child" => <<t.main, t.child>> \in runs')
    <3>1. CASE t \in parents /\ ~(t.main = m /\ t.child = e /\ t.next = "child")
      BY <2>1, <3>1 DEF HandOverInv, ParentsInOrder
    <3>2. CASE ~(t \in parents /\ ~(t.main = m /\ t.child = e /\ t.next = "child"))
      <4>1. PICK x \in parents : /\ x.main = m /\ x.child = e /\ x.next = "child"
                                 /\ t = [x EXCEPT !.next = "read"]
        BY <2>1, <3>2 DEF Settled
      <4>2. x \in ParentResumes /\ Parent[e] \in Executions
        BY <4>1, WaitAssumption DEF ParentResumes
      <4>3. t.main = m /\ t.child = e /\ t.next = "read" /\ t.wait = x.wait
        BY <4>1, <4>2 DEF ParentResumes
      <4>4. t.wait <= wait'[Parent[t.child]]
        BY <2>1, <4>1, <4>3 DEF HandOverInv, ParentsInOrder
      <4>5. ASSUME NEW u \in parents', u.main = m, u.child = e
            PROVE  u = t
        <5>1. CASE u \in parents /\ u.next # "child"
          BY <4>1, <4>5, <5>1 DEF HandOverInv, ParentsInOrder
        <5>2. CASE ~(u \in parents /\ u.next # "child")
          <6>1. PICK y \in parents : /\ y.main = m /\ y.child = e
                                     /\ u = [y EXCEPT !.next = "read"]
            BY <2>1, <4>5, <5>2 DEF Settled
          <6>2. y = x
            BY <4>1, <6>1 DEF HandOverInv, ParentsInOrder
          <6> QED BY <4>1, <6>1, <6>2
        <5> QED BY <5>1, <5>2
      <4>6. Ended(t.child)'
        BY <2>1, <4>3 DEF HandOverInv, RunsOnce, Ended
      <4> QED BY <4>3, <4>4, <4>5, <4>6 DEF Fresh
    <3> QED BY <3>1, <3>2
  <2>4. ASSUME NEW r \in resuming', r.by \in Executions
        PROVE  r \in resuming /\ \E t \in parents' : t \in Caller(r)
    BY <2>1, <2>4, CallersKept DEF Settled
  <2> QED BY <2>2, <2>3, <2>4, HandOverFrame
<1>5. ASSUME NEW m \in Mains, WaitAgain(m, e)
      PROVE  HandOverInv'
  <2>1. /\ runs' = runs \ {<<m, e>>}
        /\ resuming' = resuming
        /\ parents' = Settled(m, e, FALSE)
    BY <1>5 DEF WaitAgain
  <2>2. RowsKept
    <3>1. /\ wait' = [wait EXCEPT ![e] = @ + 1]
          /\ \A x \in Executions : x # e => status'[x] = status[x] /\ data'[x] = data[x]
      BY <1>5 DEF WaitAgain, NextWait
    <3> QED BY <3>1 DEF RowsKept, Waits
  <2>3. parents' = {t \in parents : ~(t.main = m /\ t.child = e /\ t.next = "child")}
    BY <2>1 DEF Settled
  <2>4. \A t \in parents' : t.next = "child" => <<t.main, t.child>> \in runs'
    BY <2>1, <2>3 DEF HandOverInv, ParentsInOrder
  <2>5. ASSUME NEW r \in resuming', r.by \in Executions
        PROVE  r \in resuming /\ \E t \in parents' : t \in Caller(r)
    BY <2>1, <2>3, <2>5, CallersKept
  <2> QED BY <2>2, <2>3, <2>4, <2>5, HandOverFrame
<1>6. ASSUME NEW m \in Mains, NEW w \in Waits, TimerFires(m, e, w)
      PROVE  HandOverInv'
  <2>1. resuming' \subseteq resuming \cup {Resume(m, e, "timer")}
    BY <1>6 DEF TimerFires, StartExecution
  <2> QED BY <1>2, <1>6, <2>1 DEF TimerFires, rowVars
<1>7. ASSUME NEW m \in Mains, ExecuteWebhook(m, e)
      PROVE  HandOverInv'
  BY <1>2, <1>7 DEF ExecuteWebhook, rowVars
<1>8. CASE Elapse(e)
  BY <1>1, <1>8 DEF Elapse, resumeVars
<1>9. CASE StopDuringRun(e)
  <2>1. /\ status' = [status EXCEPT ![e] = "ended"]
        /\ UNCHANGED <<wait, data, parents, resuming, runs>>
    BY <1>9 DEF StopDuringRun, resumeVars
  <2>2. RowsKept
    BY <2>1 DEF RowsKept, Waits
  <2> QED BY <2>1, <2>2, CallersKept, HandOverFrame DEF HandOverInv, ParentsInOrder
<1>10. CASE SetRunning(e)
  <2>1. /\ status' = [status EXCEPT ![e] = "running"]
        /\ UNCHANGED <<wait, data, parents, resuming, runs>>
    BY <1>10 DEF SetRunning
  <2>2. RowsKept
    BY <2>1 DEF RowsKept, Waits
  <2> QED BY <2>1, <2>2, CallersKept, HandOverFrame DEF HandOverInv, ParentsInOrder
<1> QED BY <1>3, <1>4, <1>5, <1>6, <1>7, <1>8, <1>9, <1>10 DEF ExecutionStep

(* The calls that are left when one call of startExecution ends.           *)
LEMMA CallersLeft ==
    ASSUME HandOverInv, NEW r \in resuming, resuming' = resuming \ {r},
           parents \ Caller(r) \subseteq parents',
           NEW s \in resuming', s.by \in Executions
    PROVE  s \in resuming /\ \E t \in parents' : t \in Caller(s)
<1>1. PICK t \in parents : t \in Caller(s)
  BY CallersKept
<1>2. t \notin Caller(r)
  BY <1>1 DEF Caller, HandOverInv, ResumesInOrder
<1> QED BY <1>1, <1>2

LEMMA RetryShape ==
    ASSUME NEW t \in ParentResumes, NEW next \in {"read", "start"}, NEW u \in Retry(t, next)
    PROVE  /\ u = [t EXCEPT !.attempt = @ + 1, !.next = next]
           /\ u.main = t.main /\ u.child = t.child /\ u.wait = t.wait /\ u.next = next
<1>1. u = [t EXCEPT !.attempt = @ + 1, !.next = next]
  BY DEF Retry
<1> QED BY <1>1 DEF ParentResumes

LEMMA AddHandOver ==
    ASSUME WaitTypeOK, WaitTypeOK', HandOverInv, RunsOnce', EndedKept, NEW r \in resuming,
           Add(r) \/ Refuse(r) \/ ResumeFails(r)
    PROVE  HandOverInv'
<1> USE DEF WaitTypeOK
<1>1. r.exec \in Executions /\ r.main \in Mains /\ resuming' = resuming \ {r}
  BY DEF Resumes, Add, Refuse, ResumeFails
<1>2. CASE Add(r) /\ IsResumable(r.exec)
  <2> DEFINE m == r.main
             e == r.exec
  <2>1. /\ status[e] = "waiting" /\ status' = [status EXCEPT ![e] = "running"]
        /\ data' = [data EXCEPT ![e] = r.output]
        /\ runs' = runs \cup {<<m, e>>} /\ wait' = wait
        /\ parents' = (parents \ Caller(r)) \cup ForParent(m, e)
    BY <1>2 DEF Add, IsResumable
  <2>2. RowsKept
    BY <2>1 DEF RowsKept, Waits
  <2>3. ASSUME NEW t \in parents'
        PROVE  \/ Fresh(t)'
               \/ t \in parents /\ (t.next = "child" => <<t.main, t.child>> \in runs')
    <3>1. CASE t \in parents
      BY <2>1, <3>1 DEF HandOverInv, ParentsInOrder
    <3>2. CASE t \notin parents
      <4>1. t = [main |-> m, child |-> e, wait |-> 0, attempt |-> 1, next |-> "child"]
        BY <2>1, <3>2 DEF ForParent
      <4>2. 0 <= wait'[Parent[e]]
        <5>1. t \in ParentResumes
          OBVIOUS
        <5>2. Parent[e] \in Executions
          BY <4>1, <5>1, WaitAssumption DEF ParentResumes
        <5> QED BY <2>1, <5>2 DEF Waits
      <4>3. ASSUME NEW u \in parents, u.main = m, u.child = e
            PROVE  FALSE
        <5>1. <<m, e>> \notin runs
          BY <1>1, <2>1 DEF HandOverInv, RunsOnce
        <5> QED BY <2>1, <4>3, <5>1 DEF HandOverInv, ParentsInOrder, Ended
      <4>4. ASSUME NEW u \in parents', u.main = m, u.child = e
            PROVE  u = t
        BY <2>1, <4>1, <4>3, <4>4 DEF ForParent
      <4> QED BY <2>1, <4>1, <4>2, <4>4 DEF Fresh
    <3> QED BY <3>1, <3>2
  <2>4. parents \ Caller(r) \subseteq parents'
    BY <2>1
  <2> QED BY <1>1, <2>2, <2>3, <2>4, CallersLeft, HandOverFrame
<1>3. CASE parents' = parents \ Caller(r) /\ runs' = runs /\ RowsKept
  <2>1. \A t \in parents' : t \in parents /\ (t.next = "child" => <<t.main, t.child>> \in runs')
    BY <1>3 DEF HandOverInv, ParentsInOrder
  <2> QED BY <1>1, <1>3, <2>1, CallersLeft, HandOverFrame
<1>4. CASE Add(r) /\ ~IsResumable(r.exec)
  <2>1. UNCHANGED <<status, wait, data>>
    BY <1>4 DEF Add
  <2> QED BY <1>3, <1>4, <2>1 DEF Add, RowsKept, Waits
<1>5. CASE Refuse(r)
  <2>1. /\ status[r.exec] = "waiting" /\ status' = [status EXCEPT ![r.exec] = "ended"]
        /\ wait' = wait /\ data' = data
    BY <1>5 DEF Refuse
  <2>2. RowsKept
    BY <1>1, <2>1 DEF RowsKept, Waits
  <2> QED BY <1>3, <1>5, <2>2 DEF Refuse
<1>6. CASE ResumeFails(r)
  <2>1. /\ UNCHANGED <<status, wait, data, runs>>
        /\ parents' = (parents \ Caller(r)) \cup UNION {Retry(t, "start") : t \in Caller(r)}
    BY <1>6 DEF ResumeFails, rowVars
  <2>2. RowsKept
    BY <2>1 DEF RowsKept, Waits
  <2>3. ASSUME NEW t \in parents'
        PROVE  \/ Fresh(t)'
               \/ t \in parents /\ (t.next = "child" => <<t.main, t.child>> \in runs')
    <3>1. CASE t \in parents \ Caller(r)
      BY <2>1, <3>1 DEF HandOverInv, ParentsInOrder
    <3>2. CASE t \notin parents \ Caller(r)
      <4>1. PICK x \in Caller(r) : t \in Retry(x, "start")
        BY <2>1, <3>2
      <4>2. /\ x \in parents /\ x \in ParentResumes /\ x.next = "starting"
            /\ x.main = r.main /\ x.child = r.by
        BY <4>1 DEF Caller
      <4>3. /\ t = [x EXCEPT !.attempt = @ + 1, !.next = "start"]
            /\ t.main = x.main /\ t.child = x.child /\ t.wait = x.wait /\ t.next = "start"
        BY <4>1, <4>2, RetryShape
      <4>4. ASSUME NEW u \in parents', u.main = t.main, u.child = t.child
            PROVE  u = t
        <5>1. CASE u \in parents \ Caller(r)
          BY <4>2, <4>3, <4>4, <5>1 DEF HandOverInv, ParentsInOrder, Caller
        <5>2. CASE u \notin parents \ Caller(r)
          <6>1. PICK y \in Caller(r) : u \in Retry(y, "start")
            BY <2>1, <5>2
          <6>2. y \in parents /\ y.main = r.main /\ y.child = r.by
            BY <6>1 DEF Caller
          <6>3. y = x
            BY <4>2, <6>2 DEF HandOverInv, ParentsInOrder
          <6> QED BY <4>1, <6>1, <6>3 DEF Retry
        <5> QED BY <5>1, <5>2
      <4>5. /\ Ended(t.child)
            /\ t.wait <= wait[Parent[t.child]]
        BY <4>2, <4>3 DEF HandOverInv, ParentsInOrder
      <4>6. status[Parent[t.child]] = "waiting" /\ t.wait = wait[Parent[t.child]]
              => data[Parent[t.child]] = "child"
        BY <4>2, <4>3 DEF HandOverInv, HandedOver
      <4>7. Ended(t.child)'
        BY <4>2, <4>3, <4>5 DEF EndedKept, ParentResumes
      <4> QED BY <2>1, <4>3, <4>4, <4>5, <4>6, <4>7 DEF Fresh
    <3> QED BY <3>1, <3>2
  <2>4. parents \ Caller(r) \subseteq parents'
    BY <2>1
  <2> QED BY <1>1, <2>2, <2>3, <2>4, CallersLeft, HandOverFrame
<1> QED BY <1>2, <1>4, <1>5, <1>6

(* A step of resumeParentExecution between the two calls it awaits.        *)
LEMMA ProceedHandOver ==
    ASSUME WaitTypeOK, WaitTypeOK', HandOverInv, RunsOnce', EndedKept, RowsKept,
           UNCHANGED <<status, wait, runs, resuming>>,
           NEW t \in parents, t.next \notin {"child", "starting"},
           NEW n, n.main = t.main, n.child = t.child, n.next \in {"read", "write", "start"},
           n.wait <= wait[Parent[t.child]],
           n.next = "start" /\ status[Parent[t.child]] = "waiting"
             /\ n.wait = wait[Parent[t.child]] => data'[Parent[t.child]] = "child",
           parents \ {t} \subseteq parents', parents' \subseteq (parents \ {t}) \cup {n}
    PROVE  HandOverInv'
<1>1. ASSUME NEW u \in parents'
      PROVE  \/ Fresh(u)'
             \/ u \in parents /\ (u.next = "child" => <<u.main, u.child>> \in runs')
  <2>1. CASE u \in parents \ {t}
    BY <2>1 DEF HandOverInv, ParentsInOrder
  <2>2. CASE u = n
    <3>1. ASSUME NEW v \in parents', v.main = n.main, v.child = n.child
          PROVE  v = n
      BY <3>1 DEF HandOverInv, ParentsInOrder
    <3>2. Ended(t.child)'
      BY DEF HandOverInv, ParentsInOrder, EndedKept, WaitTypeOK, ParentResumes
    <3> QED BY <2>2, <3>1, <3>2 DEF Fresh
  <2> QED BY <2>1, <2>2
<1>2. ASSUME NEW r \in resuming', r.by \in Executions
      PROVE  r \in resuming /\ \E u \in parents' : u \in Caller(r)
  BY <1>2, CallersKept
<1> QED BY <1>1, <1>2, HandOverFrame

LEMMA StartParentHandOver ==
    ASSUME WaitTypeOK, WaitTypeOK', HandOverInv, NEW t \in parents, StartParent(t),
           status[Parent[t.child]] # "success"
    PROVE  ParentsInOrder' /\ ResumesInOrder' /\ HandedOver' /\ OutputReachesParent'
<1> DEFINE n == [t EXCEPT !.next = "starting"]
           parent == Parent[t.child]
           s == Resume(t.main, parent, t.child)
<1> USE DEF WaitTypeOK, HandOverInv
<1>1. /\ t \in ParentResumes /\ t.next = "start" /\ t.child \in Executions /\ parent \in Executions
      /\ UNCHANGED <<status, wait, data, runs>>
      /\ resuming' = resuming \cup {s} /\ parents' = (parents \ {t}) \cup {n}
  BY WaitAssumption DEF StartParent, StartExecution, Proceed, rowVars, ParentResumes
<1>2. n.main = t.main /\ n.child = t.child /\ n.wait = t.wait /\ n.next = "starting"
  BY <1>1 DEF ParentResumes
<1>3. s.main = t.main /\ s.exec = parent /\ s.by = t.child /\ s.output = data[parent]
  BY DEF Resume
<1> HIDE DEF n, parent, s
<1>4. ASSUME NEW r \in resuming, r.by = t.child, r.main = t.main
      PROVE  FALSE
  BY <1>1, <1>4, CallersKept DEF ParentsInOrder, Caller
<1>5. ParentsInOrder'
  <2>1. ASSUME NEW u \in parents', NEW v \in parents', u.main = v.main, u.child = v.child
        PROVE  u = v
    BY <1>1, <1>2, <2>1 DEF ParentsInOrder
  <2>2. ASSUME NEW u \in parents'
        PROVE  /\ u.next = "child" => <<u.main, u.child>> \in runs'
               /\ u.next # "child" => Ended(u.child)'
               /\ u.wait <= wait'[Parent[u.child]]
    BY <1>1, <1>2, <2>2 DEF ParentsInOrder, Ended
  <2> QED BY <2>1, <2>2 DEF ParentsInOrder
<1>6. ResumesInOrder'
  <2>1. ASSUME NEW r \in resuming', NEW q \in resuming',
               r.by \in Executions, r.by = q.by, r.main = q.main
        PROVE  r = q
    BY <1>1, <1>3, <1>4, <2>1 DEF ResumesInOrder
  <2>2. ASSUME NEW r \in resuming', r.by \in Executions
        PROVE  r.exec = Parent[r.by] /\ \E u \in parents' : u.main = r.main /\ u.child = r.by
                                                            /\ u.next = "starting"
    <3>1. CASE r = s
      BY <1>1, <1>2, <1>3, <3>1 DEF parent
    <3>2. CASE r \in resuming
      <4>1. PICK u \in parents : u.main = r.main /\ u.child = r.by /\ u.next = "starting"
        BY <2>2, <3>2, CallersKept DEF Caller
      <4> QED BY <1>1, <2>2, <3>2, <4>1 DEF ResumesInOrder
    <3> QED BY <1>1, <3>1, <3>2
  <2> QED BY <2>1, <2>2 DEF ResumesInOrder, Caller
<1>7. HandedOver'
  <2> SUFFICES ASSUME NEW u \in parents', u.next \in {"start", "starting"},
                      status[Parent[u.child]] = "waiting", u.wait = wait[Parent[u.child]]
               PROVE  data[Parent[u.child]] = "child"
    BY <1>1 DEF HandedOver
  <2> QED BY <1>1, <1>2 DEF HandedOver
<1>8. OutputReachesParent'
  <2>0. \A r : Caller(r)' = {u \in parents' : u.main = r.main /\ u.child = r.by
                                            /\ u.next = "starting"}
    BY DEF Caller
  <2> SUFFICES ASSUME NEW r \in resuming', NEW u \in parents',
                      u.main = r.main, u.child = r.by, u.next = "starting",
                      status[r.exec] = "waiting", u.wait = wait[r.exec]
               PROVE  r.output = "child"
    BY <1>1, <2>0 DEF OutputReachesParent
  <2>1. CASE r \in resuming
    BY <1>1, <1>2, <1>4, <2>1 DEF OutputReachesParent, Caller
  <2>2. CASE r = s
    <3>1. u = n
      BY <1>1, <1>2, <1>3, <1>5, <2>2 DEF ParentsInOrder
    <3> QED BY <1>1, <1>2, <1>3, <2>2, <3>1 DEF HandedOver, parent
  <2> QED BY <1>1, <2>1, <2>2
<1> QED BY <1>5, <1>6, <1>7, <1>8

LEMMA ParentHandOver ==
    ASSUME WaitTypeOK, WaitTypeOK', HandOverInv, RunsOnce', EndedKept, NEW t \in parents,
           ParentStep(t) \/ ParentStepFails(t)
    PROVE  HandOverInv'
<1> USE DEF WaitTypeOK
<1>0. t \in ParentResumes /\ t.child \in Executions /\ Parent[t.child] \in Executions
  BY WaitAssumption DEF ParentResumes
<1>1. /\ t \in ParentResumes /\ t.child \in Executions /\ Parent[t.child] \in Executions
      /\ t.wait <= wait[Parent[t.child]] /\ wait[Parent[t.child]] \in Nat
  <2>1. t.wait <= wait[Parent[t.child]]
    BY DEF HandOverInv, ParentsInOrder
  <2>2. wait[Parent[t.child]] \in Waits
    BY <1>0
  <2> QED BY <1>0, <2>1, <2>2 DEF Waits
<1>2. CASE ReadParent(t)
  <2>1. RowsKept /\ UNCHANGED <<status, wait, runs, resuming>>
    BY <1>2 DEF ReadParent, rowVars, RowsKept, Waits
  <2>2. CASE status[Parent[t.child]] = "waiting"
    <3> DEFINE n == [t EXCEPT !.next = "write", !.wait = wait[Parent[t.child]]]
    <3>1. parents' = (parents \ {t}) \cup {n} /\ t.next = "read"
      BY <1>2, <2>2 DEF ReadParent, Proceed
    <3>2. n.main = t.main /\ n.child = t.child /\ n.next = "write" /\ n.wait = wait[Parent[t.child]]
      BY <1>1 DEF ParentResumes
    <3>3. n.wait <= wait[Parent[t.child]]
      BY <1>1, <3>2
    <3> HIDE DEF n
    <3> QED BY <1>1, <2>1, <3>1, <3>2, <3>3, ProceedHandOver
  <2>3. CASE status[Parent[t.child]] # "waiting"
    <3> DEFINE n == [t EXCEPT !.next = "start", !.attempt = 1]
    <3>1. parents' = (parents \ {t}) \cup {n} /\ t.next = "read"
      BY <1>2, <2>3 DEF ReadParent, Proceed
    <3>2. n.main = t.main /\ n.child = t.child /\ n.next = "start" /\ n.wait = t.wait
      BY <1>1 DEF ParentResumes
    <3> HIDE DEF n
    <3> QED BY <1>1, <2>1, <2>3, <3>1, <3>2, ProceedHandOver
  <2> QED BY <2>2, <2>3
<1>3. CASE WriteParent(t)
  <2> DEFINE n == [t EXCEPT !.next = "start", !.attempt = 1]
  <2>1. /\ UNCHANGED <<status, wait, runs, resuming>>
        /\ data' = [data EXCEPT ![Parent[t.child]] = "child"]
        /\ parents' = (parents \ {t}) \cup {n} /\ t.next = "write"
    BY <1>3 DEF WriteParent, Proceed
  <2>2. RowsKept /\ data'[Parent[t.child]] = "child"
    BY <1>1, <2>1 DEF RowsKept, Waits
  <2>3. n.main = t.main /\ n.child = t.child /\ n.next = "start" /\ n.wait = t.wait
    BY <1>1 DEF ParentResumes
  <2> HIDE DEF n
  <2> QED BY <1>1, <2>1, <2>2, <2>3, ProceedHandOver
<1>4. CASE StartParent(t)
  <2>1. CASE status[Parent[t.child]] # "success"
    BY <1>4, <2>1, StartParentHandOver DEF HandOverInv
  <2>2. CASE status[Parent[t.child]] = "success"
    <3>1. /\ UNCHANGED <<status, wait, data, runs, resuming>>
          /\ parents' = parents \ {t} /\ t.next = "start"
      BY <1>4, <2>2 DEF StartParent, StartExecution, rowVars
    <3>2. RowsKept
      BY <3>1 DEF RowsKept, Waits
    <3> QED BY <1>1, <2>2, <3>1, <3>2, ProceedHandOver
  <2> QED BY <2>1, <2>2
<1>5. CASE ParentStepFails(t)
  <2> DEFINE next == IF t.next = "start" THEN "start" ELSE "read"
             n == [t EXCEPT !.attempt = @ + 1, !.next = next]
  <2>1. /\ UNCHANGED <<status, wait, data, runs, resuming>>
        /\ parents' = (parents \ {t}) \cup Retry(t, next) /\ t.next \in {"read", "write", "start"}
    BY <1>5 DEF ParentStepFails, rowVars
  <2>2. RowsKept
    BY <2>1 DEF RowsKept, Waits
  <2>3. Retry(t, next) \subseteq {n}
    BY DEF Retry
  <2>4. n.main = t.main /\ n.child = t.child /\ n.next = next /\ n.wait = t.wait
    BY <1>1 DEF ParentResumes
  <2>5. n.next = "start" => t.next = "start"
    BY <2>4
  <2>6. n.next \in {"read", "start"}
    BY <2>4
  <2> HIDE DEF n, next
  <2> QED BY <1>1, <2>1, <2>2, <2>3, <2>4, <2>5, <2>6, ProceedHandOver DEF HandOverInv, HandedOver
<1> QED BY <1>2, <1>3, <1>4, <1>5 DEF ParentStep

LEMMA HandOverStep ==
    WaitTypeOK /\ WaitTypeOK' /\ JobsRun /\ HandOverInv /\ [Next]_vars => HandOverInv'
<1> SUFFICES ASSUME WaitTypeOK, WaitTypeOK', JobsRun, HandOverInv, [Next]_vars
             PROVE  HandOverInv'
  OBVIOUS
<1>1. RunsOnce' /\ EndedKept
  BY RunsStep DEF HandOverInv
<1>2. CASE UNCHANGED vars
  BY <1>2
     DEF vars, rowVars, resumeVars, HandOverInv, RunsOnce, ParentsInOrder, ResumesInOrder,
         HandedOver, OutputReachesParent, Caller, Ended
<1>3. CASE Next
  BY <1>1, <1>3, ProcessHandOver, ExecutionHandOver, AddHandOver, ParentHandOver DEF Next
<1> QED BY <1>2, <1>3

(* A parent that a child resumes does not repeat its own input: the output *)
(* was written in the very wait that ends, in spite of failures, retries   *)
(* and other calls that resume the parent.                                 *)
THEOREM OutputAlwaysReachesParent == Spec => []OutputReachesParent
<1>1. HandOverInv => OutputReachesParent
  BY DEF HandOverInv
<1> QED BY <1>1, InitHandOver, HandOverStep, WaitTypeCorrect, RunsAlways, PTL DEF Spec

-----------------------------------------------------------------------------
(* What a call of resumeParentExecution waits for goes on.                 *)

(* Only a process that is up holds timers, results and calls.              *)
HeldByUp ==
    /\ \A m \in Mains : found[m] # {} \/ boot[m] # "starting" => process[m] = "up"
    /\ \A t \in armed : process[t[1]] = "up"
    /\ \A r \in resuming : process[r.main] = "up"
    /\ \A t \in parents : process[t.main] = "up"

(* A call that awaits a startExecution awaits one that is under way.       *)
StartsAwaited == \A t \in parents : t.next = "starting" => \E r \in resuming : t \in Caller(r)

LEMMA InitHeld == Init => HeldByUp /\ StartsAwaited
BY DEF Init, HeldByUp, StartsAwaited

LEMMA ProcessHeld ==
    ASSUME WaitTypeOK, HeldByUp, StartsAwaited, NEW m \in Mains, ProcessStep(m)
    PROVE  HeldByUp' /\ StartsAwaited'
<1> USE DEF WaitTypeOK, RoleTypeOK, HeldByUp
<1>1. CASE End(m)
  <2>1. \A n \in Mains : process'[n] = IF n = m THEN "off" ELSE process[n]
    BY <1>1 DEF End, EndProcess
  <2>2. HeldByUp'
    BY <1>1, <2>1 DEF End, Timers, Resumes, ParentResumes
  <2>3. StartsAwaited'
    BY <1>1 DEF End, StartsAwaited, Caller
  <2> QED BY <2>2, <2>3
<1>2. ASSUME ~End(m)
      PROVE  /\ UNCHANGED <<resuming, parents>>
             /\ \A n \in Mains : process[n] = "up" => process'[n] = "up"
  BY <1>2
     DEF ProcessStep, Start, StartProcess, GetRole, FirstRole, InitTracker, RegisterEventHandlers,
         TakeOver, TakeOverAsLeader, StepDown, StepDownToFollower, Poll, Track, resumeVars, roleVars
<1>3. ASSUME ~End(m)
      PROVE  \A n \in Mains : found'[n] # {} => process'[n] = "up"
  <2>1. \A n \in Mains : found'[n] = found[n] \/ found'[n] = {} \/ (n = m /\ process[m] = "up")
    BY <1>3
       DEF ProcessStep, Start, GetRole, InitTracker, RegisterEventHandlers, TakeOver,
           TakeOverAsLeader, StepDown, Poll, Track, StartTracking, QueryDatabase, trackerVars
  <2> QED BY <1>2, <1>3, <2>1
<1>4. ASSUME ~End(m)
      PROVE  \A n \in Mains : boot'[n] # "starting" => process'[n] = "up"
  <2>1. \A n \in Mains : boot'[n] = boot[n] \/ (n = m /\ process[m] = "up")
    BY <1>4
       DEF ProcessStep, Start, GetRole, InitTracker, RegisterEventHandlers, TakeOver,
           StepDown, Poll, Track
  <2> QED BY <1>2, <1>4, <2>1
<1>5. ASSUME ~End(m)
      PROVE  \A t \in armed' : process'[t[1]] = "up"
  <2>1. CASE Track(m)
    <3>1. process[m] = "up" /\ UNCHANGED process
      BY <2>1 DEF Track, roleVars
    <3>2. \A t \in armed' : t \in armed \/ t[1] = m
      BY <2>1 DEF Track, AddTimers
    <3> QED BY <3>1, <3>2
  <2>2. CASE ~Track(m)
    <3>1. armed' \subseteq armed
      BY <1>5, <2>2
         DEF ProcessStep, Start, GetRole, InitTracker, RegisterEventHandlers, TakeOver,
             StepDown, StopTracking, Poll, trackerVars
    <3> QED BY <1>2, <1>5, <3>1 DEF Timers
  <2> QED BY <2>1, <2>2
<1>6. CASE ~End(m)
  <2>1. HeldByUp'
    BY <1>2, <1>3, <1>4, <1>5, <1>6 DEF Resumes, ParentResumes
  <2>2. StartsAwaited'
    BY <1>2, <1>6 DEF StartsAwaited, Caller
  <2> QED BY <2>1, <2>2
<1> QED BY <1>1, <1>6

LEMMA ExecutionHeld ==
    ASSUME WaitTypeOK, HeldByUp, StartsAwaited, NEW e \in Executions, ExecutionStep(e)
    PROVE  HeldByUp' /\ StartsAwaited'
<1> USE DEF WaitTypeOK, HeldByUp
<1>1. ASSUME UNCHANGED <<process, boot, found, parents>>, armed' \subseteq armed,
             resuming \subseteq resuming', \A r \in resuming' : r \in resuming \/ process[r.main] = "up"
      PROVE  HeldByUp' /\ StartsAwaited'
  BY <1>1 DEF StartsAwaited, Caller
<1>2. ASSUME NEW m \in Mains, NEW w \in Waits, TimerFires(m, e, w)
      PROVE  HeldByUp' /\ StartsAwaited'
  <2>1. <<m, e, w>> \in armed
    BY <1>2 DEF TimerFires
  <2>2. process[m] = "up"
    BY <2>1
  <2>3. \A r \in resuming' : r \in resuming \/ r.main = m
    BY <1>2 DEF TimerFires, StartExecution, Resume
  <2>4. /\ UNCHANGED <<process, boot, found, parents>> /\ armed' \subseteq armed
        /\ resuming \subseteq resuming'
    BY <1>2 DEF TimerFires, StartExecution, roleVars
  <2> QED BY <1>1, <2>2, <2>3, <2>4
<1>3. ASSUME NEW m \in Mains, ExecuteWebhook(m, e)
      PROVE  HeldByUp' /\ StartsAwaited'
  <2>1. \A r \in resuming' : r \in resuming \/ r.main = m
    BY <1>3 DEF ExecuteWebhook, Resume
  <2> QED BY <1>1, <1>3, <2>1 DEF ExecuteWebhook, roleVars, trackerVars
<1>4. ASSUME NEW m \in Mains, NEW resumes \in BOOLEAN, parents' = Settled(m, e, resumes),
             UNCHANGED <<process, boot, found, armed, resuming>>
      PROVE  HeldByUp' /\ StartsAwaited'
  <2>1. \A t \in parents' : \/ t \in parents
                            \/ t.next = "read" /\ \E x \in parents : t.main = x.main
    <3>1. \A x \in parents : [x EXCEPT !.next = "read"].next = "read"
                             /\ [x EXCEPT !.next = "read"].main = x.main
      BY DEF ParentResumes
    <3> HIDE DEF HeldByUp, WaitTypeOK
    <3> QED BY <1>4, <3>1 DEF Settled
  <2>2. HeldByUp'
    BY <1>4, <2>1
  <2>3. StartsAwaited'
    BY <1>4, <2>1 DEF StartsAwaited, Caller
  <2> QED BY <2>2, <2>3
<1>5. ASSUME NEW m \in Mains, Finish(m, e) \/ WaitAgain(m, e) \/ Stop(m, e)
      PROVE  HeldByUp' /\ StartsAwaited'
  BY <1>1, <1>4, <1>5 DEF Finish, WaitAgain, Stop, roleVars, trackerVars, resumeVars
<1>6. CASE Elapse(e) \/ SetRunning(e) \/ StopDuringRun(e)
  BY <1>1, <1>6 DEF Elapse, SetRunning, StopDuringRun, roleVars, trackerVars, resumeVars
<1> QED BY <1>2, <1>3, <1>5, <1>6 DEF ExecutionStep

LEMMA AddHeld ==
    ASSUME WaitTypeOK, HeldByUp, StartsAwaited, NEW r \in resuming,
           Add(r) \/ Refuse(r) \/ ResumeFails(r)
    PROVE  HeldByUp' /\ StartsAwaited'
<1> USE DEF WaitTypeOK, HeldByUp
<1>1. /\ resuming' = resuming \ {r} /\ UNCHANGED <<process, boot, found, armed>>
      /\ process[r.main] = "up"
  BY DEF Add, Refuse, ResumeFails, roleVars, trackerVars
<1>2. ASSUME NEW t \in parents'
      PROVE  \/ t \in parents \ Caller(r)
             \/ t.next # "starting" /\ process[t.main] = "up"
  <2>1. CASE Add(r) \/ Refuse(r)
    BY <1>1, <2>1 DEF Add, Refuse, ForParent
  <2>2. CASE ResumeFails(r)
    <3>1. ASSUME NEW x \in Caller(r), t \in Retry(x, "start")
          PROVE  t.next = "start" /\ t.main = x.main /\ x \in parents
      <4>1. x \in parents /\ x \in ParentResumes
        BY <3>1 DEF Caller
      <4> QED BY <3>1, <4>1, RetryShape
    <3> QED BY <2>2, <3>1 DEF ResumeFails
  <2> QED BY <2>1, <2>2
<1>3. StartsAwaited'
  BY <1>1, <1>2 DEF StartsAwaited, Caller
<1> QED BY <1>1, <1>2, <1>3

LEMMA ParentHeld ==
    ASSUME WaitTypeOK, HeldByUp, StartsAwaited, NEW t \in parents,
           ParentStep(t) \/ ParentStepFails(t)
    PROVE  HeldByUp' /\ StartsAwaited'
<1> USE DEF WaitTypeOK, HeldByUp
<1>1. t \in ParentResumes /\ process[t.main] = "up"
  OBVIOUS
<1>2. UNCHANGED <<process, boot, found, armed>>
  BY DEF ParentStep, ReadParent, WriteParent, StartParent, ParentStepFails, rowVars, roleVars,
         trackerVars
<1>3. CASE StartParent(t)
  <2> DEFINE s == Resume(t.main, Parent[t.child], t.child)
             n == [t EXCEPT !.next = "starting"]
  <2>1. s.main = t.main /\ s.by = t.child
    BY DEF Resume
  <2>2. n.main = t.main /\ n.child = t.child /\ n.next = "starting"
    BY <1>1 DEF ParentResumes
  <2>3. \/ status[Parent[t.child]] = "success" /\ resuming' = resuming /\ parents' = parents \ {t}
        \/ resuming' = resuming \cup {s} /\ parents' = (parents \ {t}) \cup {n}
    BY <1>3 DEF StartParent, StartExecution, Proceed
  <2> HIDE DEF s, n
  <2>4. HeldByUp'
    BY <1>1, <1>2, <2>1, <2>2, <2>3
  <2>5. StartsAwaited'
    BY <2>1, <2>2, <2>3 DEF StartsAwaited, Caller
  <2> QED BY <2>4, <2>5
<1>4. CASE ~StartParent(t)
  <2>1. resuming' = resuming
    BY <1>4 DEF ParentStep, ReadParent, WriteParent, ParentStepFails, rowVars
  <2>2. \A u \in parents' : u \in parents \/ (u.next # "starting" /\ u.main = t.main)
    <3>1. CASE ReadParent(t) \/ WriteParent(t)
      <4> DEFINE w == [t EXCEPT !.next = "write", !.wait = wait[Parent[t.child]]]
                 n == [t EXCEPT !.next = "start", !.attempt = 1]
      <4>1. w.main = t.main /\ w.next = "write" /\ n.main = t.main /\ n.next = "start"
        BY <1>1 DEF ParentResumes
      <4> HIDE DEF w, n
      <4>2. parents' = (parents \ {t}) \cup {w} \/ parents' = (parents \ {t}) \cup {n}
        BY <3>1 DEF ReadParent, WriteParent, Proceed, w, n
      <4> QED BY <4>1, <4>2
    <3>2. CASE ParentStepFails(t)
      BY <1>1, <3>2, RetryShape DEF ParentStepFails
    <3> QED BY <1>4, <3>1, <3>2 DEF ParentStep
  <2>3. StartsAwaited'
    BY <2>1, <2>2 DEF StartsAwaited, Caller
  <2> QED BY <1>1, <1>2, <2>1, <2>2, <2>3
<1> QED BY <1>3, <1>4

(* What a call of resumeParentExecution waits for exists: the run of the   *)
(* child, a startExecution of the parent, or a step of its own; and the    *)
(* main that makes the call is up.  This is the safety half of             *)
(* ParentsResume (wait-tracker.ts startExecution, resumeParentExecution).  *)
ParentsAttended ==
    \A t \in parents :
        /\ process[t.main] = "up"
        /\ t.next = "child" => <<t.main, t.child>> \in runs
        /\ t.next = "starting" => \E r \in resuming : r.exec = Parent[t.child] /\ t \in Caller(r)

(* No parent is left behind by a call that waits for something that does   *)
(* not happen any more, whatever steps fail and processes end.             *)
THEOREM ParentsAttendedHolds == Spec => []ParentsAttended
<1>1. WaitTypeOK /\ HeldByUp /\ StartsAwaited /\ [Next]_vars => HeldByUp' /\ StartsAwaited'
  <2> SUFFICES ASSUME WaitTypeOK, HeldByUp, StartsAwaited, [Next]_vars
               PROVE  HeldByUp' /\ StartsAwaited'
    OBVIOUS
  <2>1. CASE UNCHANGED vars
    BY <2>1 DEF vars, roleVars, trackerVars, resumeVars, HeldByUp, StartsAwaited, Caller
  <2>2. CASE Next
    BY <2>2, ProcessHeld, ExecutionHeld, AddHeld, ParentHeld DEF Next
  <2> QED BY <2>1, <2>2
<1>2. WaitTypeOK /\ HandOverInv /\ HeldByUp /\ StartsAwaited => ParentsAttended
  <2> SUFFICES ASSUME WaitTypeOK, HandOverInv, HeldByUp, StartsAwaited, NEW t \in parents
               PROVE  /\ process[t.main] = "up"
                      /\ t.next = "child" => <<t.main, t.child>> \in runs
                      /\ t.next = "starting" =>
                            \E r \in resuming : r.exec = Parent[t.child] /\ t \in Caller(r)
    BY DEF ParentsAttended
  <2>1. ASSUME NEW r \in resuming, t \in Caller(r)
        PROVE  r.exec = Parent[t.child]
    <3>1. r.by = t.child /\ t.child \in Executions
      BY <2>1 DEF Caller, WaitTypeOK, ParentResumes
    <3> QED BY <3>1 DEF HandOverInv, ResumesInOrder
  <2> QED BY <2>1 DEF HandOverInv, ParentsInOrder, HeldByUp, StartsAwaited
<1> QED BY <1>1, <1>2, InitHeld, InitHandOver, HandOverStep, WaitTypeCorrect, RunsAlways, PTL DEF Spec

-----------------------------------------------------------------------------
(* Timers and entries.                                                     *)

(* Each entry of m has the timer that will resume its execution.           *)
EntriesArmed(m) == \A e \in Executions : entry[m][e] # 0 => <<m, e, entry[m][e]>> \in armed

LEMMA ArmedStep ==
    ASSUME WaitTypeOK, NEW m \in Mains, EntriesArmed(m), mainTimer'[m] # "cleared", [Next]_vars
    PROVE  EntriesArmed(m)'
<1> USE DEF WaitTypeOK, EntriesArmed
<1>1. CASE UNCHANGED <<entry, armed>>
  BY <1>1
<1>2. ASSUME NEW n \in Mains, Track(n) PROVE EntriesArmed(m)'
  <2>1. PICK pick \in [Executions -> 0..MaxWaits] :
          /\ entry' = [entry EXCEPT ![n] =
                [e \in Executions |-> IF pick[e] = 0 THEN entry[n][e] ELSE pick[e]]]
          /\ armed' = armed \cup {<<n, e, pick[e]>> : e \in {x \in Executions : pick[x] # 0}}
    BY <1>2 DEF Track, AddTimers
  <2>2. CASE n = m
    BY <2>1, <2>2
  <2>3. CASE n # m
    BY <2>1, <2>3
  <2> QED BY <2>2, <2>3
<1>3. ASSUME NEW n \in Mains, StepDown(n) PROVE EntriesArmed(m)'
  <2>1. entry' = entry /\ \A t \in armed : t[1] # n => t \in armed'
    BY <1>3 DEF StepDown, StopTracking
  <2>2. n = m => armed' = armed
    BY <1>3 DEF StepDown, StopTracking
  <2> QED BY <2>1, <2>2
<1>4. ASSUME NEW n \in Mains, End(n) PROVE EntriesArmed(m)'
  BY <1>4 DEF End
<1>5. ASSUME NEW n \in Mains, NEW e \in Executions, NEW w \in 0..MaxWaits,
             entry' = [entry EXCEPT ![n][e] = 0], armed \ {<<n, e, w>>} \subseteq armed'
      PROVE  EntriesArmed(m)'
  BY <1>5
<1>6. ASSUME NEW n \in Mains, NEW e \in Executions, NEW w \in Waits, TimerFires(n, e, w)
      PROVE  EntriesArmed(m)'
  BY <1>5, <1>6 DEF TimerFires, StartExecution, Waits
<1>7. ASSUME NEW n \in Mains, NEW e \in Executions, Stop(n, e) PROVE EntriesArmed(m)'
  BY <1>5, <1>7 DEF Stop
<1>8. ASSUME NEW t \in parents, StartParent(t) PROVE EntriesArmed(m)'
  <2>1. t.main \in Mains /\ Parent[t.child] \in Executions /\ 0 \in 0..MaxWaits
    BY WaitAssumption DEF ParentResumes
  <2> QED BY <1>5, <1>8, <2>1 DEF StartParent, StartExecution
<1>9. ASSUME NEW n \in Mains, ProcessStep(n), ~Track(n), ~StepDown(n), ~End(n)
      PROVE  UNCHANGED <<entry, armed>>
  BY <1>9
     DEF ProcessStep, Start, GetRole, InitTracker, RegisterEventHandlers, TakeOver, Poll, trackerVars
<1>10. ASSUME NEW n \in Mains, NEW e \in Executions,
              \/ Elapse(e) \/ SetRunning(e) \/ StopDuringRun(e)
              \/ ExecuteWebhook(n, e) \/ Finish(n, e) \/ WaitAgain(n, e)
       PROVE  UNCHANGED <<entry, armed>>
  BY <1>10 DEF Elapse, SetRunning, StopDuringRun, ExecuteWebhook, Finish, WaitAgain, trackerVars
<1>11. ASSUME NEW r \in resuming, Add(r) \/ Refuse(r) \/ ResumeFails(r)
       PROVE  UNCHANGED <<entry, armed>>
  BY <1>11 DEF Add, Refuse, ResumeFails, trackerVars
<1>12. ASSUME NEW t \in parents, ReadParent(t) \/ WriteParent(t) \/ ParentStepFails(t)
       PROVE  UNCHANGED <<entry, armed>>
  BY <1>12 DEF ReadParent, WriteParent, ParentStepFails, trackerVars
<1> QED
  BY <1>1, <1>2, <1>3, <1>4, <1>6, <1>7, <1>8, <1>9, <1>10, <1>11, <1>12
     DEF Next, ExecutionStep, ParentStep, vars, trackerVars

(* A main that was never told to stop tracking has a timer for each entry, *)
(* so that no entry keeps a wait from being tracked again (wait-tracker.ts *)
(* getWaitingExecutions); after stopTracking there is no such promise.     *)
THEOREM EntriesStayArmed ==
    ASSUME NEW m \in Mains
    PROVE  Spec /\ [](mainTimer[m] # "cleared") => []EntriesArmed(m)
<1>1. Init => EntriesArmed(m)
  BY DEF Init, EntriesArmed
<1>2. WaitTypeOK /\ EntriesArmed(m) /\ (mainTimer[m] # "cleared")' /\ [Next]_vars => EntriesArmed(m)'
  BY ArmedStep
<1> QED BY <1>1, <1>2, WaitTypeCorrect, PTL DEF Spec
=============================================================================
