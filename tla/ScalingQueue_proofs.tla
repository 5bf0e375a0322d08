------------------------- MODULE ScalingQueue_proofs -------------------------
(***************************************************************************)
(* Proofs about ScalingQueue, for any number of mains, workers, executions *)
(* and any trouble.                                                        *)
(*                                                                         *)
(* A job goes through the queue once, so that it is on one worker at most  *)
(* (WorkInOrder), and what may be removed has not been on one              *)
(* (RemovalsInOrder).  A success that the owner learns of was saved by     *)
(* that worker and is the last thing it saved (AnswersInOrder).  Who waits *)
(* is attended (EntriesAttended), and a leader recovers (LeaderRecovers).  *)
(***************************************************************************)
EXTENDS ScalingQueue, TLAPS

-----------------------------------------------------------------------------
(* The inductive invariant.                                                *)

(* Until its job is in the queue, an execution has no job, and stopJob is  *)
(* only called for one that is.                                            *)
CallsInOrder ==
    \A e \in Executions :
        /\ status[e] = "none" =>
              owner[e] = None /\ call[e] = "none" /\ job[e] = "none" /\ stopJob[e] = "none"
        /\ call[e] = "adding" =>
              /\ job[e] = "none" /\ stopJob[e] = "none"
              /\ status[e] \in {"new", "canceled", "crashed"}
        /\ stopJob[e] # "none" => call[e] = "awaiting" \/ job[e] \notin {"none", "waiting"}

(* A job on a worker has been taken from the queue and has not ended.      *)
WorkInOrder ==
    /\ OneWorkerRuns
    /\ \A x \in work : job[x.exec] \in {"active", "stalled"}

(* A job that may be removed has not run.                                  *)
RemovalsInOrder ==
    \A e \in Executions :
        /\ job[e] = "removed" => call[e] \in {"awaiting", "left"}
        /\ job[e] = "removed" \/ (job[e] = "waiting" /\ call[e] = "awaiting") =>
              status[e] \in {"new", "canceled", "crashed"}

(* Some part of the system knows of a success.                             *)
SuccessKnown(e) ==
    \/ message[e] = "success" \/ result[e] = "success"
    \/ \E x \in work : x.exec = e /\ x.next = "success"

(* A result is known only after the row was saved for the last time, and   *)
(* the owner, while it waits, has not saved an error.                      *)
AnswersInOrder ==
    \A e \in Executions :
        /\ message[e] # "none" \/ result[e] # "none" =>
              /\ job[e] \notin {"none", "waiting", "removed"}
              /\ \A x \in work : x.exec = e => x.next = "sent"
        /\ SuccessKnown(e) /\ call[e] \in {"awaiting", "reading"} =>
              status[e] \in {"success", "canceled"}
        /\ call[e] = "reading" => job[e] = "completed"
        /\ told[e] = "success" =>
              call[e] = "left" /\ job[e] = "completed" /\ status[e] \in {"success", "canceled"}

ScalingInv ==
    ScalingTypeOK /\ CallsInOrder /\ WorkInOrder /\ RemovalsInOrder /\ AnswersInOrder

-----------------------------------------------------------------------------

LEMMA RoleTypeStep ==
    ASSUME RoleTypeOK, NEW m \in Mains,
           \/ StartProcess(m) \/ EndProcess(m)
           \/ \E r \in {"leader", "follower"} : FirstRole(m, r)
           \/ TakeOverAsLeader(m) \/ StepDownToFollower(m)
    PROVE  RoleTypeOK'
BY DEF RoleTypeOK, StartProcess, EndProcess, FirstRole, TakeOverAsLeader, StepDownToFollower,
       BecomeRole

LEMMA RoleTypeUnchanged ==
    ASSUME RoleTypeOK, UNCHANGED roleVars
    PROVE  RoleTypeOK'
BY DEF RoleTypeOK, roleVars

LEMMA InitInv == Init => ScalingInv
<1> SUFFICES ASSUME Init PROVE ScalingInv
  OBVIOUS
<1> USE ScalingAssumption DEF Init, RoleInit
<1>1. RoleTypeOK
  BY DEF RoleTypeOK
<1>2. ScalingTypeOK
  BY <1>1 DEF ScalingTypeOK, Outcomes, Work, Recoveries
<1>3. CallsInOrder /\ WorkInOrder /\ RemovalsInOrder /\ AnswersInOrder
  BY DEF CallsInOrder, WorkInOrder, OneWorkerRuns, RemovalsInOrder, AnswersInOrder, SuccessKnown
<1> QED BY <1>2, <1>3 DEF ScalingInv

Steps == {"read", "set", "register", "running", "cancelling", "sent"} \cup Outcomes

(* Once x has moved on, its execution is on no other worker.               *)
LEMMA Moves ==
    ASSUME ScalingTypeOK, WorkInOrder, NEW x \in work,
           NEW n \in Steps, NextStep(x, n)
    PROVE  /\ x.exec \in Executions
           /\ \E z \in work' : z.exec = x.exec /\ z.next = n
           /\ \A y \in work' : (y \in work /\ y.exec # x.exec) \/ (y.exec = x.exec /\ y.next = n)
           /\ \A y, z \in work' : y.exec = x.exec /\ z.exec = x.exec => y = z
<1>1. x \in Work /\ \A y \in work : y.exec = x.exec => y = x
  BY DEF ScalingTypeOK, WorkInOrder, OneWorkerRuns
<1> DEFINE moved == [x EXCEPT !.next = n]
<1>2. moved.exec = x.exec /\ moved.next = n /\ x.exec \in Executions
  BY <1>1 DEF Work
<1>3. work' = (work \ {x}) \cup {moved}
  BY DEF NextStep
<1> HIDE DEF moved
<1>4. \A y \in work' : y = moved \/ (y \in work /\ y.exec # x.exec)
  BY <1>1, <1>3
<1>5. moved \in work'
  BY <1>3
<1> QED BY <1>2, <1>4, <1>5

LEMMA MovesInOrder ==
    ASSUME ScalingTypeOK, WorkInOrder, NEW x \in work, NEW n \in Steps, NextStep(x, n),
           UNCHANGED job
    PROVE  WorkInOrder'
<1>1. /\ \A y \in work' : (y \in work /\ y.exec # x.exec) \/ (y.exec = x.exec /\ y.next = n)
      /\ \A y, z \in work' : y.exec = x.exec /\ z.exec = x.exec => y = z
  BY Moves
<1>2. OneWorkerRuns'
  BY <1>1 DEF WorkInOrder, OneWorkerRuns
<1>3. \A y \in work' : job'[y.exec] \in {"active", "stalled"}
  BY <1>1 DEF WorkInOrder
<1> QED BY <1>2, <1>3 DEF WorkInOrder

LEMMA Ends ==
    ASSUME ScalingTypeOK, WorkInOrder, NEW x \in work, NEW s, EndJob(x, s)
    PROVE  /\ x.exec \in Executions
           /\ \A y \in work' : y \in work /\ y.exec # x.exec
BY DEF ScalingTypeOK, Work, WorkInOrder, OneWorkerRuns, EndJob

LEMMA EndsInOrder ==
    ASSUME ScalingTypeOK, WorkInOrder, NEW x \in work, NEW s, EndJob(x, s)
    PROVE  WorkInOrder'
<1>1. /\ x.exec \in Executions
      /\ \A y \in work' : y \in work /\ y.exec # x.exec
  BY Ends
<1>2. OneWorkerRuns'
  BY <1>1 DEF WorkInOrder, OneWorkerRuns
<1>3. \A y \in work' : y.exec \in Executions /\ job'[y.exec] = job[y.exec]
  BY <1>1 DEF EndJob, ScalingTypeOK, Work
<1> QED BY <1>1, <1>2, <1>3 DEF WorkInOrder

LEMMA Aborts ==
    ASSUME ScalingTypeOK, WorkInOrder, NEW e \in Executions, ReceiveAbort(e)
    PROVE  /\ \A y \in work' : \E x \in work :
                /\ y.exec = x.exec
                /\ y = x \/ (x.next = "running" /\ y.next = "cancelling")
           /\ \A y, z \in work' : y.exec = z.exec => y = z
<1> DEFINE F(x) == IF x.exec = e /\ x.next = "running" THEN [x EXCEPT !.next = "cancelling"] ELSE x
<1>1. work' = {F(x) : x \in work}
  BY DEF ReceiveAbort
<1>2. \A x \in work : F(x).exec = x.exec /\ (F(x) = x \/ (x.next = "running" /\ F(x).next = "cancelling"))
  BY DEF ScalingTypeOK, Work
<1> HIDE DEF F
<1> QED BY <1>1, <1>2 DEF WorkInOrder, OneWorkerRuns

(* Roles and the timers of the recovery do not touch executions and jobs.  *)
LEMMA Bystanders ==
    ASSUME \/ \E m \in Mains : Start(m) \/ GetRole(m) \/ TakeOver(m) \/ StepDown(m) \/ RecoveryFires(m)
           \/ \E r \in recoveries : RecoverQueue(r) \/ RecoveryFails(r)
           \/ UNCHANGED vars
    PROVE  UNCHANGED <<status, callVars, stopJob, queueVars, work>>
BY
   DEF Start, GetRole, TakeOver, StepDown, RecoveryFires, RecoverQueue, RecoveryFails, vars,
       stopVars

(* Every step keeps the types.                                            *)
LEMMA TypeStep ==
    ASSUME ScalingTypeOK, [Next]_vars
    PROVE  ScalingTypeOK'
<1> USE ScalingAssumption DEF ScalingTypeOK, callVars, stopVars, queueVars, recoveryVars
<1>1. ASSUME NEW m \in Mains, Start(m) PROVE ScalingTypeOK'
  BY <1>1, RoleTypeStep DEF Start, Outcomes, Work, Recoveries
<1>2. ASSUME NEW m \in Mains, GetRole(m) PROVE ScalingTypeOK'
  BY <1>2, RoleTypeStep DEF GetRole, Schedule, Outcomes, Work, Recoveries
<1>3. ASSUME NEW m \in Mains, TakeOver(m) PROVE ScalingTypeOK'
  BY <1>3, RoleTypeStep DEF TakeOver, Schedule, Outcomes, Work, Recoveries
<1>4. ASSUME NEW m \in Mains, StepDown(m) PROVE ScalingTypeOK'
  BY <1>4, RoleTypeStep DEF StepDown, Trouble, Outcomes, Work, Recoveries
<1>5. ASSUME NEW m \in Mains, End(m) PROVE ScalingTypeOK'
  BY <1>5, RoleTypeStep DEF End, Trouble, Outcomes, Work, Recoveries
<1>6. ASSUME NEW m \in Mains, RecoveryFires(m) PROVE ScalingTypeOK'
  BY <1>6, RoleTypeUnchanged DEF RecoveryFires, Outcomes, Work, Recoveries
<1>7. ASSUME NEW m \in Mains, NEW e \in Executions, Run(m, e) PROVE ScalingTypeOK'
  BY <1>7, RoleTypeUnchanged DEF Run, Outcomes, Work, Recoveries
<1>8. ASSUME NEW m \in Mains, NEW e \in Executions, Stop(m, e) PROVE ScalingTypeOK'
  BY <1>8, RoleTypeUnchanged DEF Stop, Finalize, Trouble, Outcomes, Work, Recoveries
<1>9. ASSUME NEW m \in Mains, NEW e \in Executions, StopWrite(m, e) PROVE ScalingTypeOK'
  BY <1>9, RoleTypeUnchanged DEF StopWrite, Outcomes, Work, Recoveries
<1>10. ASSUME NEW e \in Executions, AddJob(e) PROVE ScalingTypeOK'
  BY <1>10, RoleTypeUnchanged DEF AddJob, Outcomes, Work, Recoveries
<1>11. ASSUME NEW e \in Executions, AddJobFails(e) PROVE ScalingTypeOK'
  BY <1>11, RoleTypeUnchanged DEF AddJobFails, Trouble, Outcomes, Work, Recoveries
<1>12. ASSUME NEW e \in Executions, Finished(e) PROVE ScalingTypeOK'
  BY <1>12, RoleTypeUnchanged DEF Finished, JobCompleted, Finalize, Outcomes, Work, Recoveries
<1>13. ASSUME NEW e \in Executions, ReadResult(e) PROVE ScalingTypeOK'
  BY <1>13, RoleTypeUnchanged DEF ReadResult, Finalize, RowResult, Outcomes, Work, Recoveries
<1>14. ASSUME NEW e \in Executions, SanityRun(e) PROVE ScalingTypeOK'
  BY <1>14, RoleTypeUnchanged DEF SanityRun, Finalize, Outcomes, Work, Recoveries
<1>15. ASSUME NEW e \in Executions, SaveError(e) PROVE ScalingTypeOK'
  BY <1>15, RoleTypeUnchanged DEF SaveError, Outcomes, Work, Recoveries
<1>16. ASSUME NEW e \in Executions, JobFinishedMessage(e) PROVE ScalingTypeOK'
  BY <1>16, RoleTypeUnchanged DEF JobFinishedMessage, Outcomes, Work, Recoveries
<1>17. ASSUME NEW e \in Executions, CheckJob(e) PROVE ScalingTypeOK'
  BY <1>17, RoleTypeUnchanged DEF CheckJob, Outcomes, Work, Recoveries
<1>18. ASSUME NEW e \in Executions, AbortJob(e) PROVE ScalingTypeOK'
  BY <1>18, RoleTypeUnchanged DEF AbortJob, Outcomes, Work, Recoveries
<1>19. ASSUME NEW e \in Executions, RemoveJob(e) PROVE ScalingTypeOK'
  BY <1>19, RoleTypeUnchanged DEF RemoveJob, Removable, Outcomes, Work, Recoveries
<1>20. ASSUME NEW w \in Workers, CrashWorker(w) PROVE ScalingTypeOK'
  BY <1>20, RoleTypeUnchanged DEF CrashWorker, Trouble, Outcomes, Work, Recoveries
<1>21. ASSUME NEW w \in Workers, NEW e \in Executions, Pick(w, e) PROVE ScalingTypeOK'
  BY <1>21, RoleTypeUnchanged DEF Pick, Outcomes, Work, Recoveries
<1>22. ASSUME NEW x \in work, ReadRow(x) PROVE ScalingTypeOK'
  BY <1>22, RoleTypeUnchanged DEF ReadRow, EndJob, NextStep, Outcomes, Work, Recoveries
<1>23. ASSUME NEW x \in work, SetRunning(x) PROVE ScalingTypeOK'
  BY <1>23, RoleTypeUnchanged DEF SetRunning, NextStep, Outcomes, Work, Recoveries
<1>24. ASSUME NEW x \in work, Register(x) PROVE ScalingTypeOK'
  BY <1>24, RoleTypeUnchanged DEF Register, NextStep, Outcomes, Work, Recoveries
<1>25. ASSUME NEW x \in work, RunEnds(x) PROVE ScalingTypeOK'
  BY <1>25, RoleTypeUnchanged DEF RunEnds, NextStep, Outcomes, Work, Recoveries
<1>26. ASSUME NEW x \in work, Report(x) PROVE ScalingTypeOK'
  BY <1>26, RoleTypeUnchanged DEF Report, NextStep, EndJob, Outcomes, Work, Recoveries
<1>27. ASSUME NEW x \in work, Complete(x) PROVE ScalingTypeOK'
  BY <1>27, RoleTypeUnchanged DEF Complete, EndJob, Outcomes, Work, Recoveries
<1>28. ASSUME NEW x \in work, TaskFails(x) PROVE ScalingTypeOK'
  BY <1>28, RoleTypeUnchanged DEF TaskFails, Trouble, EndJob, Outcomes, Work, Recoveries
<1>29. ASSUME NEW e \in Executions, ReceiveAbort(e) PROVE ScalingTypeOK'
  BY <1>29, RoleTypeUnchanged DEF ReceiveAbort, Outcomes, Work, Recoveries
<1>30. ASSUME NEW e \in Executions, Stall(e) PROVE ScalingTypeOK'
  BY <1>30, RoleTypeUnchanged DEF Stall, Trouble, Stalled, Outcomes, Work, Recoveries
<1>31. ASSUME NEW r \in recoveries, RecoverQueue(r) PROVE ScalingTypeOK'
  <2>1. DEFINE dangling == {e \in r.ids : ~Queued(e)}
  <2>2. r \in Recoveries /\ dangling \subseteq Executions /\ r.main \in Mains
    BY <1>31 DEF Recoveries
  <2>3. [r EXCEPT !.ids = dangling, !.next = "mark"] \in Recoveries
    BY <2>2 DEF Recoveries
  <2>4. recoveries' \subseteq Recoveries
    BY <1>31, <2>3 DEF RecoverQueue
  <2>5. timer' \subseteq Mains /\ older' \subseteq Mains
    BY <1>31, <2>2 DEF RecoverQueue, Schedule
  <2> QED
    BY <1>31, <2>4, <2>5, RoleTypeUnchanged
       DEF RecoverQueue
<1>32. ASSUME NEW r \in recoveries, RecoverMark(r) PROVE ScalingTypeOK'
  BY <1>32, RoleTypeUnchanged DEF RecoverMark, Schedule, Crashable, Outcomes, Work, Recoveries
<1>33. ASSUME NEW r \in recoveries, RecoveryFails(r) PROVE ScalingTypeOK'
  BY <1>33, RoleTypeUnchanged DEF RecoveryFails, Trouble, Schedule, Outcomes, Work, Recoveries
<1>34. CASE UNCHANGED vars
  BY <1>34, RoleTypeUnchanged DEF vars, Outcomes, Work, Recoveries
<1> QED
  BY <1>1, <1>2, <1>3, <1>4, <1>5, <1>6, <1>7, <1>8, <1>9, <1>10, <1>11, <1>12, <1>13, <1>14,
     <1>15, <1>16, <1>17, <1>18, <1>19, <1>20, <1>21, <1>22, <1>23, <1>24, <1>25, <1>26, <1>27,
     <1>28, <1>29, <1>30, <1>31, <1>32, <1>33, <1>34
     DEF Next, MainNext, CallNext, WorkerNext, RecoveryNext, Process

(* A job is added once, for an execution that has a row.                   *)
LEMMA CallsStep ==
    ASSUME ScalingTypeOK, CallsInOrder, WorkInOrder, [Next]_vars
    PROVE  CallsInOrder'
<1> USE ScalingAssumption
   DEF ScalingTypeOK, CallsInOrder, callVars, stopVars, queueVars, recoveryVars
<1>1. ASSUME NEW m \in Mains, End(m) PROVE CallsInOrder'
  BY <1>1 DEF End, Trouble
<1>2. ASSUME NEW m \in Mains, NEW e \in Executions, Run(m, e) PROVE CallsInOrder'
  BY <1>2 DEF Run
<1>3. ASSUME NEW m \in Mains, NEW e \in Executions, Stop(m, e) PROVE CallsInOrder'
  BY <1>3 DEF Stop, Finalize, Trouble
<1>4. ASSUME NEW m \in Mains, NEW e \in Executions, StopWrite(m, e) PROVE CallsInOrder'
  BY <1>4 DEF StopWrite
<1>5. ASSUME NEW e \in Executions, AddJob(e) PROVE CallsInOrder'
  BY <1>5 DEF AddJob
<1>6. ASSUME NEW e \in Executions, AddJobFails(e) PROVE CallsInOrder'
  BY <1>6 DEF AddJobFails, Trouble
<1>7. ASSUME NEW e \in Executions, Finished(e) PROVE CallsInOrder'
  BY <1>7 DEF Finished, JobCompleted, Finalize
<1>8. ASSUME NEW e \in Executions, ReadResult(e) PROVE CallsInOrder'
  BY <1>8 DEF ReadResult, Finalize, RowResult
<1>9. ASSUME NEW e \in Executions, SanityRun(e) PROVE CallsInOrder'
  BY <1>9 DEF SanityRun, Finalize
<1>10. ASSUME NEW e \in Executions, SaveError(e) PROVE CallsInOrder'
  BY <1>10 DEF SaveError
<1>11. ASSUME NEW e \in Executions, JobFinishedMessage(e) PROVE CallsInOrder'
  BY <1>11 DEF JobFinishedMessage
<1>12. ASSUME NEW e \in Executions, CheckJob(e) PROVE CallsInOrder'
  BY <1>12 DEF CheckJob
<1>13. ASSUME NEW e \in Executions, AbortJob(e) PROVE CallsInOrder'
  BY <1>13 DEF AbortJob
<1>14. ASSUME NEW e \in Executions, RemoveJob(e) PROVE CallsInOrder'
  BY <1>14 DEF RemoveJob, Removable
<1>15. ASSUME NEW w \in Workers, CrashWorker(w) PROVE CallsInOrder'
  BY <1>15 DEF CrashWorker, Trouble
<1>16. ASSUME NEW w \in Workers, NEW e \in Executions, Pick(w, e) PROVE CallsInOrder'
  BY <1>16 DEF Pick
<1>17. ASSUME NEW x \in work, ReadRow(x) PROVE CallsInOrder'
  BY <1>17 DEF ReadRow, EndJob, NextStep
<1>18. ASSUME NEW x \in work, SetRunning(x) PROVE CallsInOrder'
  <2>1. x.exec \in Executions /\ job[x.exec] \in {"active", "stalled"}
    BY WorkInOrder DEF Work, WorkInOrder
  <2>2. status'[x.exec] # "none" /\ \A e \in Executions : e # x.exec => status'[e] = status[e]
    BY <1>18, <2>1 DEF SetRunning, Outcomes
  <2> QED BY <1>18, <2>1, <2>2 DEF SetRunning
<1>19. ASSUME NEW x \in work, Register(x) PROVE CallsInOrder'
  BY <1>19 DEF Register, NextStep
<1>20. ASSUME NEW x \in work, RunEnds(x) PROVE CallsInOrder'
  <2>1. x.exec \in Executions /\ job[x.exec] \in {"active", "stalled"}
    BY WorkInOrder DEF Work, WorkInOrder
  <2>2. status'[x.exec] # "none" /\ \A e \in Executions : e # x.exec => status'[e] = status[e]
    BY <1>20, <2>1 DEF RunEnds, Outcomes
  <2> QED BY <1>20, <2>1, <2>2 DEF RunEnds
<1>21. ASSUME NEW x \in work, Report(x) PROVE CallsInOrder'
  BY <1>21 DEF Report, NextStep, EndJob
<1>22. ASSUME NEW x \in work, Complete(x) PROVE CallsInOrder'
  BY <1>22 DEF Complete, EndJob
<1>23. ASSUME NEW x \in work, TaskFails(x) PROVE CallsInOrder'
  BY <1>23 DEF TaskFails, Trouble, EndJob
<1>24. ASSUME NEW e \in Executions, ReceiveAbort(e) PROVE CallsInOrder'
  BY <1>24 DEF ReceiveAbort
<1>25. ASSUME NEW e \in Executions, Stall(e) PROVE CallsInOrder'
  BY <1>25 DEF Stall, Trouble, Stalled
<1>26. ASSUME NEW r \in recoveries, RecoverMark(r) PROVE CallsInOrder'
  BY <1>26 DEF RecoverMark, Schedule, Crashable
<1>27. CASE UNCHANGED <<status, callVars, stopJob, queueVars, work>>
  BY <1>27
<1> QED
  BY <1>1, <1>2, <1>3, <1>4, <1>5, <1>6, <1>7, <1>8, <1>9, <1>10, <1>11, <1>12, <1>13, <1>14,
     <1>15, <1>16, <1>17, <1>18, <1>19, <1>20, <1>21, <1>22, <1>23, <1>24, <1>25, <1>26, <1>27,
     Bystanders
     DEF Next, MainNext, CallNext, WorkerNext, RecoveryNext, Process

(* Only Pick gives a job to a worker, and it needs a waiting one.          *)
LEMMA WorkStep ==
    ASSUME ScalingTypeOK, WorkInOrder, CallsInOrder, [Next]_vars
    PROVE  WorkInOrder'
<1> USE DEF ScalingTypeOK, CallsInOrder, callVars, stopVars, queueVars, recoveryVars
<1>1. ASSUME NEW m \in Mains, End(m) PROVE WorkInOrder'
  BY <1>1 DEF End, Trouble, WorkInOrder, OneWorkerRuns
<1>2. ASSUME NEW m \in Mains, NEW e \in Executions, Run(m, e) PROVE WorkInOrder'
  BY <1>2 DEF Run, WorkInOrder, OneWorkerRuns
<1>3. ASSUME NEW m \in Mains, NEW e \in Executions, Stop(m, e) PROVE WorkInOrder'
  BY <1>3 DEF Stop, Finalize, Trouble, WorkInOrder, OneWorkerRuns
<1>4. ASSUME NEW m \in Mains, NEW e \in Executions, StopWrite(m, e) PROVE WorkInOrder'
  BY <1>4 DEF StopWrite, WorkInOrder, OneWorkerRuns
<1>5. ASSUME NEW e \in Executions, AddJob(e) PROVE WorkInOrder'
  BY <1>5 DEF AddJob, WorkInOrder, OneWorkerRuns
<1>6. ASSUME NEW e \in Executions, AddJobFails(e) PROVE WorkInOrder'
  BY <1>6 DEF AddJobFails, Trouble, WorkInOrder, OneWorkerRuns
<1>7. ASSUME NEW e \in Executions, Finished(e) PROVE WorkInOrder'
  BY <1>7 DEF Finished, JobCompleted, Finalize, WorkInOrder, OneWorkerRuns
<1>8. ASSUME NEW e \in Executions, ReadResult(e) PROVE WorkInOrder'
  BY <1>8 DEF ReadResult, Finalize, RowResult, WorkInOrder, OneWorkerRuns
<1>9. ASSUME NEW e \in Executions, SanityRun(e) PROVE WorkInOrder'
  BY <1>9 DEF SanityRun, Finalize, WorkInOrder, OneWorkerRuns
<1>10. ASSUME NEW e \in Executions, SaveError(e) PROVE WorkInOrder'
  BY <1>10 DEF SaveError, WorkInOrder, OneWorkerRuns
<1>11. ASSUME NEW e \in Executions, JobFinishedMessage(e) PROVE WorkInOrder'
  BY <1>11 DEF JobFinishedMessage, WorkInOrder, OneWorkerRuns
<1>12. ASSUME NEW e \in Executions, CheckJob(e) PROVE WorkInOrder'
  BY <1>12 DEF CheckJob, WorkInOrder, OneWorkerRuns
<1>13. ASSUME NEW e \in Executions, AbortJob(e) PROVE WorkInOrder'
  BY <1>13 DEF AbortJob, WorkInOrder, OneWorkerRuns
<1>14. ASSUME NEW e \in Executions, RemoveJob(e) PROVE WorkInOrder'
  BY <1>14 DEF RemoveJob, Removable, WorkInOrder, OneWorkerRuns
<1>15. ASSUME NEW w \in Workers, CrashWorker(w) PROVE WorkInOrder'
  BY <1>15 DEF CrashWorker, Trouble, WorkInOrder, OneWorkerRuns
<1>16. ASSUME NEW w \in Workers, NEW e \in Executions, Pick(w, e) PROVE WorkInOrder'
  BY <1>16 DEF Pick, WorkInOrder, OneWorkerRuns
<1>17. ASSUME NEW x \in work, ReadRow(x) PROVE WorkInOrder'
  BY <1>17, MovesInOrder, EndsInOrder DEF ReadRow, Steps, Outcomes
<1>18. ASSUME NEW x \in work, SetRunning(x) PROVE WorkInOrder'
  BY <1>18, MovesInOrder DEF SetRunning, Steps, Outcomes, queueVars
<1>19. ASSUME NEW x \in work, Register(x) PROVE WorkInOrder'
  BY <1>19, MovesInOrder DEF Register, Steps, Outcomes, queueVars
<1>20. ASSUME NEW x \in work, RunEnds(x) PROVE WorkInOrder'
  BY <1>20, MovesInOrder DEF RunEnds, Steps, Outcomes, queueVars
<1>21. ASSUME NEW x \in work, Report(x) PROVE WorkInOrder'
  BY <1>21, MovesInOrder, EndsInOrder DEF Report, Steps, Outcomes
<1>22. ASSUME NEW x \in work, Complete(x) PROVE WorkInOrder'
  BY <1>22, EndsInOrder DEF Complete
<1>23. ASSUME NEW x \in work, TaskFails(x) PROVE WorkInOrder'
  BY <1>23, EndsInOrder DEF TaskFails
<1>24. ASSUME NEW e \in Executions, ReceiveAbort(e) PROVE WorkInOrder'
  <2>1. /\ \A y \in work' : \E x \in work : y.exec = x.exec
        /\ \A y, z \in work' : y.exec = z.exec => y = z
    BY <1>24, Aborts
  <2> QED BY <1>24, <2>1 DEF ReceiveAbort, WorkInOrder, OneWorkerRuns
<1>25. ASSUME NEW e \in Executions, Stall(e) PROVE WorkInOrder'
  BY <1>25 DEF Stall, Trouble, Stalled, WorkInOrder, OneWorkerRuns
<1>26. ASSUME NEW r \in recoveries, RecoverMark(r) PROVE WorkInOrder'
  BY <1>26 DEF RecoverMark, Schedule, Crashable, WorkInOrder, OneWorkerRuns
<1>27. CASE UNCHANGED <<status, callVars, stopJob, queueVars, work>>
  BY <1>27 DEF WorkInOrder, OneWorkerRuns
<1> QED
  BY <1>1, <1>2, <1>3, <1>4, <1>5, <1>6, <1>7, <1>8, <1>9, <1>10, <1>11, <1>12, <1>13, <1>14,
     <1>15, <1>16, <1>17, <1>18, <1>19, <1>20, <1>21, <1>22, <1>23, <1>24, <1>25, <1>26, <1>27,
     Bystanders
     DEF Next, MainNext, CallNext, WorkerNext, RecoveryNext, Process

(* A status other than new, canceled and crashed is written by a worker,   *)
(* which has the job, or by an owner that has stopped waiting for it.      *)
LEMMA RemovalsStep ==
    ASSUME ScalingTypeOK, WorkInOrder, CallsInOrder, RemovalsInOrder, [Next]_vars
    PROVE  RemovalsInOrder'
<1> USE
   DEF ScalingTypeOK, WorkInOrder, CallsInOrder, RemovalsInOrder, callVars, stopVars,
       queueVars, recoveryVars
<1>1. ASSUME NEW m \in Mains, End(m) PROVE RemovalsInOrder'
  BY <1>1 DEF End, Trouble
<1>2. ASSUME NEW m \in Mains, NEW e \in Executions, Run(m, e) PROVE RemovalsInOrder'
  BY <1>2 DEF Run
<1>3. ASSUME NEW m \in Mains, NEW e \in Executions, Stop(m, e) PROVE RemovalsInOrder'
  BY <1>3 DEF Stop, Finalize, Trouble
<1>4. ASSUME NEW m \in Mains, NEW e \in Executions, StopWrite(m, e) PROVE RemovalsInOrder'
  BY <1>4 DEF StopWrite
<1>5. ASSUME NEW e \in Executions, AddJob(e) PROVE RemovalsInOrder'
  BY <1>5 DEF AddJob
<1>6. ASSUME NEW e \in Executions, AddJobFails(e) PROVE RemovalsInOrder'
  BY <1>6 DEF AddJobFails, Trouble
<1>7. ASSUME NEW e \in Executions, Finished(e) PROVE RemovalsInOrder'
  BY <1>7 DEF Finished, JobCompleted, Finalize
<1>8. ASSUME NEW e \in Executions, ReadResult(e) PROVE RemovalsInOrder'
  BY <1>8 DEF ReadResult, Finalize, RowResult
<1>9. ASSUME NEW e \in Executions, SanityRun(e) PROVE RemovalsInOrder'
  BY <1>9 DEF SanityRun, Finalize
<1>10. ASSUME NEW e \in Executions, SaveError(e) PROVE RemovalsInOrder'
  BY <1>10 DEF SaveError
<1>11. ASSUME NEW e \in Executions, JobFinishedMessage(e) PROVE RemovalsInOrder'
  BY <1>11 DEF JobFinishedMessage
<1>12. ASSUME NEW e \in Executions, CheckJob(e) PROVE RemovalsInOrder'
  BY <1>12 DEF CheckJob
<1>13. ASSUME NEW e \in Executions, AbortJob(e) PROVE RemovalsInOrder'
  BY <1>13 DEF AbortJob
<1>14. ASSUME NEW e \in Executions, RemoveJob(e) PROVE RemovalsInOrder'
  BY <1>14 DEF RemoveJob, Removable
<1>15. ASSUME NEW w \in Workers, CrashWorker(w) PROVE RemovalsInOrder'
  BY <1>15 DEF CrashWorker, Trouble
<1>16. ASSUME NEW w \in Workers, NEW e \in Executions, Pick(w, e) PROVE RemovalsInOrder'
  BY <1>16 DEF Pick
<1>17. ASSUME NEW x \in work, ReadRow(x) PROVE RemovalsInOrder'
  BY <1>17 DEF ReadRow, EndJob, NextStep
<1>18. ASSUME NEW x \in work, SetRunning(x) PROVE RemovalsInOrder'
  BY <1>18 DEF SetRunning, NextStep
<1>19. ASSUME NEW x \in work, Register(x) PROVE RemovalsInOrder'
  BY <1>19 DEF Register, NextStep
<1>20. ASSUME NEW x \in work, RunEnds(x) PROVE RemovalsInOrder'
  BY <1>20 DEF RunEnds, NextStep
<1>21. ASSUME NEW x \in work, Report(x) PROVE RemovalsInOrder'
  BY <1>21 DEF Report, NextStep, EndJob
<1>22. ASSUME NEW x \in work, Complete(x) PROVE RemovalsInOrder'
  BY <1>22 DEF Complete, EndJob
<1>23. ASSUME NEW x \in work, TaskFails(x) PROVE RemovalsInOrder'
  BY <1>23 DEF TaskFails, Trouble, EndJob
<1>24. ASSUME NEW e \in Executions, ReceiveAbort(e) PROVE RemovalsInOrder'
  BY <1>24 DEF ReceiveAbort
<1>25. ASSUME NEW e \in Executions, Stall(e) PROVE RemovalsInOrder'
  BY <1>25 DEF Stall, Trouble, Stalled
<1>26. ASSUME NEW r \in recoveries, RecoverMark(r) PROVE RemovalsInOrder'
  BY <1>26 DEF RecoverMark, Schedule, Crashable
<1>27. CASE UNCHANGED <<status, callVars, stopJob, queueVars, work>>
  BY <1>27
<1> QED
  BY <1>1, <1>2, <1>3, <1>4, <1>5, <1>6, <1>7, <1>8, <1>9, <1>10, <1>11, <1>12, <1>13, <1>14,
     <1>15, <1>16, <1>17, <1>18, <1>19, <1>20, <1>21, <1>22, <1>23, <1>24, <1>25, <1>26, <1>27,
     Bystanders
     DEF Next, MainNext, CallNext, WorkerNext, RecoveryNext, Process

(* After a worker has saved a success, only a stop changes the row, unless *)
(* the owner gave up before.                                               *)
LEMMA AnswersStep ==
    ASSUME ScalingTypeOK, WorkInOrder, CallsInOrder, AnswersInOrder, [Next]_vars
    PROVE  AnswersInOrder'
<1> USE
   DEF ScalingTypeOK, WorkInOrder, OneWorkerRuns, CallsInOrder, AnswersInOrder, SuccessKnown,
       callVars, stopVars, queueVars, recoveryVars
<1>1. ASSUME NEW m \in Mains, End(m) PROVE AnswersInOrder'
  BY <1>1 DEF End, Trouble
<1>2. ASSUME NEW m \in Mains, NEW e \in Executions, Run(m, e) PROVE AnswersInOrder'
  BY <1>2 DEF Run
<1>3. ASSUME NEW m \in Mains, NEW e \in Executions, Stop(m, e) PROVE AnswersInOrder'
  BY <1>3 DEF Stop, Finalize, Trouble
<1>4. ASSUME NEW m \in Mains, NEW e \in Executions, StopWrite(m, e) PROVE AnswersInOrder'
  BY <1>4 DEF StopWrite
<1>5. ASSUME NEW e \in Executions, AddJob(e) PROVE AnswersInOrder'
  BY <1>5 DEF AddJob
<1>6. ASSUME NEW e \in Executions, AddJobFails(e) PROVE AnswersInOrder'
  BY <1>6 DEF AddJobFails, Trouble
<1>7. ASSUME NEW e \in Executions, Finished(e) PROVE AnswersInOrder'
  BY <1>7 DEF Finished, JobCompleted, Finalize
<1>8. ASSUME NEW e \in Executions, ReadResult(e) PROVE AnswersInOrder'
  BY <1>8 DEF ReadResult, Finalize, RowResult
<1>9. ASSUME NEW e \in Executions, SanityRun(e) PROVE AnswersInOrder'
  BY <1>9 DEF SanityRun, Finalize
<1>10. ASSUME NEW e \in Executions, SaveError(e) PROVE AnswersInOrder'
  BY <1>10 DEF SaveError
<1>11. ASSUME NEW e \in Executions, JobFinishedMessage(e) PROVE AnswersInOrder'
  BY <1>11 DEF JobFinishedMessage
<1>12. ASSUME NEW e \in Executions, CheckJob(e) PROVE AnswersInOrder'
  BY <1>12 DEF CheckJob
<1>13. ASSUME NEW e \in Executions, AbortJob(e) PROVE AnswersInOrder'
  BY <1>13 DEF AbortJob
<1>14. ASSUME NEW e \in Executions, RemoveJob(e) PROVE AnswersInOrder'
  BY <1>14 DEF RemoveJob, Removable
<1>15. ASSUME NEW w \in Workers, CrashWorker(w) PROVE AnswersInOrder'
  BY <1>15 DEF CrashWorker, Trouble
<1>16. ASSUME NEW w \in Workers, NEW e \in Executions, Pick(w, e) PROVE AnswersInOrder'
  BY <1>16 DEF Pick
<1>17. ASSUME NEW x \in work, ReadRow(x) PROVE AnswersInOrder'
  BY <1>17, Moves, Ends DEF ReadRow, EndJob, Steps
<1>18. ASSUME NEW x \in work, SetRunning(x) PROVE AnswersInOrder'
  BY <1>18, Moves, Ends DEF SetRunning, Steps
<1>19. ASSUME NEW x \in work, Register(x) PROVE AnswersInOrder'
  <2>1. NextStep(x, "running")
    BY <1>19 DEF Register
  <2>2. /\ x.exec \in Executions
        /\ \A y \in work' : (y \in work /\ y.exec # x.exec) \/ (y.exec = x.exec /\ y.next = "running")
    BY <2>1, Moves DEF Steps
  <2>3. message[x.exec] = "none" /\ result[x.exec] = "none"
    BY <1>19, <2>2 DEF Register
  <2> QED BY <1>19, <2>2, <2>3 DEF Register
<1>20. ASSUME NEW x \in work, RunEnds(x) PROVE AnswersInOrder'
  BY <1>20, Moves, Ends DEF RunEnds, Outcomes, Steps
<1>21. ASSUME NEW x \in work, Report(x) PROVE AnswersInOrder'
  BY <1>21, Moves, Ends DEF Report, EndJob, Outcomes, Steps
<1>22. ASSUME NEW x \in work, Complete(x) PROVE AnswersInOrder'
  BY <1>22, Moves, Ends DEF Complete, EndJob, Steps
<1>23. ASSUME NEW x \in work, TaskFails(x) PROVE AnswersInOrder'
  BY <1>23, Moves, Ends DEF TaskFails, EndJob, Trouble, Steps
<1>24. ASSUME NEW e \in Executions, ReceiveAbort(e) PROVE AnswersInOrder'
  <2>1. \A y \in work' : \E x \in work :
            y.exec = x.exec /\ (y = x \/ (x.next = "running" /\ y.next = "cancelling"))
    BY <1>24, Aborts
  <2>2. \A d \in Executions : message[d] # "none" \/ result[d] # "none" =>
            \A y \in work' : y.exec = d => y.next = "sent"
    BY <2>1
  <2>3. \A d \in Executions : SuccessKnown(d)' => SuccessKnown(d)
    BY <1>24, <2>1 DEF ReceiveAbort
  <2> QED BY <1>24, <2>2, <2>3 DEF ReceiveAbort
<1>25. ASSUME NEW e \in Executions, Stall(e) PROVE AnswersInOrder'
  BY <1>25 DEF Stall, Trouble, Stalled
<1>26. ASSUME NEW r \in recoveries, RecoverMark(r) PROVE AnswersInOrder'
  BY <1>26 DEF RecoverMark, Schedule, Crashable
<1>27. CASE UNCHANGED <<status, callVars, stopJob, queueVars, work>>
  BY <1>27
<1> QED
  BY <1>1, <1>2, <1>3, <1>4, <1>5, <1>6, <1>7, <1>8, <1>9, <1>10, <1>11, <1>12, <1>13, <1>14,
     <1>15, <1>16, <1>17, <1>18, <1>19, <1>20, <1>21, <1>22, <1>23, <1>24, <1>25, <1>26, <1>27,
     Bystanders
     DEF Next, MainNext, CallNext, WorkerNext, RecoveryNext, Process

LEMMA InvStep == ScalingInv /\ [Next]_vars => ScalingInv'
BY TypeStep, CallsStep, WorkStep, RemovalsStep, AnswersStep DEF ScalingInv

LEMMA InvHolds == Spec => []ScalingInv
BY InitInv, InvStep, PTL DEF Spec

(* No worker writes the row of e any more.                                 *)
Over(e) ==
    /\ job[e] \notin {"none", "waiting", "removed"}
    /\ \A x \in work : x.exec = e => x.next \in Outcomes \cup {"sent"}

(* What the entry of a caller still waits for.                             *)
Attended(e) ==
    \/ call[e] \in {"adding", "reading", "sanity"}
    \/ call[e] = "awaiting" /\ job[e] \notin {"none", "removed"}
    \/ /\ call[e] = "left"
       /\ job[e] = "canceled" \/ (status[e] \in {"success", "canceled"} /\ Over(e))

(* A success is the last thing a worker saves, and an owner does not       *)
(* remove the job of a caller it has not answered.                         *)
EntriesAttended ==
    \A e \in Executions :
        /\ status[e] = "success" => Over(e)
        /\ e \in entry => process[owner[e]] = "up" /\ stopJob[e] = "none" /\ Attended(e)

(* A step that only changes roles and timers leaves every main up.         *)
LEMMA ProcessesUp ==
    ASSUME ScalingTypeOK,
           \/ \E m \in Mains : Start(m) \/ GetRole(m) \/ TakeOver(m) \/ StepDown(m) \/ RecoveryFires(m)
           \/ \E r \in recoveries : RecoverQueue(r) \/ RecoveryFails(r)
           \/ UNCHANGED vars
    PROVE  \A m \in Mains : process[m] = "up" => process'[m] = "up"
BY DEF Start, GetRole, TakeOver, StepDown, RecoveryFires, RecoverQueue, RecoveryFails, StartProcess,
       FirstRole, TakeOverAsLeader, StepDownToFollower, vars, roleVars, ScalingTypeOK, RoleTypeOK

(* The promise of a caller is settled or still attended.                   *)
LEMMA EntriesStep ==
    ASSUME ScalingTypeOK, WorkInOrder, CallsInOrder, AnswersInOrder, EntriesAttended, [Next]_vars
    PROVE  EntriesAttended'
<1> USE ScalingAssumption
   DEF ScalingTypeOK, RoleTypeOK, WorkInOrder, OneWorkerRuns, CallsInOrder, EntriesAttended,
       Attended, Over, Outcomes, callVars, stopVars, queueVars, recoveryVars
<1>1. ASSUME NEW m \in Mains, End(m) PROVE EntriesAttended'
  BY <1>1 DEF End, EndProcess, BecomeRole, Trouble, roleVars
<1>2. ASSUME NEW m \in Mains, NEW e \in Executions, Run(m, e) PROVE EntriesAttended'
  BY <1>2 DEF Run, roleVars
<1>3. ASSUME NEW m \in Mains, NEW e \in Executions, Stop(m, e) PROVE EntriesAttended'
  BY <1>3 DEF Stop, Finalize, Trouble, roleVars
<1>4. ASSUME NEW m \in Mains, NEW e \in Executions, StopWrite(m, e) PROVE EntriesAttended'
  BY <1>4 DEF StopWrite, roleVars
<1>5. ASSUME NEW e \in Executions, AddJob(e) PROVE EntriesAttended'
  BY <1>5 DEF AddJob, roleVars
<1>6. ASSUME NEW e \in Executions, AddJobFails(e) PROVE EntriesAttended'
  BY <1>6 DEF AddJobFails, Trouble, roleVars
<1>7. ASSUME NEW e \in Executions, Finished(e) PROVE EntriesAttended'
  BY <1>7 DEF Finished, JobCompleted, Finalize, roleVars
<1>8. ASSUME NEW e \in Executions, ReadResult(e) PROVE EntriesAttended'
  BY <1>8 DEF ReadResult, Finalize, RowResult, roleVars
<1>9. ASSUME NEW e \in Executions, SanityRun(e) PROVE EntriesAttended'
  BY <1>9 DEF SanityRun, Finalize, roleVars
<1>10. ASSUME NEW e \in Executions, SaveError(e) PROVE EntriesAttended'
  BY <1>10 DEF SaveError, roleVars
<1>11. ASSUME NEW e \in Executions, JobFinishedMessage(e) PROVE EntriesAttended'
  BY <1>11 DEF JobFinishedMessage, roleVars
<1>12. ASSUME NEW e \in Executions, CheckJob(e) PROVE EntriesAttended'
  BY <1>12 DEF CheckJob, roleVars
<1>13. ASSUME NEW e \in Executions, AbortJob(e) PROVE EntriesAttended'
  BY <1>13 DEF AbortJob, roleVars
<1>14. ASSUME NEW e \in Executions, RemoveJob(e) PROVE EntriesAttended'
  BY <1>14 DEF RemoveJob, Removable, roleVars
<1>15. ASSUME NEW w \in Workers, CrashWorker(w) PROVE EntriesAttended'
  BY <1>15 DEF CrashWorker, Trouble, roleVars
<1>16. ASSUME NEW w \in Workers, NEW e \in Executions, Pick(w, e) PROVE EntriesAttended'
  BY <1>16 DEF Pick, roleVars
<1>17. ASSUME NEW x \in work, ReadRow(x) PROVE EntriesAttended'
  BY <1>17, Moves, Ends DEF ReadRow, EndJob, Steps, roleVars
<1>18. ASSUME NEW x \in work, SetRunning(x) PROVE EntriesAttended'
  BY <1>18, Moves DEF SetRunning, Steps, roleVars
<1>19. ASSUME NEW x \in work, Register(x) PROVE EntriesAttended'
  BY <1>19, Moves DEF Register, Steps, roleVars
<1>20. ASSUME NEW x \in work, RunEnds(x) PROVE EntriesAttended'
  BY <1>20, Moves DEF RunEnds, Steps, roleVars
<1>21. ASSUME NEW x \in work, Report(x) PROVE EntriesAttended'
  BY <1>21, Moves, Ends DEF Report, EndJob, Steps, roleVars
<1>22. ASSUME NEW x \in work, Complete(x) PROVE EntriesAttended'
  BY <1>22, Ends DEF Complete, EndJob, Steps, roleVars
<1>23. ASSUME NEW x \in work, TaskFails(x) PROVE EntriesAttended'
  BY <1>23, Ends DEF TaskFails, EndJob, Trouble, Steps, roleVars
<1>24. ASSUME NEW e \in Executions, ReceiveAbort(e) PROVE EntriesAttended'
  <2>1. \A y \in work' : \E x \in work :
            y.exec = x.exec /\ (y = x \/ (x.next = "running" /\ y.next = "cancelling"))
    BY <1>24, Aborts
  <2>2. \A d \in Executions : Over(d) => Over(d)'
    BY <1>24, <2>1 DEF ReceiveAbort
  <2>3. UNCHANGED <<status, owner, call, entry, stopJob, job, process>>
    BY <1>24 DEF ReceiveAbort, roleVars
  <2> HIDE DEF Over
  <2> QED BY <2>2, <2>3
<1>25. ASSUME NEW e \in Executions, Stall(e) PROVE EntriesAttended'
  BY <1>25 DEF Stall, Trouble, Stalled, roleVars
<1>26. ASSUME NEW r \in recoveries, RecoverMark(r) PROVE EntriesAttended'
  BY <1>26 DEF RecoverMark, Schedule, Crashable, roleVars
<1>27. CASE /\ UNCHANGED <<status, callVars, stopJob, queueVars, work>>
            /\ \A m \in Mains : process[m] = "up" => process'[m] = "up"
  BY <1>27
<1> QED
  BY <1>1, <1>2, <1>3, <1>4, <1>5, <1>6, <1>7, <1>8, <1>9, <1>10, <1>11, <1>12, <1>13, <1>14,
     <1>15, <1>16, <1>17, <1>18, <1>19, <1>20, <1>21, <1>22, <1>23, <1>24, <1>25, <1>26, <1>27,
     Bystanders, ProcessesUp
     DEF Next, MainNext, CallNext, WorkerNext, RecoveryNext, Process

-----------------------------------------------------------------------------
(* Theorems.                                                               *)

(* The model of queue mode is type correct, whatever fails.                *)
THEOREM ScalingTypeCorrect == Spec => []ScalingTypeOK
<1>1. ScalingInv => ScalingTypeOK
  BY DEF ScalingInv
<1> QED BY <1>1, InvHolds, PTL

(* A job is processed by one worker at a time, also when its lock is lost  *)
(* while its worker still runs it (scaling.service.ts setupQueue).         *)
THEOREM OneWorkerRunsHolds == Spec => []OneWorkerRuns
<1>1. ScalingInv => OneWorkerRuns
  BY DEF ScalingInv, WorkInOrder
<1> QED BY <1>1, InvHolds, PTL

(* A success that was returned to the caller is not overwritten in the     *)
(* database, except by a user's stop (recoverFromQueue, processError).     *)
THEOREM SuccessIsKeptHolds == Spec => []SuccessIsKept
<1>1. ScalingInv => SuccessIsKept
  BY DEF ScalingInv, AnswersInOrder, SuccessIsKept
<1> QED BY <1>1, InvHolds, PTL

(* A job that stopJob removed from the queue is on no worker and has not   *)
(* been on one.                                                            *)
THEOREM RemovedNeverRunsHolds == Spec => []RemovedNeverRuns
<1>1. ScalingInv => RemovedNeverRuns
  BY DEF ScalingInv, WorkInOrder, RemovalsInOrder, RemovedNeverRuns
<1> QED BY <1>1, InvHolds, PTL

(* Whoever waits for an execution on a main is attended: its call goes on, *)
(* or waits for a job that Bull still has, or is one of the two early      *)
(* returns of processError; and the main is up.  This is the safety half   *)
(* of CallsEnd (workflow-runner.ts enqueueExecution, processError).        *)
CallersAttended ==
    \A e \in entry :
        /\ process[owner[e]] = "up"
        /\ \/ call[e] \in {"adding", "reading", "sanity"}
           \/ call[e] = "awaiting" /\ job[e] \notin {"none", "removed"}
           \/ Abandoned(e)

(* No caller waits for a job that was removed, for a call that has         *)
(* returned, or on a process that has ended.                               *)
THEOREM CallersAttendedHolds == Spec => []CallersAttended
<1>1. Init => EntriesAttended
  BY DEF Init, EntriesAttended
<1>2. ScalingInv /\ EntriesAttended /\ [Next]_vars => EntriesAttended'
  BY EntriesStep DEF ScalingInv
<1>3. ScalingInv /\ EntriesAttended => CallersAttended
  BY DEF ScalingInv, ScalingTypeOK, EntriesAttended, Attended, CallersAttended, Abandoned
<1> QED BY <1>1, <1>2, <1>3, InvHolds, PTL DEF Spec

(* The leader recovers the queue, now and after each cycle: a timeout is   *)
(* set or a cycle is under way, whatever failed and however often the      *)
(* roles changed (scaling.service.ts scheduleQueueRecovery).               *)
LeaderRecovers ==
    \A m \in Mains :
        process[m] = "up" /\ role[m] = "leader" =>
            m \in timer \cup older \/ \E r \in recoveries : r.main = m

LEMMA RecoversStep ==
    ASSUME ScalingTypeOK, LeaderRecovers, [Next]_vars
    PROVE  LeaderRecovers'
<1> USE DEF ScalingTypeOK, RoleTypeOK, LeaderRecovers, recoveryVars
<1>1. ASSUME NEW m \in Mains, Start(m) PROVE LeaderRecovers'
  BY <1>1 DEF Start, StartProcess, BecomeRole
<1>2. ASSUME NEW m \in Mains, GetRole(m) PROVE LeaderRecovers'
  BY <1>2 DEF GetRole, FirstRole, BecomeRole, Schedule
<1>3. ASSUME NEW m \in Mains, TakeOver(m) PROVE LeaderRecovers'
  BY <1>3 DEF TakeOver, TakeOverAsLeader, BecomeRole, Schedule
<1>4. ASSUME NEW m \in Mains, StepDown(m) PROVE LeaderRecovers'
  BY <1>4 DEF StepDown, StepDownToFollower, BecomeRole
<1>5. ASSUME NEW m \in Mains, End(m) PROVE LeaderRecovers'
  BY <1>5 DEF End, EndProcess, BecomeRole
<1>6. ASSUME NEW m \in Mains, RecoveryFires(m) PROVE LeaderRecovers'
  <2>1. \/ UNCHANGED recoveryVars
        \/ /\ timer \cup older \subseteq timer' \cup older' \cup {m}
           /\ \E q : q.main = m /\ recoveries' = recoveries \cup {q}
    <3> DEFINE q == [main |-> m, ids |-> {e \in Executions : status[e] \in {"new", "running"}},
                     next |-> "queue"]
    <3>1. q.main = m
      OBVIOUS
    <3> HIDE DEF q
    <3>2. UNCHANGED recoveryVars \/ recoveries' = recoveries \cup {q}
      BY <1>6 DEF RecoveryFires, q
    <3>3. timer \cup older \subseteq timer' \cup older' \cup {m}
      BY <1>6 DEF RecoveryFires
    <3> QED BY <3>1, <3>2, <3>3
  <2>2. UNCHANGED roleVars
    BY <1>6 DEF RecoveryFires
  <2> QED BY <2>1, <2>2 DEF roleVars
<1>7. ASSUME NEW r \in recoveries,
             RecoverQueue(r) \/ RecoverMark(r) \/ RecoveryFails(r)
      PROVE  LeaderRecovers'
  <2>1. \/ recoveries' = recoveries \ {r} /\ Schedule(r.main)
        \/ /\ \E q : q.main = r.main /\ recoveries' = (recoveries \ {r}) \cup {q}
           /\ UNCHANGED <<timer, older>>
    BY <1>7 DEF RecoverQueue, RecoverMark, RecoveryFails, Recoveries
  <2>2. UNCHANGED roleVars
    BY <1>7 DEF RecoverQueue, RecoverMark, RecoveryFails
  <2> QED BY <2>1, <2>2 DEF Schedule, roleVars
<1>8. CASE UNCHANGED <<roleVars, recoveryVars>>
  BY <1>8 DEF roleVars
<1>9. ASSUME NEW m \in Mains, NEW e \in Executions, Run(m, e) \/ Stop(m, e) \/ StopWrite(m, e)
      PROVE  UNCHANGED <<roleVars, recoveryVars>>
  BY <1>9 DEF Run, Stop, StopWrite
<1>10. ASSUME CallNext PROVE UNCHANGED <<roleVars, recoveryVars>>
  BY <1>10
     DEF CallNext, AddJob, AddJobFails, Finished, ReadResult, SanityRun, SaveError,
         JobFinishedMessage, CheckJob, AbortJob, RemoveJob
<1>11. ASSUME WorkerNext PROVE UNCHANGED <<roleVars, recoveryVars>>
  BY <1>11
     DEF WorkerNext, CrashWorker, Pick, Process, ReadRow, SetRunning, Register, RunEnds, Report,
         Complete, TaskFails, ReceiveAbort, Stall
<1> QED
  BY <1>1, <1>2, <1>3, <1>4, <1>5, <1>6, <1>7, <1>8, <1>9, <1>10, <1>11
     DEF Next, MainNext, RecoveryNext, vars

(* The recovery of the queue does not stop on a leader: neither a failed   *)
(* cycle nor a step-down between a timeout and its cycle ends it.          *)
THEOREM LeaderRecoversHolds == Spec => []LeaderRecovers
<1>1. Init => LeaderRecovers
  BY DEF Init, RoleInit, LeaderRecovers
<1>2. ScalingInv /\ LeaderRecovers /\ [Next]_vars => LeaderRecovers'
  BY RecoversStep DEF ScalingInv
<1> QED BY <1>1, <1>2, InvHolds, PTL DEF Spec
=============================================================================
