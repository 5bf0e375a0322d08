----------------------- MODULE ActiveExecutions_proofs -----------------------
(***************************************************************************)
(* Proofs about ActiveExecutions, for any number of executions, of calls   *)
(* of run, of stops and of restarts: one run per execution (RunInv), the   *)
(* use of the queue (ImplementsQueue), shutting down (DrainInv), and rows  *)
(* that are saved (EntriesOwned).                                          *)
(***************************************************************************)
EXTENDS ActiveExecutions, ConcurrencyQueue_proofs, TLAPS

(* A call that created its row and has not set it to running yet, and a    *)
(* call that has set it to running and has still to write the result.      *)
Fresh(r) == pc[r] \in {"created", "reserving"} /\ r \notin existing
Owns(r) == Working(r) \/ pc[r] = "late"
Claims(r) == Fresh(r) \/ Owns(r)

RunTypeOK ==
    /\ db \in [Executions -> Statuses]
    /\ pc \in [Calls -> PCs]
    /\ exec \in [Calls -> Executions \cup {None}]
    /\ existing \subseteq Calls /\ threw \subseteq Calls

CalledHasExecution ==
    \A r \in Calls : pc[r] # "free" => exec[r] \in Executions

ClaimExclusive ==
    \A r1, r2 \in Calls :
        (Claims(r1) /\ Claims(r2) /\ exec[r1] = exec[r2]) => r1 = r2

ClaimedRow ==
    \A r \in Calls :
        /\ Fresh(r) => db[exec[r]] \in {"new", "canceled"}
        /\ Owns(r) => db[exec[r]] \in {"running", "canceled"}

DownMeansIdle ==
    phase = "down" => \A r \in Calls : pc[r] \in {"free", "done"}

(* The inductive invariant.  AtMostOneRun is not inductive: that a resume  *)
(* finds the row waiting excludes a second run only because the claims of  *)
(* the others pin the row to other statuses.                               *)
RunInv ==
    RunTypeOK /\ CalledHasExecution /\ ClaimExclusive /\ ClaimedRow /\ DownMeansIdle

-----------------------------------------------------------------------------

(* Nothing is called, so nothing is claimed.                               *)
LEMMA InitRunInv == Init => RunInv
BY DEF Init, RunInv, RunTypeOK, CalledHasExecution, ClaimExclusive, ClaimedRow, DownMeansIdle,
       Claims, Fresh, Owns, Working, Statuses, PCs

(* A step of one call: only SetRunning, ResumeRow and the saves write a    *)
(* row, and each writes the one its own call claims or finds waiting.      *)
LEMMA RunStepInv ==
    ASSUME RunInv, NEW r \in Calls, RunStep(r) \/ PutExecutionToWait(r) \/ Timeout(r)
    PROVE  RunInv'
<1> USE DEF RunInv, RunTypeOK, CalledHasExecution, ClaimExclusive, ClaimedRow, DownMeansIdle,
            Claims, Fresh, Owns, Working, Statuses, PCs, runVars, callVars, processVars, At, Alive,
            Goto, SetStatus, Throws
<1>1. CASE Reserve(r)
  BY <1>1 DEF Reserve
<1>2. CASE SetRunning(r)
  BY <1>2 DEF SetRunning
<1>3. CASE ResumeRow(r)
  BY <1>3 DEF ResumeRow
<1>4. CASE Register(r)
  BY <1>4 DEF Register
<1>5. CASE FailExecution(r)
  BY <1>5 DEF FailExecution, SaveUnlessCanceled
<1>6. CASE SetRunningAgain(r)
  BY <1>6 DEF SetRunningAgain
<1>7. CASE StartFails(r)
  BY <1>7 DEF StartFails
<1>8. CASE LateSave(r)
  BY <1>8 DEF LateSave, SaveUnlessCanceled
<1>9. CASE StartWorkflow(r)
  BY <1>9 DEF StartWorkflow
<1>10. CASE WorkflowEnds(r)
  BY <1>10 DEF WorkflowEnds, AfterWorkflow, SaveUnlessCanceled
<1>11. CASE Finalize(r)
  BY <1>11 DEF Finalize
<1>12. CASE SaveCanceled(r)
  BY <1>12 DEF SaveCanceled, SaveUnlessCanceled
<1>13. CASE PutExecutionToWait(r)
  BY <1>13 DEF PutExecutionToWait
<1>14. CASE Timeout(r)
  BY <1>14 DEF Timeout
<1>15. CASE AddThrows(r)
  BY <1>15 DEF AddThrows
<1>16. CASE PreparationThrows(r)
  BY <1>16 DEF PreparationThrows
<1>17. CASE AttachThrows(r)
  BY <1>17 DEF AttachThrows
<1>18. CASE SaveThrows(r)
  BY <1>18 DEF SaveThrows, AfterWorkflow
<1> QED
  BY <1>1, <1>2, <1>3, <1>4, <1>5, <1>6, <1>7, <1>8, <1>9, <1>10, <1>11, <1>12, <1>13, <1>14,
     <1>15, <1>16, <1>17, <1>18 DEF RunStep

(* A new call: Create claims a row nobody had, the others claim nothing.   *)
LEMMA CallInv ==
    ASSUME RunInv, NEW r \in Calls, NEW e \in Executions,
           Create(r, e) \/ Resume(r, e) \/ RunEnqueued(r, e)
    PROVE  RunInv'
<1> USE DEF RunInv, RunTypeOK, CalledHasExecution, ClaimExclusive, ClaimedRow, DownMeansIdle,
            Claims, Fresh, Owns, Working, Statuses, PCs, runVars, callVars, processVars, Alive,
            Goto, SetStatus, Throws
<1>1. CASE Create(r, e)
  BY <1>1 DEF Create, Call
<1>2. CASE Resume(r, e)
  BY <1>2 DEF Resume, Call
<1>3. CASE RunEnqueued(r, e)
  BY <1>3 DEF RunEnqueued, Call
<1>4. QED
  BY <1>1, <1>2, <1>3

(* A stop writes only "canceled", which every claim allows for.            *)
LEMMA StopInv ==
    ASSUME RunInv, NEW e \in Executions, StopRequest(e) \/ StopStep(e)
    PROVE  RunInv'
<1> USE DEF RunInv, RunTypeOK, CalledHasExecution, ClaimExclusive, ClaimedRow, DownMeansIdle,
            Claims, Fresh, Owns, Working, Statuses, PCs, runVars, callVars, processVars, Alive,
            Goto, SetStatus, Throws
<1>1. CASE StopRequest(e)
  BY <1>1 DEF StopRequest
<1>2. CASE StopInRegularMode(e)
  BY <1>2 DEF StopInRegularMode
<1>3. CASE StopWrite(e)
  BY <1>3 DEF StopWrite
<1>4. CASE StopThrows(e)
  BY <1>4 DEF StopThrows
<1>5. QED
  BY <1>1, <1>2, <1>3, <1>4 DEF StopStep

(* The end of the process ends every claim, so that Start may write rows.  *)
LEMMA ProcessInv ==
    ASSUME RunInv, Shutdown \/ Exit \/ Crash \/ Start
    PROVE  RunInv'
<1> USE DEF RunInv, RunTypeOK, CalledHasExecution, ClaimExclusive, ClaimedRow, DownMeansIdle,
            Claims, Fresh, Owns, Working, Statuses, PCs, runVars, callVars, processVars, Alive,
            Goto, SetStatus, Throws
<1>1. CASE Shutdown
  BY <1>1 DEF Shutdown
<1>2. CASE Exit
  BY <1>2 DEF Exit, ProcessEnds
<1>3. CASE Crash
  BY <1>3 DEF Crash, ProcessEnds
<1>4. CASE Start
  BY <1>4 DEF Start
<1>5. QED
  BY <1>1, <1>2, <1>3, <1>4

LEMMA NextRunInv == RunInv /\ [Next]_vars => RunInv'
<1> SUFFICES ASSUME RunInv, [Next]_vars PROVE RunInv'
  OBVIOUS
<1>1. CASE UNCHANGED vars
  BY <1>1 DEF vars, RunInv, RunTypeOK, CalledHasExecution, ClaimExclusive, ClaimedRow,
              DownMeansIdle, Claims, Fresh, Owns, Working, runVars, callVars, processVars
<1>2. CASE Next
  BY <1>2, CallInv, RunStepInv, StopInv, ProcessInv DEF Next
<1>3. QED
  BY <1>1, <1>2

(* Every reachable state satisfies the inductive invariant.                *)
THEOREM RunInvariant == Spec => []RunInv
BY InitRunInv, NextRunInv, PTL DEF Spec

(* At most one call of run executes an execution, however many resumes,    *)
(* stops, crashes and restarts there are.                                  *)
THEOREM AtMostOneRunHolds == Spec => []AtMostOneRun
<1>1. RunInv => AtMostOneRun
  BY DEF RunInv, ClaimExclusive, Claims, Owns, AtMostOneRun
<1>2. QED
  BY <1>1, RunInvariant, PTL

-----------------------------------------------------------------------------

(* What one step can make of a row: the status is kept, or                 *)
(* - a claim of the row writes it, which is then new, running or canceled, *)
(* - a resume finds it waiting, Create finds no row,                       *)
(* - it becomes canceled, or, from running, crashed.                       *)
RowStep(e) ==
    \/ db'[e] = db[e]
    \/ db[e] \in {"none", "waiting", "new", "running"}
    \/ db[e] = "canceled" /\ db'[e] = "running"
    \/ db'[e] = "canceled"

LEMMA RowSteps ==
    ASSUME RunInv, [Next]_vars, NEW e \in Executions
    PROVE  RowStep(e)
<1> USE DEF RunInv, RunTypeOK, CalledHasExecution, ClaimedRow, Fresh, Owns, Working,
            RowStep, At, SetStatus, SaveUnlessCanceled
<1>1. ASSUME NEW r \in Calls, NEW x \in Executions,
             Create(r, x) \/ Resume(r, x) \/ RunEnqueued(r, x)
      PROVE  RowStep(e)
  BY <1>1 DEF Create, Resume, RunEnqueued
<1>2. ASSUME NEW r \in Calls, RunStep(r)
      PROVE  RowStep(e)
  <2>1. CASE Reserve(r) \/ Register(r) \/ StartFails(r) \/ StartWorkflow(r) \/ Finalize(r)
    BY <2>1 DEF Reserve, Register, StartFails, StartWorkflow, Finalize
  <2>2. CASE SetRunning(r)
    BY <2>2 DEF SetRunning
  <2>3. CASE ResumeRow(r)
    BY <2>3 DEF ResumeRow
  <2>4. CASE FailExecution(r)
    BY <2>4 DEF FailExecution
  <2>5. CASE SetRunningAgain(r)
    BY <2>5 DEF SetRunningAgain
  <2>6. CASE LateSave(r)
    BY <2>6 DEF LateSave
  <2>7. CASE WorkflowEnds(r)
    BY <2>7 DEF WorkflowEnds
  <2>8. CASE SaveCanceled(r)
    BY <2>8 DEF SaveCanceled
  <2>9. CASE AddThrows(r) \/ PreparationThrows(r) \/ AttachThrows(r) \/ SaveThrows(r)
    BY <2>9 DEF AddThrows, PreparationThrows, AttachThrows, SaveThrows
  <2>10. QED
    BY <1>2, <2>1, <2>2, <2>3, <2>4, <2>5, <2>6, <2>7, <2>8, <2>9 DEF RunStep
<1>3. ASSUME NEW r \in Calls, PutExecutionToWait(r) \/ Timeout(r)
      PROVE  RowStep(e)
  BY <1>3 DEF PutExecutionToWait, Timeout
<1>4. ASSUME NEW x \in Executions, StopRequest(x) \/ StopStep(x)
      PROVE  RowStep(e)
  BY <1>4 DEF StopRequest, StopStep, StopInRegularMode, StopWrite, StopThrows
<1>5. CASE Shutdown \/ Exit \/ Crash \/ Start
  BY <1>5 DEF Shutdown, Exit, Crash, ProcessEnds, Start
<1>6. CASE UNCHANGED vars
  BY <1>6 DEF vars
<1>7. QED
  BY <1>1, <1>2, <1>3, <1>4, <1>5, <1>6 DEF Next

(* A canceled row is left only by setRunning, never by a result.           *)
THEOREM ResultNeverReplacesCanceledHolds == Spec => ResultNeverReplacesCanceled
<1>1. RunInv /\ [Next]_vars =>
        [\A e \in Executions :
           db[e] = "canceled" => db'[e] \in {"canceled", "running"}]_vars
  BY RowSteps DEF RowStep
<1>2. QED
  BY <1>1, RunInvariant, PTL DEF Spec, ResultNeverReplacesCanceled

(* A finished execution never runs again.                                  *)
THEOREM FinishedStaysFinishedHolds == Spec => FinishedStaysFinished
<1>1. RunInv /\ [Next]_vars =>
        [\A e \in Executions :
           db[e] \in {"success", "error", "crashed"} => db'[e] \in {db[e], "canceled"}]_vars
  BY RowSteps DEF RowStep
<1>2. QED
  BY <1>1, RunInvariant, PTL DEF Spec, FinishedStaysFinished

-----------------------------------------------------------------------------

(* What the refinement needs of the map and of the timers: entries are     *)
(* calls, and only a call that was made has a timer.                       *)
MapInv ==
    /\ active \in [Executions -> Calls \cup {None}]
    /\ timer \subseteq Calls
    /\ \A r \in timer : pc[r] # "free"

LEMMA MapStep == RunInv /\ MapInv /\ [Next]_vars => MapInv'
<1> SUFFICES ASSUME RunInv, MapInv, [Next]_vars PROVE MapInv'
  OBVIOUS
<1> USE DEF RunInv, RunTypeOK, CalledHasExecution, MapInv, PCs, entryVars, workflowVars,
            runVars, callVars, At, Goto, AfterWorkflow, Settle, FinalizeExecution, StopExecution
<1>1. ASSUME NEW r \in Calls, NEW x \in Executions,
             Create(r, x) \/ Resume(r, x) \/ RunEnqueued(r, x)
      PROVE  MapInv'
  BY <1>1 DEF Create, Resume, RunEnqueued, Call
<1>2. ASSUME NEW r \in Calls, RunStep(r)
      PROVE  MapInv'
  <2>1. CASE Reserve(r) \/ SetRunning(r) \/ ResumeRow(r) \/ FailExecution(r)
             \/ SetRunningAgain(r) \/ LateSave(r) \/ WorkflowEnds(r) \/ SaveCanceled(r)
    BY <2>1 DEF Reserve, SetRunning, ResumeRow, FailExecution, SetRunningAgain, LateSave,
                WorkflowEnds, SaveCanceled
  <2>2. CASE Register(r)
    BY <2>2 DEF Register
  <2>3. CASE StartFails(r)
    BY <2>3 DEF StartFails
  <2>4. CASE StartWorkflow(r)
    BY <2>4 DEF StartWorkflow
  <2>5. CASE Finalize(r)
    BY <2>5 DEF Finalize
  <2>6. CASE AddThrows(r) \/ PreparationThrows(r) \/ AttachThrows(r) \/ SaveThrows(r)
    BY <2>6 DEF AddThrows, PreparationThrows, AttachThrows, SaveThrows
  <2>7. QED
    BY <1>2, <2>1, <2>2, <2>3, <2>4, <2>5, <2>6 DEF RunStep
<1>3. ASSUME NEW r \in Calls, PutExecutionToWait(r) \/ Timeout(r)
      PROVE  MapInv'
  BY <1>3 DEF PutExecutionToWait, Timeout
<1>4. ASSUME NEW x \in Executions, StopRequest(x) \/ StopStep(x)
      PROVE  MapInv'
  BY <1>4 DEF StopRequest, StopStep, StopInRegularMode, StopWrite, StopThrows
<1>5. CASE Shutdown \/ Exit \/ Crash \/ Start
  BY <1>5 DEF Shutdown, Exit, Crash, ProcessEnds, Start
<1>6. CASE UNCHANGED vars
  BY <1>6 DEF vars
<1>7. QED
  BY <1>1, <1>2, <1>3, <1>4, <1>5, <1>6 DEF Next

LEMMA InitMapInv == Init => MapInv
BY DEF Init, MapInv

(* Release, and what is built on it, use the queue only as QueueNext does. *)
LEMMA SettleUsesQueue ==
    ASSUME NEW r \in Calls, Settle(r)
    PROVE  [QueueNext]_queueVars
BY DEF Settle, Release, QueueNext

LEMMA StopExecutionUsesQueue ==
    ASSUME NEW e \in Executions, MapInv, StopExecution(e)
    PROVE  [QueueNext]_queueVars
BY SettleUsesQueue DEF StopExecution, MapInv

LEMMA FinalizeUsesQueue ==
    ASSUME NEW e \in Executions, MapInv, FinalizeExecution(e)
    PROVE  [QueueNext]_queueVars
BY SettleUsesQueue DEF FinalizeExecution, MapInv

(* Every step of the main is a step of its queue, or leaves it alone.      *)
LEMMA QueueStep == RunInv /\ MapInv /\ [Next]_vars => [QueueNext]_queueVars
<1> SUFFICES ASSUME RunInv, MapInv, [Next]_vars PROVE [QueueNext]_queueVars
  OBVIOUS
<1>0. \A r \in Calls : pc[r] # "free" => exec[r] \in Executions
  BY DEF RunInv, CalledHasExecution
<1>1. ASSUME NEW r \in Calls, NEW x \in Executions,
             Create(r, x) \/ Resume(r, x) \/ RunEnqueued(r, x)
      PROVE  [QueueNext]_queueVars
  BY <1>1 DEF Create, Resume, RunEnqueued, Call
<1>2. ASSUME NEW r \in Calls, RunStep(r)
      PROVE  [QueueNext]_queueVars
  <2>1. CASE Reserve(r)
    BY <2>1 DEF Reserve, QueueNext
  <2>2. CASE ResumeRow(r) \/ AddThrows(r)
    BY <2>2 DEF ResumeRow, AddThrows, Release, QueueNext
  <2>3. CASE StartFails(r) \/ Finalize(r)
    BY <1>0, <2>3, FinalizeUsesQueue DEF StartFails, Finalize, At
  <2>4. CASE SetRunning(r) \/ Register(r) \/ FailExecution(r) \/ SetRunningAgain(r)
             \/ LateSave(r) \/ StartWorkflow(r) \/ WorkflowEnds(r) \/ SaveCanceled(r)
             \/ PreparationThrows(r) \/ AttachThrows(r) \/ SaveThrows(r)
    BY <2>4 DEF SetRunning, Register, FailExecution, SetRunningAgain, LateSave,
                StartWorkflow, WorkflowEnds, SaveCanceled, PreparationThrows, AttachThrows,
                SaveThrows
  <2>5. QED
    BY <1>2, <2>1, <2>2, <2>3, <2>4 DEF RunStep
<1>3. ASSUME NEW r \in Calls, PutExecutionToWait(r) \/ Timeout(r)
      PROVE  [QueueNext]_queueVars
  BY <1>0, <1>3, StopExecutionUsesQueue DEF PutExecutionToWait, Timeout, MapInv
<1>4. ASSUME NEW x \in Executions, StopRequest(x) \/ StopStep(x)
      PROVE  [QueueNext]_queueVars
  <2>1. CASE StopInRegularMode(x)
    BY <2>1, StopExecutionUsesQueue DEF StopInRegularMode, QueuedAt, QueueNext
  <2>2. CASE StopRequest(x) \/ StopWrite(x) \/ StopThrows(x)
    BY <2>2 DEF StopRequest, StopWrite, StopThrows
  <2>3. QED
    BY <1>4, <2>1, <2>2 DEF StopStep
<1>5. CASE Shutdown \/ Exit \/ Crash \/ Start
  BY <1>5 DEF Shutdown, Exit, Crash, ProcessEnds, Start, QueueNext
<1>6. CASE UNCHANGED vars
  BY <1>6 DEF vars
<1>7. QED
  BY <1>1, <1>2, <1>3, <1>4, <1>5, <1>6 DEF Next

(* The main implements the specification of its concurrency queue: it      *)
(* never gives a slot back twice, nor one it did not take.  With the       *)
(* theorems of ConcurrencyQueue_proofs, the accounting and the order of    *)
(* the queue hold in the running system.                                   *)
THEOREM ImplementsQueue == Spec => QueueSpec
<1>1. Init => QueueInit
  BY DEF Init
<1>2. QED
  BY <1>1, InitMapInv, MapStep, QueueStep, RunInvariant, PTL DEF Spec, QueueSpec

-----------------------------------------------------------------------------

(* The types that neither RunInv nor MapInv has.                           *)
EntryTypeOK ==
    /\ waiting \subseteq Calls /\ settled \subseteq Calls /\ attached \subseteq Calls
    /\ waitTill \subseteq Calls /\ aborted \subseteq Calls /\ hooks \subseteq Calls
    /\ stop \in [Executions -> {"idle", "read", "write"}]
    /\ stopped \subseteq Executions
    /\ enabled \in BOOLEAN
    /\ phase \in {"up", "draining", "down"}
    /\ boot \subseteq Executions
    /\ starts \in 0 .. MaxStarts

(* Only calls that are entries of the map are settled, stopped or attached.*)
LEMMA EntryTypeStep == RunInv /\ MapInv /\ EntryTypeOK /\ [Next]_vars => EntryTypeOK'
<1> SUFFICES ASSUME RunInv, MapInv, EntryTypeOK, [Next]_vars PROVE EntryTypeOK'
  OBVIOUS
<1> USE DEF MapInv, EntryTypeOK, entryVars, workflowVars, stopVars, processVars
<1>0. \A r \in Calls : pc[r] # "free" => exec[r] \in Executions
  BY DEF RunInv, CalledHasExecution
<1>1. ASSUME NEW r \in Calls, NEW x \in Executions,
             Create(r, x) \/ Resume(r, x) \/ RunEnqueued(r, x)
      PROVE  EntryTypeOK'
  BY <1>1 DEF Create, Resume, RunEnqueued, Call
<1>2. ASSUME NEW r \in Calls, RunStep(r)
      PROVE  EntryTypeOK'
  <2>1. CASE Reserve(r) \/ SetRunning(r) \/ ResumeRow(r) \/ Register(r) \/ FailExecution(r)
             \/ SetRunningAgain(r) \/ LateSave(r) \/ WorkflowEnds(r)
             \/ AddThrows(r) \/ PreparationThrows(r) \/ AttachThrows(r) \/ SaveThrows(r)
    BY <2>1 DEF Reserve, SetRunning, ResumeRow, Register, FailExecution, SetRunningAgain,
                LateSave, WorkflowEnds, AddThrows, PreparationThrows, AttachThrows, SaveThrows
  <2>2. CASE StartFails(r)
    BY <1>0, <2>2 DEF StartFails, At, FinalizeExecution, Settle
  <2>3. CASE StartWorkflow(r)
    BY <1>0, <2>3 DEF StartWorkflow, At
  <2>4. CASE Finalize(r)
    BY <1>0, <2>4 DEF Finalize, At, FinalizeExecution, Settle
  <2>5. CASE SaveCanceled(r)
    BY <2>5 DEF SaveCanceled
  <2>6. QED
    BY <1>2, <2>1, <2>2, <2>3, <2>4, <2>5 DEF RunStep
<1>3. ASSUME NEW r \in Calls, PutExecutionToWait(r) \/ Timeout(r)
      PROVE  EntryTypeOK'
  BY <1>0, <1>3 DEF PutExecutionToWait, Timeout, At, StopExecution, Settle
<1>4. ASSUME NEW x \in Executions, StopRequest(x) \/ StopStep(x)
      PROVE  EntryTypeOK'
  BY <1>4 DEF StopRequest, StopStep, StopInRegularMode, StopWrite, StopThrows, StopExecution, Settle
<1>5. CASE Shutdown \/ Exit \/ Crash
  BY <1>5 DEF Shutdown, Exit, Crash, ProcessEnds
<1>6. CASE Start
  BY <1>6, ExecutionsAssumption DEF Start
<1>7. CASE UNCHANGED vars
  BY <1>7 DEF vars
<1>8. QED
  BY <1>1, <1>2, <1>3, <1>4, <1>5, <1>6, <1>7 DEF Next

(* The model of a main is type correct; its queue is, because it is used   *)
(* as specified.                                                           *)
THEOREM TypeCorrect == Spec => []TypeOK
<1>1. Init => EntryTypeOK
  BY ExecutionsAssumption DEF Init, EntryTypeOK
<1>2. RunInv /\ MapInv /\ EntryTypeOK /\ QueueTypeOK => TypeOK
  BY DEF RunInv, RunTypeOK, MapInv, EntryTypeOK, TypeOK
<1>3. QED
  BY <1>1, <1>2, InitMapInv, MapStep, EntryTypeStep, RunInvariant, ImplementsQueue,
     QueueTypeCorrect, PTL DEF Spec

-----------------------------------------------------------------------------
(* Shutting down: throttling is disabled from the first step of it.        *)

DrainInv == phase = "draining" => ~enabled

LEMMA DrainStep == DrainInv /\ [Next]_vars => DrainInv'
<1> SUFFICES ASSUME DrainInv, [Next]_vars PROVE DrainInv'
  OBVIOUS
<1>1. ASSUME NEW r \in Calls, NEW e \in Executions,
             Create(r, e) \/ Resume(r, e) \/ RunEnqueued(r, e)
      PROVE  DrainInv'
  BY <1>1 DEF DrainInv, Create, Resume, RunEnqueued, Call
<1>2. ASSUME NEW r \in Calls, RunStep(r) \/ PutExecutionToWait(r) \/ Timeout(r)
      PROVE  phase' = phase /\ enabled' = enabled
  BY <1>2 DEF RunStep, Reserve, SetRunning, ResumeRow, Register, FailExecution,
              SetRunningAgain, StartFails, LateSave, StartWorkflow, WorkflowEnds,
              Finalize, SaveCanceled, AddThrows, PreparationThrows, AttachThrows,
              SaveThrows, PutExecutionToWait, Timeout, processVars
<1>3. ASSUME NEW e \in Executions, StopRequest(e) \/ StopStep(e)
      PROVE  phase' = phase /\ enabled' = enabled
  BY <1>3 DEF StopRequest, StopStep, StopInRegularMode, StopWrite, StopThrows, processVars
<1>4. CASE Shutdown \/ Exit \/ Crash \/ Start
  BY <1>4 DEF DrainInv, Shutdown, Exit, Crash, ProcessEnds, Start
<1>5. CASE UNCHANGED vars
  BY <1>5 DEF DrainInv, vars, processVars
<1>6. QED
  BY <1>1, <1>2, <1>3, <1>4, <1>5 DEF Next, DrainInv

(* Once disabled, the queue is only ever thrown away.                      *)
LEMMA DrainKeepsSlots ==
    ASSUME ~enabled, phase = "draining", [Next]_vars
    PROVE  slot' = slot \/ Reconstruct
<1>1. ASSUME NEW r \in Calls, RunStep(r)
      PROVE  slot' = slot
  <2>1. CASE Reserve(r)
    BY <2>1 DEF Reserve, IsThrottled, queueVars
  <2>2. CASE ResumeRow(r) \/ AddThrows(r)
    BY <2>2 DEF ResumeRow, AddThrows, Release, queueVars
  <2>3. CASE StartFails(r) \/ Finalize(r)
    BY <2>3 DEF StartFails, Finalize, FinalizeExecution, Settle, Release, queueVars
  <2>4. CASE SetRunning(r) \/ Register(r) \/ FailExecution(r) \/ SetRunningAgain(r)
             \/ LateSave(r) \/ StartWorkflow(r) \/ WorkflowEnds(r) \/ SaveCanceled(r)
             \/ PreparationThrows(r) \/ AttachThrows(r) \/ SaveThrows(r)
    BY <2>4 DEF SetRunning, Register, FailExecution, SetRunningAgain, LateSave,
                StartWorkflow, WorkflowEnds, SaveCanceled, PreparationThrows, AttachThrows,
                SaveThrows, queueVars
  <2>5. QED
    BY <1>1, <2>1, <2>2, <2>3, <2>4 DEF RunStep
<1>2. ASSUME NEW r \in Calls, PutExecutionToWait(r) \/ Timeout(r)
      PROVE  slot' = slot
  BY <1>2 DEF PutExecutionToWait, Timeout, StopExecution, Settle, Release, queueVars
<1>3. ASSUME NEW e \in Executions, StopRequest(e) \/ StopStep(e)
      PROVE  slot' = slot
  BY <1>3 DEF StopRequest, StopStep, StopInRegularMode, StopWrite, StopThrows, StopExecution,
              Settle, Release, queueVars
<1>4. ASSUME NEW r \in Calls, NEW e \in Executions,
             Create(r, e) \/ Resume(r, e) \/ RunEnqueued(r, e)
      PROVE  FALSE
  BY <1>4 DEF Create, Resume, RunEnqueued, Call
<1>5. CASE Shutdown \/ Exit \/ Crash \/ Start
  BY <1>5 DEF Shutdown, Exit, Crash, ProcessEnds, Start
<1>6. CASE UNCHANGED vars
  BY <1>6 DEF vars, queueVars
<1>7. QED
  BY <1>1, <1>2, <1>3, <1>4, <1>5, <1>6 DEF Next

(* No call that waits in the queue is let through while the main shuts     *)
(* down, whatever finishes, times out or is stopped meanwhile.             *)
THEOREM NoStartWhileDrainingHolds == Spec => NoStartWhileDraining
<1> DEFINE Kept == phase = "draining" =>
                     \A r \in Calls : slot[r] = "queued" => slot'[r] # "held"
<1>1. Init => DrainInv
  BY DEF Init, DrainInv
<1>2. DrainInv /\ [Next]_vars => Kept
  BY DrainKeepsSlots DEF DrainInv, Reconstruct
<1>3. DrainInv /\ [Next]_vars => [Kept]_vars
  BY <1>2
<1>4. QED
  BY <1>1, <1>3, DrainStep, PTL DEF Spec, NoStartWhileDraining

-----------------------------------------------------------------------------
(* A row that is running will be saved.                                    *)

(* A call that runs finds its own entry in the map or none, never that of  *)
(* another call; what is cancelled has been attached, and its call started *)
(* the workflow.                                                           *)
EntriesOwned ==
    /\ \A e \in Executions :
          active[e] # None => exec[active[e]] = e /\ pc[active[e]] # "free"
    /\ \A r \in Calls :
          pc[r] \in {"registered", "starting", "running"} => active[exec[r]] \in {r, None}
    /\ \A r \in threw : pc[r] # "free"
    /\ \A r \in attached : pc[r] \in {"running", "saved", "done"}
    /\ aborted \subseteq attached
    /\ hooks \subseteq aborted

(* The call saves the row on its way, or the hook of its cancellation does.*)
WillSave(r) ==
    \/ pc[r] \in {"updated", "registered", "starting", "late"}
    \/ pc[r] = "running" /\ r \notin aborted
    \/ r \in hooks

(* In the first life of the process, each row that is running has a call   *)
(* or a hook that will save it, or a call that was given up: a cancelled   *)
(* run saves nothing, but then its hook does.  This is the safety half of  *)
(* RunningRowSettles (workflow-runner.ts runMainProcess,                   *)
(* execution-lifecycle-hooks.ts).                                          *)
RunningRowsAttended ==
    \A e \in Executions :
        phase # "down" /\ starts = 0 /\ db[e] = "running" =>
            \E r \in Calls : exec[r] = e /\ (WillSave(r) \/ GivenUp(r))

LEMMA OwnedStep == RunInv /\ MapInv /\ EntryTypeOK /\ EntriesOwned /\ [Next]_vars => EntriesOwned'
<1> SUFFICES ASSUME RunInv, MapInv, EntryTypeOK, EntriesOwned, [Next]_vars
             PROVE  EntriesOwned'
  OBVIOUS
<1> USE ExecutionsAssumption
   DEF RunInv, RunTypeOK, CalledHasExecution, MapInv, EntryTypeOK, EntriesOwned, PCs, entryVars,
       workflowVars, runVars, callVars, At, Goto, Throws
<1>1. ASSUME NEW r \in Calls, NEW x \in Executions,
             Create(r, x) \/ Resume(r, x) \/ RunEnqueued(r, x)
      PROVE  EntriesOwned'
  <2>1. pc[r] = "free" /\ pc' = [pc EXCEPT ![r] = "created"] /\ exec' = [exec EXCEPT ![r] = x]
        /\ UNCHANGED <<threw, active, attached, aborted, hooks>>
    BY <1>1 DEF Create, Resume, RunEnqueued, Call
  <2>2. \A q \in Calls : pc[q] # "free" => q # r /\ pc'[q] = pc[q] /\ exec'[q] = exec[q]
    BY <2>1
  <2>3. \A e \in Executions :
            active[e] # None => exec'[active[e]] = e /\ pc'[active[e]] # "free"
    BY <2>2
  <2>4. \A q \in Calls :
            pc'[q] \in {"registered", "starting", "running"} => active[exec'[q]] \in {q, None}
    BY <2>1, <2>2
  <2>5. \A q \in attached : pc'[q] \in {"running", "saved", "done"}
    BY <2>2
  <2>6. \A q \in threw : pc'[q] # "free"
    BY <2>2
  <2> QED BY <2>1, <2>3, <2>4, <2>5, <2>6
<1>2. ASSUME NEW r \in Calls, RunStep(r)
      PROVE  EntriesOwned'
  <2>1. CASE Reserve(r)
    BY <2>1 DEF Reserve
  <2>2. CASE SetRunning(r)
    BY <2>2 DEF SetRunning
  <2>3. CASE ResumeRow(r)
    BY <2>3 DEF ResumeRow
  <2>4. CASE Register(r)
    BY <2>4 DEF Register, ClaimExclusive, Claims, Owns, Working
  <2>5. CASE FailExecution(r)
    BY <2>5 DEF FailExecution
  <2>6. CASE SetRunningAgain(r)
    BY <2>6 DEF SetRunningAgain
  <2>7. CASE StartFails(r)
    BY <2>7 DEF StartFails, FinalizeExecution, Settle
  <2>8. CASE LateSave(r)
    BY <2>8 DEF LateSave
  <2>9. CASE StartWorkflow(r)
    BY <2>9 DEF StartWorkflow
  <2>10. CASE WorkflowEnds(r)
    BY <2>10 DEF WorkflowEnds, AfterWorkflow
  <2>11. CASE Finalize(r)
    BY <2>11 DEF Finalize, FinalizeExecution, Settle
  <2>12. CASE SaveCanceled(r)
    BY <2>12 DEF SaveCanceled
  <2>13. CASE AddThrows(r) \/ PreparationThrows(r) \/ AttachThrows(r)
    BY <2>13 DEF AddThrows, PreparationThrows, AttachThrows
  <2>14. CASE SaveThrows(r)
    BY <2>14 DEF SaveThrows, AfterWorkflow
  <2> QED
    BY <1>2, <2>1, <2>2, <2>3, <2>4, <2>5, <2>6, <2>7, <2>8, <2>9, <2>10, <2>11, <2>12, <2>13,
       <2>14 DEF RunStep
<1>3. ASSUME NEW r \in Calls, PutExecutionToWait(r) \/ Timeout(r)
      PROVE  EntriesOwned'
  BY <1>3 DEF PutExecutionToWait, Timeout, StopExecution, Settle
<1>4. ASSUME NEW x \in Executions, StopRequest(x) \/ StopStep(x)
      PROVE  EntriesOwned'
  BY <1>4 DEF StopRequest, StopStep, StopInRegularMode, StopWrite, StopThrows, StopExecution, Settle
<1>5. CASE Shutdown \/ Exit \/ Crash \/ Start
  BY <1>5 DEF Shutdown, Exit, Crash, ProcessEnds, Start
<1>6. CASE UNCHANGED vars
  BY <1>6 DEF vars
<1> QED BY <1>1, <1>2, <1>3, <1>4, <1>5, <1>6 DEF Next

LEMMA AttendedStep ==
    RunInv /\ MapInv /\ EntryTypeOK /\ EntriesOwned /\ RunningRowsAttended /\ [Next]_vars
        => RunningRowsAttended'
<1> SUFFICES ASSUME RunInv, MapInv, EntryTypeOK, EntriesOwned, RunningRowsAttended, [Next]_vars
             PROVE  RunningRowsAttended'
  OBVIOUS
<1> USE ExecutionsAssumption
   DEF RunInv, RunTypeOK, CalledHasExecution, MapInv, EntryTypeOK, RunningRowsAttended, WillSave,
       GivenUp, Throws, PCs, runVars, callVars, processVars, workflowVars, At, Alive, Goto,
       SetStatus, SaveUnlessCanceled
<1>1. ASSUME NEW r \in Calls, NEW x \in Executions,
             Create(r, x) \/ Resume(r, x) \/ RunEnqueued(r, x)
      PROVE  RunningRowsAttended'
  <2>1. pc[r] = "free" /\ pc' = [pc EXCEPT ![r] = "created"] /\ exec' = [exec EXCEPT ![r] = x]
        /\ UNCHANGED <<threw, aborted, hooks, phase, starts>>
    BY <1>1 DEF Create, Resume, RunEnqueued, Call
  <2>2. \A e \in Executions : db'[e] = "running" => db[e] = "running"
    BY <1>1 DEF Create, Resume, RunEnqueued
  <2>3. \A q \in Calls : WillSave(q) \/ GivenUp(q) =>
            q # r /\ pc'[q] = pc[q] /\ exec'[q] = exec[q]
    BY <2>1 DEF EntriesOwned
  <2> QED BY <2>1, <2>2, <2>3
<1>2. ASSUME NEW r \in Calls, RunStep(r)
      PROVE  RunningRowsAttended'
  <2>1. CASE Reserve(r)
    BY <2>1 DEF Reserve
  <2>2. CASE SetRunning(r)
    BY <2>2 DEF SetRunning
  <2>3. CASE ResumeRow(r)
    BY <2>3 DEF ResumeRow
  <2>4. CASE Register(r)
    BY <2>4 DEF Register
  <2>5. CASE FailExecution(r)
    BY <2>5 DEF FailExecution
  <2>6. CASE SetRunningAgain(r)
    BY <2>6 DEF SetRunningAgain
  <2>7. CASE StartFails(r)
    BY <2>7 DEF StartFails
  <2>8. CASE LateSave(r)
    BY <2>8 DEF LateSave
  <2>9. CASE StartWorkflow(r)
    BY <2>9 DEF StartWorkflow, EntriesOwned
  <2>10. CASE WorkflowEnds(r)
    BY <2>10 DEF WorkflowEnds, AfterWorkflow
  <2>11. CASE Finalize(r)
    BY <2>11 DEF Finalize
  <2>12. CASE SaveCanceled(r)
    BY <2>12 DEF SaveCanceled
  <2>13. CASE AddThrows(r) \/ PreparationThrows(r) \/ AttachThrows(r)
    BY <2>13 DEF AddThrows, PreparationThrows, AttachThrows
  <2>14. CASE SaveThrows(r)
    BY <2>14 DEF SaveThrows, AfterWorkflow
  <2> QED
    BY <1>2, <2>1, <2>2, <2>3, <2>4, <2>5, <2>6, <2>7, <2>8, <2>9, <2>10, <2>11, <2>12, <2>13,
       <2>14 DEF RunStep
<1>3. ASSUME NEW r \in Calls, PutExecutionToWait(r) \/ Timeout(r)
      PROVE  RunningRowsAttended'
  BY <1>3 DEF PutExecutionToWait, Timeout, StopExecution
<1>4. ASSUME NEW x \in Executions, StopRequest(x) \/ StopStep(x)
      PROVE  RunningRowsAttended'
  BY <1>4 DEF StopRequest, StopStep, StopInRegularMode, StopWrite, StopThrows, StopExecution
<1>5. CASE Shutdown \/ Exit \/ Crash \/ Start
  BY <1>5 DEF Shutdown, Exit, Crash, ProcessEnds, Start
<1>6. CASE UNCHANGED vars
  BY <1>6 DEF vars
<1> QED BY <1>1, <1>2, <1>3, <1>4, <1>5, <1>6 DEF Next

(* No interleaving of runs, stops and timeouts leaves a row running that   *)
(* nothing will save, except for a run that rejected before its `try` or a *)
(* save that threw.                                                        *)
THEOREM RunningRowsAttendedHolds == Spec => []RunningRowsAttended
<1>1. Init => EntryTypeOK /\ EntriesOwned /\ RunningRowsAttended
  BY ExecutionsAssumption DEF Init, EntryTypeOK, EntriesOwned, RunningRowsAttended
<1> QED
  BY <1>1, InitMapInv, MapStep, EntryTypeStep, OwnedStep, AttendedStep, RunInvariant, PTL DEF Spec

-----------------------------------------------------------------------------
(* Slots that are given back.                                              *)

(* What add has put in the map, and what settles, has come that far.       *)
Entered(r) == pc[r] \notin {"free", "created", "reserving", "updated"}

(* A run whose end is saved and whose entry is still to be finalized.      *)
Closing(r) ==
    /\ pc[r] \in {"saved", "failed"}
    /\ active[exec[r]] = r
    /\ r \notin settled /\ r \notin waiting

(* Entries and the runs they belong to.  A run that closes has left its    *)
(* row in a status that nobody resumes, and nobody else claims the row: so *)
(* no other call replaces its entry.                                       *)
EntryInv ==
    /\ \A e \in Executions : active[e] # None => Entered(active[e])
    /\ \A r \in settled : Entered(r)
    /\ \A r \in waiting : pc[r] \in {"running", "saved", "done"}
    /\ waitTill \subseteq waiting
    /\ \A r \in Calls :
          (pc[r] = "running" /\ active[exec[r]] = r /\ r \notin settled) => r \in attached
    /\ \A r \in Calls : Closing(r) =>
          /\ db[exec[r]] \notin {"none", "new", "waiting"}
          /\ \A q \in Calls : Claims(q) => exec[q] # exec[r]

LEMMA EntryStep ==
    RunInv /\ MapInv /\ EntryTypeOK /\ EntriesOwned /\ EntryInv /\ [Next]_vars => EntryInv'
<1> SUFFICES ASSUME RunInv, MapInv, EntryTypeOK, EntriesOwned, EntryInv, [Next]_vars
             PROVE  EntryInv'
  OBVIOUS
<1> USE ExecutionsAssumption
   DEF RunInv, RunTypeOK, CalledHasExecution, ClaimExclusive, ClaimedRow, MapInv, EntryTypeOK,
       EntriesOwned, EntryInv, Entered, Closing, Claims, Fresh, Owns, Working, Statuses, PCs,
       entryVars, workflowVars, runVars, callVars, At, Goto, SetStatus, SaveUnlessCanceled
<1>1. ASSUME NEW r \in Calls, NEW x \in Executions, Create(r, x)
      PROVE  EntryInv'
  BY <1>1 DEF Create, Call
<1>2. ASSUME NEW r \in Calls, NEW x \in Executions, Resume(r, x) \/ RunEnqueued(r, x)
      PROVE  EntryInv'
  BY <1>2 DEF Resume, RunEnqueued, Call
<1>3. ASSUME NEW r \in Calls, RunStep(r)
      PROVE  EntryInv'
  <2>1. CASE Reserve(r)
    BY <2>1 DEF Reserve
  <2>2. CASE SetRunning(r)
    BY <2>2 DEF SetRunning
  <2>3. CASE ResumeRow(r)
    BY <2>3 DEF ResumeRow
  <2>4. CASE Register(r)
    BY <2>4 DEF Register
  <2>5. CASE FailExecution(r)
    BY <2>5 DEF FailExecution
  <2>6. CASE SetRunningAgain(r)
    BY <2>6 DEF SetRunningAgain
  <2>7. CASE StartFails(r)
    BY <2>7 DEF StartFails, FinalizeExecution, Settle
  <2>8. CASE LateSave(r)
    BY <2>8 DEF LateSave
  <2>9. CASE StartWorkflow(r)
    BY <2>9 DEF StartWorkflow
  <2>10. CASE WorkflowEnds(r)
    BY <2>10 DEF WorkflowEnds, AfterWorkflow
  <2>11. CASE Finalize(r)
    BY <2>11 DEF Finalize, FinalizeExecution, Settle
  <2>12. CASE SaveCanceled(r)
    BY <2>12 DEF SaveCanceled
  <2>13. CASE AddThrows(r)
    BY <2>13 DEF AddThrows
  <2>14. CASE PreparationThrows(r) \/ AttachThrows(r)
    BY <2>14 DEF PreparationThrows, AttachThrows
  <2>15. CASE SaveThrows(r)
    BY <2>15 DEF SaveThrows, AfterWorkflow
  <2> QED
    BY <1>3, <2>1, <2>2, <2>3, <2>4, <2>5, <2>6, <2>7, <2>8, <2>9, <2>10, <2>11, <2>12, <2>13,
       <2>14, <2>15 DEF RunStep
<1>4. ASSUME NEW r \in Calls, PutExecutionToWait(r)
      PROVE  EntryInv'
  BY <1>4 DEF PutExecutionToWait
<1>5. ASSUME NEW r \in Calls, Timeout(r)
      PROVE  EntryInv'
  BY <1>5 DEF Timeout, StopExecution, Settle
<1>6. ASSUME NEW x \in Executions, StopRequest(x) \/ StopWrite(x) \/ StopThrows(x)
      PROVE  EntryInv'
  BY <1>6 DEF StopRequest, StopWrite, StopThrows
<1>7. ASSUME NEW x \in Executions, StopInRegularMode(x)
      PROVE  EntryInv'
  BY <1>7 DEF StopInRegularMode, StopExecution, Settle
<1>8. CASE Shutdown
  BY <1>8 DEF Shutdown
<1>9. CASE Exit \/ Crash
  BY <1>9 DEF Exit, Crash, ProcessEnds
<1>10. CASE Start
  BY <1>10 DEF Start, DownMeansIdle
<1>11. CASE UNCHANGED vars
  BY <1>11 DEF vars
<1> QED
  BY <1>1, <1>2, <1>3, <1>4, <1>5, <1>6, <1>7, <1>8, <1>9, <1>10, <1>11 DEF Next, StopStep

(* What a step of the queue may do to a call that does not act itself: it  *)
(* leaves it, or takes it out of the queue.                                *)
Moved(d) ==
    slot'[d] = slot[d] \/ (slot[d] = "queued" /\ slot'[d] \in {"held", "dropped"})

LEMMA ResolveNextMoves ==
    ASSUME NEW q \in Seq(Calls), NEW s \in [Calls -> Slots], ResolveNext(q, s),
           \A i \in 1 .. Len(q) : s[q[i]] = "queued",
           NEW d \in Calls
    PROVE  slot'[d] = s[d] \/ (s[d] = "queued" /\ slot'[d] = "held")
<1>1. CASE q = <<>>
  BY <1>1 DEF ResolveNext
<1>2. CASE q # <<>>
  <2>1. Head(q) = q[1] /\ 1 \in 1 .. Len(q) /\ q[1] \in Calls
    BY <1>2, HeadTailProperties, LenProperties, EmptySeq
  <2>2. slot' = [s EXCEPT ![q[1]] = "held"] /\ s[q[1]] = "queued"
    BY <1>2, <2>1 DEF ResolveNext
  <2>3. QED
    BY <2>1, <2>2
<1>3. QED
  BY <1>1, <1>2

(* Release gives back what its call holds, and moves only waiting calls.   *)
LEMMA ReleaseMoves ==
    ASSUME QueueInv, NEW r \in Calls, Release(r)
    PROVE  /\ enabled => slot'[r] # "held"
           /\ slot'[r] \in {slot[r], "released"}
           /\ \A d \in Calls : d # r => Moved(d)
<1>1. /\ queue \in Seq(Calls) /\ slot \in [Calls -> Slots]
      /\ \A i \in 1 .. Len(queue) : queue[i] \in Calls /\ slot[queue[i]] = "queued"
  BY ElementOfSeq DEF QueueInv, QueueTypeOK, Slots, Matches
<1>2. CASE ~(slot[r] = "held" /\ enabled)
  BY <1>2 DEF Release, queueVars, Moved
<1>3. CASE slot[r] = "held" /\ enabled
  <2> DEFINE s == [slot EXCEPT ![r] = "released"]
  <2>1. ResolveNext(queue, s)
    BY <1>3 DEF Release, Dequeue
  <2>2. s \in [Calls -> Slots] /\ \A d \in Calls : s[d] = IF d = r THEN "released" ELSE slot[d]
    BY <1>1 DEF Slots
  <2> HIDE DEF s
  <2>3. \A i \in 1 .. Len(queue) : s[queue[i]] = "queued"
    BY <1>1, <1>3, <2>2
  <2>4. \A d \in Calls : slot'[d] = s[d] \/ (s[d] = "queued" /\ slot'[d] = "held")
    BY <1>1, <2>1, <2>2, <2>3, ResolveNextMoves
  <2>5. QED
    BY <2>2, <2>4 DEF Moved
<1>4. QED
  BY <1>2, <1>3

(* The same of the promise of an entry that settles.                       *)
LEMMA SettleMoves ==
    ASSUME QueueInv, NEW r \in Calls, Settle(r)
    PROVE  /\ enabled /\ r \notin settled => slot'[r] # "held"
           /\ slot'[r] \in {slot[r], "released"}
           /\ \A d \in Calls : d # r => Moved(d)
           /\ settled' = settled \cup {r}
           /\ active' = active \/ active' = [active EXCEPT ![exec[r]] = None]
BY ReleaseMoves DEF Settle, queueVars, Moved

(* reserve                                                                 *)
LEMMA EnqueueMoves ==
    ASSUME QueueInv, NEW r \in Calls, Enqueue(r), NEW d \in Calls, d # r
    PROVE  slot'[d] = slot[d]
BY DEF Enqueue, QueueInv, QueueTypeOK

(* remove                                                                  *)
LEMMA RemoveMoves ==
    ASSUME QueueInv, NEW i \in 1 .. Len(queue), RemoveAt(i), NEW d \in Calls
    PROVE  Moved(d)
<1> DEFINE s == [slot EXCEPT ![queue[i]] = "dropped"]
           w == Without(i)
<1>1. /\ queue \in Seq(Calls) /\ slot \in [Calls -> Slots] /\ Len(queue) \in Nat
      /\ \A k \in 1 .. Len(queue) : queue[k] \in Calls /\ slot[queue[k]] = "queued"
      /\ \A k, m \in 1 .. Len(queue) : queue[k] = queue[m] => k = m
  BY LenProperties, ElementOfSeq DEF QueueInv, QueueTypeOK, Slots, Matches
<1>2. ResolveNext(w, s)
  BY DEF RemoveAt
<1>3. s \in [Calls -> Slots] /\ \A c \in Calls : s[c] = IF c = queue[i] THEN "dropped" ELSE slot[c]
  BY <1>1 DEF Slots
<1>4. /\ w \in Seq(Calls) /\ Len(w) = Len(queue) - 1
      /\ \A k \in 1 .. Len(queue) - 1 : w[k] = IF k < i THEN queue[k] ELSE queue[k + 1]
  BY <1>1, WithoutProperties
<1> HIDE DEF s, w
<1>5. ASSUME NEW k \in 1 .. Len(w)
      PROVE  s[w[k]] = "queued"
  <2>1. PICK j \in 1 .. Len(queue) : j # i /\ w[k] = queue[j]
    BY <1>1, <1>4
  <2>2. queue[j] # queue[i]
    BY <1>1, <2>1
  <2>3. QED
    BY <1>1, <1>3, <2>1, <2>2
<1>6. slot'[d] = s[d] \/ (s[d] = "queued" /\ slot'[d] = "held")
  BY <1>2, <1>3, <1>4, <1>5, ResolveNextMoves
<1>7. QED
  BY <1>1, <1>3, <1>6 DEF Moved

(* SlotsAttended, and what it needs of the queue: throttling is enabled    *)
(* while the process is up, and who waits is in add.                       *)
SlotInv ==
    /\ phase = "up" => enabled
    /\ phase = "down" => \A r \in Calls : slot[r] \notin {"queued", "held"}
    /\ \A r \in Calls : slot[r] = "queued" => pc[r] = "reserving"
    /\ SlotsAttended

LEMMA SlotStep ==
    RunInv /\ MapInv /\ EntryTypeOK /\ EntriesOwned /\ EntryInv /\ QueueInv /\ SlotInv
        /\ [Next]_vars => SlotInv'
<1> SUFFICES ASSUME RunInv, MapInv, EntryTypeOK, EntriesOwned, EntryInv, QueueInv, SlotInv,
                    [Next]_vars
             PROVE  SlotInv'
  OBVIOUS
<1>0. slot \in [Calls -> Slots]
  BY DEF QueueInv, QueueTypeOK, Slots
<1> USE <1>0, ExecutionsAssumption
   DEF RunInv, RunTypeOK, CalledHasExecution, ClaimExclusive, MapInv, EntryTypeOK,
       EntriesOwned, EntryInv, Entered, Closing, Claims, Owns, Working, SlotInv, SlotsAttended,
       SlotLost, Held, InState, Slots, PCs, entryVars, workflowVars, processVars, queueVars,
       runVars, callVars, At, Alive, Goto, Moved, LetThrough
<1>1. ASSUME NEW r \in Calls, NEW x \in Executions,
             Create(r, x) \/ Resume(r, x) \/ RunEnqueued(r, x)
      PROVE  SlotInv'
  BY <1>1 DEF Create, Resume, RunEnqueued, Call
<1>2. ASSUME NEW r \in Calls, RunStep(r)
      PROVE  SlotInv'
  <2>1. CASE Reserve(r)
    <3>1. CASE UNCHANGED slot
      BY <2>1, <3>1 DEF Reserve
    <3>2. CASE Enqueue(r)
      <4>1. \A d \in Calls : d # r => slot'[d] = slot[d]
        BY <3>2, EnqueueMoves
      <4>2. slot[r] = "idle" /\ pc'[r] = "reserving"
        BY <2>1, <3>2 DEF Reserve, Enqueue
      <4>3. QED
        BY <2>1, <4>1, <4>2 DEF Reserve
    <3>3. QED
      BY <2>1, <3>1, <3>2 DEF Reserve
  <2>2. CASE SetRunning(r)
    BY <2>2 DEF SetRunning
  <2>3. CASE ResumeRow(r)
    <3>1. CASE db[exec[r]] = "waiting"
      BY <2>3, <3>1 DEF ResumeRow
    <3>2. CASE db[exec[r]] # "waiting"
      <4>1. /\ enabled => slot'[r] # "held"
            /\ slot'[r] \in {slot[r], "released"}
            /\ \A d \in Calls : d # r => Moved(d)
        BY <2>3, <3>2, ReleaseMoves DEF ResumeRow
      <4>2. QED
        BY <2>3, <3>2, <4>1 DEF ResumeRow
    <3>3. QED
      BY <3>1, <3>2
  <2>4. CASE Register(r)
    BY <2>4 DEF Register
  <2>5. CASE FailExecution(r)
    BY <2>5 DEF FailExecution
  <2>6. CASE SetRunningAgain(r)
    BY <2>6 DEF SetRunningAgain
  <2>7. CASE StartFails(r)
    <3>1. CASE active[exec[r]] = None
      BY <2>7, <3>1 DEF StartFails, FinalizeExecution
    <3>2. CASE active[exec[r]] # None
      <4> DEFINE n == active[exec[r]]
      <4>1. n \in Calls /\ Settle(n)
        BY <2>7, <3>2 DEF StartFails, FinalizeExecution
      <4>2. /\ enabled /\ n \notin settled => slot'[n] # "held"
            /\ slot'[n] \in {slot[n], "released"}
            /\ \A d \in Calls : d # n => Moved(d)
            /\ settled' = settled \cup {n}
            /\ active' = active \/ active' = [active EXCEPT ![exec[n]] = None]
        BY <4>1, SettleMoves
      <4>3. QED
        BY <2>7, <4>1, <4>2 DEF StartFails
    <3>3. QED
      BY <3>1, <3>2
  <2>8. CASE LateSave(r)
    BY <2>8 DEF LateSave
  <2>9. CASE StartWorkflow(r)
    BY <2>9 DEF StartWorkflow
  <2>10. CASE WorkflowEnds(r)
    BY <2>10 DEF WorkflowEnds, AfterWorkflow
  <2>11. CASE Finalize(r)
    <3>1. CASE active[exec[r]] = None
      BY <2>11, <3>1 DEF Finalize, FinalizeExecution
    <3>2. CASE active[exec[r]] # None
      <4> DEFINE n == active[exec[r]]
      <4>1. n \in Calls /\ Settle(n)
        BY <2>11, <3>2 DEF Finalize, FinalizeExecution
      <4>2. /\ enabled /\ n \notin settled => slot'[n] # "held"
            /\ slot'[n] \in {slot[n], "released"}
            /\ \A d \in Calls : d # n => Moved(d)
            /\ settled' = settled \cup {n}
            /\ active' = active \/ active' = [active EXCEPT ![exec[n]] = None]
        BY <4>1, SettleMoves
      <4>3. QED
        BY <2>11, <4>1, <4>2 DEF Finalize
    <3>3. QED
      BY <3>1, <3>2
  <2>12. CASE SaveCanceled(r)
    BY <2>12 DEF SaveCanceled
  <2>13. CASE AddThrows(r)
    <3>1. /\ enabled => slot'[r] # "held"
          /\ slot'[r] \in {slot[r], "released"}
          /\ \A d \in Calls : d # r => Moved(d)
      BY <2>13, ReleaseMoves DEF AddThrows
    <3>2. QED
      BY <2>13, <3>1 DEF AddThrows
  <2>14. CASE PreparationThrows(r) \/ AttachThrows(r)
    BY <2>14 DEF PreparationThrows, AttachThrows
  <2>15. CASE SaveThrows(r)
    BY <2>15 DEF SaveThrows, AfterWorkflow
  <2> QED
    BY <1>2, <2>1, <2>2, <2>3, <2>4, <2>5, <2>6, <2>7, <2>8, <2>9, <2>10, <2>11, <2>12, <2>13,
       <2>14, <2>15 DEF RunStep
<1>3. ASSUME NEW r \in Calls, PutExecutionToWait(r)
      PROVE  SlotInv'
  BY <1>3 DEF PutExecutionToWait
<1>4. ASSUME NEW e \in Executions, StopExecution(e), UNCHANGED <<pc, exec, waiting, phase, enabled>>
      PROVE  SlotInv'
  <2>1. CASE active[e] = None \/ active[e] \in waiting
    BY <1>4, <2>1 DEF StopExecution
  <2>2. CASE active[e] # None /\ active[e] \notin waiting
    <3> DEFINE n == active[e]
    <3>1. n \in Calls /\ Settle(n)
      BY <1>4, <2>2 DEF StopExecution
    <3>2. /\ enabled /\ n \notin settled => slot'[n] # "held"
          /\ slot'[n] \in {slot[n], "released"}
          /\ \A d \in Calls : d # n => Moved(d)
          /\ settled' = settled \cup {n}
          /\ active' = active \/ active' = [active EXCEPT ![exec[n]] = None]
      BY <3>1, SettleMoves
    <3>3. QED
      BY <1>4, <3>1, <3>2
  <2>3. QED
    BY <2>1, <2>2
<1>5. ASSUME NEW r \in Calls, Timeout(r)
      PROVE  SlotInv'
  BY <1>4, <1>5 DEF Timeout
<1>6. ASSUME NEW x \in Executions, StopInRegularMode(x)
      PROVE  SlotInv'
  <2>1. CASE StopExecution(x)
    BY <1>4, <1>6, <2>1 DEF StopInRegularMode
  <2>2. CASE ~StopExecution(x)
    <3>1. PICK i \in QueuedAt(x) : RemoveAt(i)
      BY <1>6, <2>2 DEF StopInRegularMode
    <3>2. \A d \in Calls : Moved(d)
      BY <3>1, RemoveMoves DEF QueuedAt
    <3>3. UNCHANGED <<pc, exec, active, waiting, settled, phase, enabled>>
      BY <1>6, <2>2 DEF StopInRegularMode
    <3>4. QED
      BY <3>2, <3>3
  <2>3. QED
    BY <2>1, <2>2
<1>7. ASSUME NEW x \in Executions, StopRequest(x) \/ StopWrite(x) \/ StopThrows(x)
      PROVE  SlotInv'
  BY <1>7 DEF StopRequest, StopWrite, StopThrows
<1>8. CASE Shutdown
  BY <1>8 DEF Shutdown
<1>9. CASE Exit \/ Crash
  BY <1>9 DEF Exit, Crash, ProcessEnds, Reconstruct
<1>10. CASE Start
  BY <1>10 DEF Start
<1>11. CASE UNCHANGED vars
  BY <1>11 DEF vars
<1> QED
  BY <1>1, <1>2, <1>3, <1>5, <1>6, <1>7, <1>8, <1>9, <1>10, <1>11 DEF Next, StopStep

(* Whatever interleaving of runs, stops, timeouts, resumes and database    *)
(* calls that throw: no slot of the concurrency limit is lost but in the   *)
(* two ways SlotLost names (active-executions.ts add, stopExecution).      *)
THEOREM SlotsAttendedHolds == Spec => []SlotsAttended
<1>1. Init => EntryTypeOK /\ EntriesOwned /\ EntryInv /\ SlotInv
  BY ExecutionsAssumption
  DEF Init, QueueInit, EntryTypeOK, EntriesOwned, EntryInv, Closing, SlotInv, SlotsAttended,
      Held, InState
<1>2. SlotInv => SlotsAttended
  BY DEF SlotInv
<1>3. Spec => []QueueInv
  BY ImplementsQueue, QueueInvariant, PTL
<1> QED
  BY <1>1, <1>2, <1>3, InitMapInv, MapStep, EntryTypeStep, OwnedStep, EntryStep, SlotStep,
     RunInvariant, PTL DEF Spec
=============================================================================
