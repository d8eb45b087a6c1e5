------------------------ MODULE BackgroundWorkProofs ------------------------
(***************************************************************************)
(* What BackgroundWork guarantees for any number of processes, jobs,       *)
(* subjects, restarts and faults.                                          *)
(***************************************************************************)
EXTENDS BackgroundWork, TLAPS

-----------------------------------------------------------------------------
(***************************************************************************)
(* Types of the compound values the actions build                          *)
(***************************************************************************)
LEMMA EmptyTypes == NoTask \in TaskType /\ NoTxn \in TxnType
  BY DEF NoTask, TaskType, NoTxn, TxnType, Final

LEMMA CancelTaskType ==
  ASSUME NEW t \in TaskType
  PROVE  CancelTask(t) \in TaskType
<1>1. CASE t.st = "waiting"
  BY <1>1, EmptyTypes DEF CancelTask
<1>2. CASE t.st = "running"
  <2>1. CancelTask(t) = [t EXCEPT !.st = "cancelling"]
    BY <1>2 DEF CancelTask
  <2>2. [t EXCEPT !.st = "cancelling"] \in TaskType
    BY DEF TaskType, Working
  <2> QED
    BY <2>1, <2>2
<1>3. CASE t.st # "waiting" /\ t.st # "running"
  BY <1>3 DEF CancelTask
<1> QED
  BY <1>1, <1>2, <1>3

LEMMA StopTasksType ==
  ASSUME TypeOK, NEW p \in Proc, StopTasks(p)
  PROVE  /\ task' \in [Proc -> [Job -> TaskType]]
         /\ draining' \in [Proc -> SUBSET Job]
<1>1. [j \in Job |-> CancelTask(task[p][j])] \in [Job -> TaskType]
  BY CancelTaskType DEF TypeOK
<1>2. Mine(p) \subseteq Job
  BY DEF Mine
<1> QED
  BY <1>1, <1>2 DEF StopTasks, TypeOK

LEMMA ScheduleType ==
  ASSUME TypeOK, NEW p \in Proc, NEW S \in SUBSET Job, Schedule(p, S)
  PROVE  task' \in [Proc -> [Job -> TaskType]]
<1> DEFINE new == [st |-> "waiting", gen |-> semGen[p]]
<1>1. new \in TaskType
  BY DEF TypeOK, TaskType
<1>2. [j \in Job |-> IF j \in S /\ task[p][j].st = "none" THEN new ELSE task[p][j]]
        \in [Job -> TaskType]
  BY <1>1 DEF TypeOK
<1> QED
  BY <1>2 DEF Schedule, TypeOK

LEMMA FinishReadType ==
  ASSUME TypeOK, NEW p \in Proc, NEW j \in Job, NEW o \in Final, FinishRead(p, j, o)
  PROVE  txn' \in [Proc -> TxnType]
<1>1. [NoTxn EXCEPT !.op = "finish", !.jobs = {j}, !.outcome = o] \in TxnType
  BY DEF NoTxn, TxnType
<1> QED
  BY <1>1, EmptyTypes DEF FinishRead, TypeOK

LEMMA TaskAfterFinishType ==
  ASSUME TypeOK, NEW p \in Proc, TaskAfterFinish(p)
  PROVE  task' \in [Proc -> [Job -> TaskType]]
<1>1. [j \in Job |-> IF j \in txn[p].jobs THEN NoTask ELSE task[p][j]] \in [Job -> TaskType]
  BY EmptyTypes DEF TypeOK
<1> QED
  BY <1>1 DEF TaskAfterFinish, TypeOK

LEMMA TxnFields ==
  ASSUME TypeOK, NEW p \in Proc
  PROVE  /\ txn[p].jobs \subseteq Job /\ txn[p].queued \subseteq Job
         /\ txn[p].outcome \in Final /\ txn[p].subject \in Subject \cup {NoSubject}
  BY DEF TypeOK, TxnType

-----------------------------------------------------------------------------
(***************************************************************************)
(* Type correctness, one step per action                                   *)
(***************************************************************************)
LEMMA TypeStep == TypeOK /\ [Next]_vars => TypeOK'
<1> SUFFICES ASSUME TypeOK, [Next]_vars PROVE TypeOK'
  OBVIOUS
<1>0. CASE ServerReleases
  BY <1>0 DEF ServerReleases, TypeOK, jobRows, procVars
<1>1. ASSUME NEW p \in Proc, Boot(p) PROVE TypeOK'
  BY <1>1 DEF Boot, TypeOK, jobRows, procVars, Phase
<1>2. ASSUME NEW p \in Proc, AttemptFails(p) PROVE TypeOK'
  BY <1>2 DEF AttemptFails, TypeOK, jobRows, procVars, Phase
<1>3. ASSUME NEW p \in Proc, Acquire(p) PROVE TypeOK'
  BY <1>3 DEF Acquire, TypeOK, jobRows, procVars
<1>4. ASSUME NEW p \in Proc, Reacquire(p) PROVE TypeOK'
  BY <1>4 DEF Reacquire, TypeOK, jobRows, procVars, ElectionRuns
<1>5. ASSUME NEW p \in Proc, SteppedDown(p) PROVE TypeOK'
  BY <1>5 DEF SteppedDown, TypeOK, jobRows, procVars
<1>6. ASSUME NEW p \in Proc, LoseLock(p) PROVE TypeOK'
  BY <1>6 DEF LoseLock, TypeOK, jobRows, procVars
<1>7. ASSUME NEW p \in Proc, HandOver(p) PROVE TypeOK'
  <2>1. CASE elect[p] \in {"leading", "stepping"}
    BY <1>7, <2>1, StopTasksType DEF HandOver, TypeOK, jobRows, Phase
  <2>2. CASE elect[p] \notin {"leading", "stepping"}
    BY <1>7, <2>2 DEF HandOver, TypeOK, jobRows, Phase
  <2> QED
    BY <2>1, <2>2
<1>8. ASSUME NEW p \in Proc, StepDown(p) PROVE TypeOK'
  BY <1>8, StopTasksType DEF StepDown, TypeOK, jobRows
<1>9. ASSUME NEW p \in Proc, Shutdown(p) PROVE TypeOK'
  BY <1>9, StopTasksType DEF Shutdown, TypeOK, jobRows, Phase
<1>10. ASSUME NEW p \in Proc, Lead(p) PROVE TypeOK'
  <2>1. [NoTxn EXCEPT !.op = "recover", !.jobs = Interrupted(p), !.queued = Requeued(p)]
          \in TxnType
    BY DEF NoTxn, TxnType, Interrupted, Requeued, Final
  <2> QED
    BY <1>10, <2>1 DEF Lead, TypeOK, jobRows, Phase
<1>11. ASSUME NEW p \in Proc, RecoverCommit(p) PROVE TypeOK'
  <2>1. status' \in [Job -> JobStatus]
    BY <1>11 DEF RecoverCommit, TypeOK, InterruptedStatus, JobStatus, Final
  <2>2. txn' \in [Proc -> TxnType]
    <3>1. [txn[p] EXCEPT !.op = "announce", !.outcome = "failed"] \in TxnType
      <4>1. txn[p] \in TxnType
        BY DEF TypeOK
      <4> QED
        BY <4>1 DEF TxnType, Final
    <3>2. txn' = [txn EXCEPT ![p] = [txn[p] EXCEPT !.op = "announce", !.outcome = "failed"]]
      BY <1>11 DEF RecoverCommit, TypeOK
    <3> QED
      BY <3>1, <3>2 DEF TypeOK
  <2> QED
    BY <1>11, <2>1, <2>2 DEF RecoverCommit, TypeOK
<1>12. ASSUME NEW p \in Proc, FinishCommit(p) PROVE TypeOK'
  <2>1. status' \in [Job -> JobStatus]
    BY <1>12, TxnFields DEF FinishCommit, TypeOK, JobStatus
  <2>2. txn' \in [Proc -> TxnType]
    BY <1>12 DEF FinishCommit, TypeOK, TxnType
  <2> QED
    BY <1>12, <2>1, <2>2, TaskAfterFinishType DEF FinishCommit, TypeOK
<1>13. ASSUME NEW p \in Proc, FinishFails(p) PROVE TypeOK'
  <2>1. txn' \in [Proc -> TxnType]
    BY <1>13 DEF FinishFails, AfterFailedWrite, TypeOK, TxnType
  <2> QED
    BY <1>13, <2>1, TaskAfterFinishType DEF FinishFails, TypeOK, jobRows
<1>14. ASSUME NEW p \in Proc, Announce(p) PROVE TypeOK'
  <2>1. announced' \in [Job -> SUBSET Final]
    BY <1>14, TxnFields DEF Announce, TypeOK
  <2> QED
    BY <1>14, <2>1, EmptyTypes, TxnFields, ScheduleType DEF Announce, TypeOK
<1>15. ASSUME NEW p \in Proc, Exit(p) PROVE TypeOK'
  BY <1>15, EmptyTypes DEF Exit, TypeOK, jobRows, Phase
<1>16. ASSUME NEW p \in Proc, RecoverFails(p) PROVE TypeOK'
  BY <1>16, EmptyTypes DEF RecoverFails, TypeOK, jobRows
<1>17. ASSUME NEW p \in Proc, NEW s \in Subject, SubmitCheck(p, s) PROVE TypeOK'
  <2>1. [NoTxn EXCEPT !.op = "submit", !.subject = s] \in TxnType
    BY DEF NoTxn, TxnType, Final
  <2> QED
    BY <1>17, <2>1 DEF SubmitCheck, TypeOK, jobRows
<1>18. ASSUME NEW p \in Proc, NEW j \in Job, Cancel(p, j) PROVE TypeOK'
  <2>1. CancelTask(task[p][j]) \in TaskType
    BY CancelTaskType DEF TypeOK
  <2> QED
    BY <1>18, <2>1 DEF Cancel, TypeOK, jobRows
<1>19. ASSUME NEW p \in Proc, NEW j \in Job, SubmitInsert(p, j) PROVE TypeOK'
  <2>1. status' \in [Job -> JobStatus] /\ subject' \in [Job -> Subject \cup {NoSubject}]
    BY <1>19, TxnFields DEF SubmitInsert, TypeOK, JobStatus, Active
  <2>2. task' \in [Proc -> [Job -> TaskType]]
    BY <1>19, ScheduleType, {j} \in SUBSET Job DEF SubmitInsert
  <2> QED
    BY <1>19, <2>1, <2>2, EmptyTypes DEF SubmitInsert, TypeOK
<1>20. ASSUME NEW p \in Proc, NEW j \in Job, Execute(p, j) PROVE TypeOK'
  <2>1. [task[p][j] EXCEPT !.st = "running"] \in TaskType
    <3>1. task[p][j] \in TaskType
      BY DEF TypeOK
    <3> QED
      BY <3>1 DEF TaskType, Working
  <2>2. CASE Claimable(j)
    <3>1. /\ status' = [status EXCEPT ![j] = "running"]
          /\ attempts' = [attempts EXCEPT ![j] = @ + 1]
          /\ task' = [task EXCEPT ![p][j] = [@ EXCEPT !.st = "running"]]
      BY <1>20, <2>2 DEF Execute
    <3>2. task' \in [Proc -> [Job -> TaskType]]
      BY <2>1, <3>1 DEF TypeOK
    <3>3. status' \in [Job -> JobStatus] /\ attempts' \in [Job -> Nat]
      BY <3>1 DEF TypeOK, JobStatus, Active
    <3> QED
      BY <1>20, <3>2, <3>3 DEF Execute, TypeOK
  <2>3. CASE ~Claimable(j)
    <3>1. /\ task' = [task EXCEPT ![p][j] = NoTask]
          /\ UNCHANGED <<status, attempts>>
      BY <1>20, <2>3 DEF Execute
    <3> QED
      BY <1>20, <3>1, EmptyTypes DEF Execute, TypeOK
  <2> QED
    BY <2>2, <2>3
<1>21. ASSUME NEW p \in Proc, NEW j \in Job, CancelledEnds(p, j) PROVE TypeOK'
  BY <1>21, EmptyTypes DEF CancelledEnds, TypeOK, jobRows
<1>22. ASSUME NEW p \in Proc, NEW j \in Job, CancelRecord(p, j) PROVE TypeOK'
  <2>1. txn' \in [Proc -> TxnType]
    BY <1>22, FinishReadType DEF CancelRecord, Final
  <2> QED
    BY <1>22, <2>1 DEF CancelRecord, TypeOK, jobRows
<1>23. ASSUME NEW p \in Proc, NEW j \in Job, NEW o \in {"succeeded", "failed"},
            RunnerReturns(p, j, o) PROVE TypeOK'
  <2>1. txn' \in [Proc -> TxnType]
    BY <1>23, FinishReadType DEF RunnerReturns, Final
  <2>2. task' \in [Proc -> [Job -> TaskType]]
    BY <1>23, EmptyTypes DEF RunnerReturns, TypeOK
  <2> QED
    BY <1>23, <2>1, <2>2 DEF RunnerReturns, TypeOK, jobRows
<1>24. CASE UNCHANGED vars
  BY <1>24 DEF vars, TypeOK
<1> QED
  BY <1>0, <1>1, <1>2, <1>3, <1>4, <1>5, <1>6, <1>7, <1>8, <1>9, <1>10, <1>11, <1>12, <1>13,
     <1>14, <1>15, <1>16, <1>17, <1>18, <1>19, <1>20, <1>21, <1>22, <1>23, <1>24
  DEF Next, ProcessStep, JobStep, UserStep, FaultStep

\* Every column and attribute keeps its type
THEOREM TypeCorrect == Spec => []TypeOK
<1>1. Init => TypeOK
  BY EmptyTypes, ConstantsAssumption DEF Init, TypeOK, JobStatus, Phase
<1> QED
  BY <1>1, TypeStep, PTL DEF Spec

-----------------------------------------------------------------------------
(***************************************************************************)
(* Most steps are quiet: they leave the rows alone, start no work, and any *)
(* row a transaction decides about was already decided about or is active. *)
(***************************************************************************)
Quiet ==
    /\ UNCHANGED <<status, attempts>>
    /\ \A p \in Proc, j \in Job : task'[p][j].st \in Working => task[p][j].st \in Working
    /\ \A p \in Proc, j \in Job :
          j \in txn'[p].jobs => j \in txn[p].jobs \/ status[j] \in Active

LEMMA StopTasksQuiet ==
  ASSUME TypeOK, NEW p \in Proc, StopTasks(p),
         NEW q \in Proc, NEW j \in Job, task'[q][j].st \in Working
  PROVE  task[q][j].st \in Working
<1>1. CASE q = p
  <2>1. task'[q][j] = CancelTask(task[p][j])
    BY <1>1 DEF StopTasks, TypeOK
  <2> QED
    BY <1>1, <2>1 DEF CancelTask, Working, NoTask
<1>2. CASE q # p
  BY <1>2 DEF StopTasks, TypeOK
<1> QED
  BY <1>1, <1>2

LEMMA ScheduleQuiet ==
  ASSUME TypeOK, NEW p \in Proc, NEW S, Schedule(p, S),
         NEW q \in Proc, NEW j \in Job, task'[q][j].st \in Working
  PROVE  task[q][j].st \in Working
<1>1. CASE q = p
  <2>1. task'[q][j] = IF j \in S /\ task[p][j].st = "none"
                      THEN [st |-> "waiting", gen |-> semGen[p]] ELSE task[p][j]
    BY <1>1 DEF Schedule, TypeOK
  <2> QED
    BY <1>1, <2>1 DEF Working
<1>2. CASE q # p
  BY <1>2 DEF Schedule, TypeOK
<1> QED
  BY <1>1, <1>2

LEMMA TaskAfterFinishQuiet ==
  ASSUME TypeOK, NEW p \in Proc, TaskAfterFinish(p),
         NEW q \in Proc, NEW j \in Job, task'[q][j].st \in Working
  PROVE  task[q][j].st \in Working
<1>1. CASE task' = task
  BY <1>1
<1>2. CASE q = p /\ txn[p].outcome # "cancelled"
  <2>1. task'[q][j] = IF j \in txn[p].jobs THEN NoTask ELSE task[p][j]
    BY <1>2 DEF TaskAfterFinish, TypeOK
  <2> QED
    BY <1>2, <2>1 DEF NoTask, Working
<1>3. CASE q # p
  BY <1>3 DEF TaskAfterFinish, TypeOK
<1> QED
  BY <1>1, <1>2, <1>3 DEF TaskAfterFinish

LEMMA FinishReadQuiet ==
  ASSUME TypeOK, NEW p \in Proc, NEW i \in Job, NEW o, FinishRead(p, i, o),
         NEW q \in Proc, NEW j \in Job, j \in txn'[q].jobs
  PROVE  j \in txn[q].jobs \/ status[j] \in Active
<1>1. CASE q = p
  BY <1>1 DEF FinishRead, TypeOK, NoTxn, MaySettle
<1>2. CASE q # p
  BY <1>2 DEF FinishRead, TypeOK
<1> QED
  BY <1>1, <1>2

LEMMA QuietStep ==
  ASSUME TypeOK, Next,
         ~ \E p \in Proc : RecoverCommit(p) \/ FinishCommit(p),
         ~ \E p \in Proc, j \in Job : SubmitInsert(p, j),
         ~ \E p \in Proc, j \in Job : Execute(p, j) /\ Claimable(j)
  PROVE  Quiet
<1>0. CASE ServerReleases
  BY <1>0 DEF ServerReleases, Quiet, jobRows, procVars
<1>1. ASSUME NEW p \in Proc, Boot(p) PROVE Quiet
  BY <1>1 DEF Boot, Quiet, jobRows, procVars
<1>2. ASSUME NEW p \in Proc, AttemptFails(p) PROVE Quiet
  BY <1>2 DEF AttemptFails, Quiet, jobRows, procVars
<1>3. ASSUME NEW p \in Proc, Acquire(p) PROVE Quiet
  BY <1>3 DEF Acquire, Quiet, jobRows, procVars
<1>4. ASSUME NEW p \in Proc, Reacquire(p) PROVE Quiet
  BY <1>4 DEF Reacquire, Quiet, jobRows, procVars
<1>5. ASSUME NEW p \in Proc, SteppedDown(p) PROVE Quiet
  BY <1>5 DEF SteppedDown, Quiet, jobRows, procVars
<1>6. ASSUME NEW p \in Proc, LoseLock(p) PROVE Quiet
  BY <1>6 DEF LoseLock, Quiet, jobRows, procVars
<1>7. ASSUME NEW p \in Proc, HandOver(p) PROVE Quiet
  <2>1. CASE StopTasks(p)
    BY <1>7, <2>1, StopTasksQuiet DEF HandOver, Quiet, jobRows
  <2>2. CASE UNCHANGED task
    BY <1>7, <2>2 DEF HandOver, Quiet, jobRows
  <2> QED
    BY <1>7, <2>1, <2>2 DEF HandOver
<1>8. ASSUME NEW p \in Proc, StepDown(p) PROVE Quiet
  BY <1>8, StopTasksQuiet DEF StepDown, Quiet, jobRows
<1>9. ASSUME NEW p \in Proc, Shutdown(p) PROVE Quiet
  BY <1>9, StopTasksQuiet DEF Shutdown, Quiet, jobRows
<1>10. ASSUME NEW p \in Proc, Lead(p) PROVE Quiet
  <2>1. ASSUME NEW q \in Proc, NEW j \in Job, j \in txn'[q].jobs
        PROVE  j \in txn[q].jobs \/ status[j] \in Active
    <3>1. CASE q = p
      <4>1. txn'[q].jobs = Interrupted(p)
        BY <1>10, <3>1 DEF Lead, TypeOK, NoTxn
      <4> QED
        BY <2>1, <4>1 DEF Interrupted, Active
    <3>2. CASE q # p
      BY <1>10, <2>1, <3>2 DEF Lead, TypeOK
    <3> QED
      BY <3>1, <3>2
  <2> QED
    BY <1>10, <2>1 DEF Lead, Quiet, jobRows
<1>11. ASSUME NEW p \in Proc, Announce(p) PROVE Quiet
  <2>1. \A q \in Proc : txn'[q].jobs \subseteq txn[q].jobs
    BY <1>11 DEF Announce, TypeOK, NoTxn
  <2> QED
    BY <1>11, <2>1, ScheduleQuiet DEF Announce, Quiet
<1>12. ASSUME NEW p \in Proc, Exit(p) PROVE Quiet
  BY <1>12 DEF Exit, TypeOK, Quiet, jobRows, NoTask, NoTxn, Working
<1>13. ASSUME NEW p \in Proc, RecoverFails(p) PROVE Quiet
  BY <1>13 DEF RecoverFails, TypeOK, Quiet, jobRows, NoTxn
<1>14. ASSUME NEW p \in Proc, FinishFails(p) PROVE Quiet
  <2>1. \A q \in Proc : txn'[q].jobs = txn[q].jobs
    BY <1>14 DEF FinishFails, TypeOK, TxnType
  <2> QED
    BY <1>14, <2>1, TaskAfterFinishQuiet DEF FinishFails, Quiet, jobRows
<1>15. ASSUME NEW p \in Proc, NEW s \in Subject, SubmitCheck(p, s) PROVE Quiet
  BY <1>15 DEF SubmitCheck, TypeOK, Quiet, jobRows, NoTxn
<1>16. ASSUME NEW p \in Proc, NEW i \in Job, Cancel(p, i) PROVE Quiet
  <2>1. ASSUME NEW q \in Proc, NEW j \in Job, task'[q][j].st \in Working
        PROVE  task[q][j].st \in Working
    <3>1. CASE q = p /\ j = i
      <4>1. task'[q][j] = CancelTask(task[p][i])
        BY <1>16, <3>1 DEF Cancel, TypeOK
      <4> QED
        BY <2>1, <3>1, <4>1 DEF CancelTask, Working, NoTask
    <3>2. CASE ~(q = p /\ j = i)
      BY <1>16, <2>1, <3>2 DEF Cancel, TypeOK
    <3> QED
      BY <3>1, <3>2
  <2> QED
    BY <1>16, <2>1 DEF Cancel, Quiet, jobRows
<1>17. ASSUME NEW p \in Proc, NEW i \in Job, Execute(p, i) PROVE Quiet
  <2>1. ~Claimable(i)
    BY <1>17
  <2>2. task' = [task EXCEPT ![p][i] = NoTask] /\ UNCHANGED <<status, attempts, txn>>
    BY <1>17, <2>1 DEF Execute
  <2> QED
    BY <2>2 DEF TypeOK, Quiet, NoTask, Working
<1>18. ASSUME NEW p \in Proc, NEW i \in Job, CancelledEnds(p, i) PROVE Quiet
  BY <1>18 DEF CancelledEnds, TypeOK, Quiet, jobRows, NoTask, Working
<1>19. ASSUME NEW p \in Proc, NEW i \in Job, CancelRecord(p, i) PROVE Quiet
  BY <1>19, FinishReadQuiet DEF CancelRecord, Quiet, jobRows
<1>20. ASSUME NEW p \in Proc, NEW i \in Job, NEW o \in {"succeeded", "failed"},
            RunnerReturns(p, i, o) PROVE Quiet
  <2>1. \A q \in Proc, j \in Job : task'[q][j].st \in Working => task[q][j].st \in Working
    BY <1>20 DEF RunnerReturns, TypeOK, NoTask, Working
  <2> QED
    BY <1>20, <2>1, FinishReadQuiet DEF RunnerReturns, Quiet, jobRows
<1> QED
  BY <1>0, <1>1, <1>2, <1>3, <1>4, <1>5, <1>6, <1>7, <1>8, <1>9, <1>10, <1>11, <1>12,
     <1>13, <1>14, <1>15, <1>16, <1>17, <1>18, <1>19, <1>20
  DEF Next, ProcessStep, JobStep, UserStep, FaultStep

-----------------------------------------------------------------------------
(***************************************************************************)
(* The paid work of a job                                                  *)
(*                                                                         *)
(* ClaimedAtMostOnce and RunsInOnePlace are not inductive: they need that  *)
(* a row not claimed yet was never started and has no task at work, and    *)
(* that no transaction decides about a row that does not exist.            *)
(***************************************************************************)
WorkInv ==
    /\ \A j \in Job : /\ attempts[j] <= 1
                      /\ status[j] \in {"none", "queued"} => attempts[j] = 0
    /\ \A p \in Proc, j \in Job :
          task[p][j].st \in Working => status[j] \notin {"none", "queued"}
    /\ \A p \in Proc, j \in Job : j \in txn[p].jobs => status[j] # "none"
    /\ RunsInOnePlace

LEMMA WorkInit == Init => WorkInv
  BY DEF Init, WorkInv, RunsInOnePlace, NoTask, NoTxn, Working

\* How the three kinds of step that are not quiet change rows and tasks
LEMMA SettleEffect ==
  ASSUME TypeOK, NEW p \in Proc, RecoverCommit(p) \/ FinishCommit(p)
  PROVE  \E S \in SUBSET Job, o \in Final :
            /\ \A j \in S : j \in txn[p].jobs
            /\ status' = [j \in Job |-> IF j \in S THEN o ELSE status[j]]
            /\ UNCHANGED attempts
            /\ \A q \in Proc, j \in Job :
                  /\ task'[q][j].st \in Working => task[q][j].st \in Working
                  /\ txn'[q].jobs = txn[q].jobs
<1>1. txn[p].jobs \in SUBSET Job /\ txn[p].outcome \in Final
  BY TxnFields
<1>2. CASE RecoverCommit(p)
  <2>1. status' = [j \in Job |-> IF j \in txn[p].jobs THEN "failed" ELSE status[j]]
    BY <1>2 DEF RecoverCommit, InterruptedStatus
  <2>2. \A q \in Proc : txn'[q].jobs = txn[q].jobs
    <3>1. txn[p] \in TxnType
      BY DEF TypeOK
    <3>2. [txn[p] EXCEPT !.op = "announce", !.outcome = "failed"].jobs = txn[p].jobs
      BY <3>1 DEF TxnType
    <3> QED
      BY <1>2, <3>2 DEF RecoverCommit, TypeOK
  <2>3. UNCHANGED <<attempts, task>>
    BY <1>2 DEF RecoverCommit
  <2> QED
    BY <1>1, <2>1, <2>2, <2>3 DEF Final
<1>3. CASE FinishCommit(p)
  <2>1. status' = [j \in Job |-> IF j \in txn[p].jobs THEN txn[p].outcome ELSE status[j]]
    BY <1>3 DEF FinishCommit
  <2>2. \A q \in Proc : txn'[q].jobs = txn[q].jobs
    BY <1>3 DEF FinishCommit, TypeOK, TxnType
  <2>3. \A q \in Proc, j \in Job : task'[q][j].st \in Working => task[q][j].st \in Working
    BY <1>3, TaskAfterFinishQuiet DEF FinishCommit
  <2>4. UNCHANGED attempts
    BY <1>3 DEF FinishCommit
  <2> QED
    BY <1>1, <2>1, <2>2, <2>3, <2>4
<1> QED
  BY <1>2, <1>3

LEMMA SubmitEffect ==
  ASSUME TypeOK, NEW p \in Proc, NEW i \in Job, SubmitInsert(p, i)
  PROVE  /\ status[i] = "none"
         /\ status' = [status EXCEPT ![i] = "queued"]
         /\ UNCHANGED attempts
         /\ \A q \in Proc, j \in Job :
               /\ task'[q][j].st \in Working => task[q][j].st \in Working
               /\ j \in txn'[q].jobs => j \in txn[q].jobs
<1>1. \A q \in Proc, j \in Job : j \in txn'[q].jobs => j \in txn[q].jobs
  BY DEF SubmitInsert, TypeOK, NoTxn
<1> QED
  BY <1>1, ScheduleQuiet DEF SubmitInsert

LEMMA ClaimEffect ==
  ASSUME TypeOK, NEW p \in Proc, NEW i \in Job, Execute(p, i), Claimable(i)
  PROVE  /\ status[i] = "queued"
         /\ status' = [status EXCEPT ![i] = "running"]
         /\ attempts' = [attempts EXCEPT ![i] = @ + 1]
         /\ UNCHANGED txn
         /\ \A q \in Proc, j \in Job :
               task'[q][j].st \in Working => task[q][j].st \in Working \/ (q = p /\ j = i)
<1>1. /\ status' = [status EXCEPT ![i] = "running"]
      /\ attempts' = [attempts EXCEPT ![i] = @ + 1]
      /\ task' = [task EXCEPT ![p][i] = [@ EXCEPT !.st = "running"]]
      /\ UNCHANGED txn
  BY DEF Execute
<1>2. status[i] = "queued"
  BY DEF Claimable
<1>3. \A q \in Proc, j \in Job : ~(q = p /\ j = i) => task'[q][j] = task[q][j]
  BY <1>1 DEF TypeOK
<1> QED
  BY <1>1, <1>2, <1>3

LEMMA WorkStep == TypeOK /\ WorkInv /\ [Next]_vars => WorkInv'
<1> SUFFICES ASSUME TypeOK, WorkInv, [Next]_vars PROVE WorkInv'
  OBVIOUS
<1>1. ASSUME NEW p \in Proc, RecoverCommit(p) \/ FinishCommit(p) PROVE WorkInv'
  <2>1. PICK S \in SUBSET Job, o \in Final :
            /\ \A j \in S : j \in txn[p].jobs
            /\ status' = [j \in Job |-> IF j \in S THEN o ELSE status[j]]
            /\ UNCHANGED attempts
            /\ \A q \in Proc, j \in Job :
                  /\ task'[q][j].st \in Working => task[q][j].st \in Working
                  /\ txn'[q].jobs = txn[q].jobs
    BY <1>1, SettleEffect
  <2>2. \A j \in Job : status'[j] = status[j] \/ status'[j] \in Final
    BY <2>1
  <2>3. \A q \in Proc, j \in Job : j \in txn'[q].jobs => status'[j] # "none"
    BY <2>1, <2>2 DEF WorkInv, Final
  <2> QED
    BY <2>1, <2>2, <2>3 DEF WorkInv, RunsInOnePlace, Final
<1>2. ASSUME NEW p \in Proc, NEW i \in Job, SubmitInsert(p, i) PROVE WorkInv'
  <2>1. \A j \in Job : status'[j] = IF j = i THEN "queued" ELSE status[j]
    BY <1>2, SubmitEffect DEF TypeOK
  <2>2. \A q \in Proc, j \in Job : j \in txn'[q].jobs => status'[j] # "none"
    BY <1>2, <2>1, SubmitEffect DEF WorkInv
  <2>3. \A q \in Proc, j \in Job :
           task'[q][j].st \in Working => status'[j] \notin {"none", "queued"}
    BY <1>2, <2>1, SubmitEffect DEF WorkInv
  <2>4. \A j \in Job : /\ attempts'[j] <= 1
                       /\ status'[j] \in {"none", "queued"} => attempts'[j] = 0
    BY <1>2, <2>1, SubmitEffect DEF WorkInv
  <2>5. RunsInOnePlace'
    BY <1>2, SubmitEffect DEF WorkInv, RunsInOnePlace
  <2> QED
    BY <2>2, <2>3, <2>4, <2>5 DEF WorkInv
<1>3. ASSUME NEW p \in Proc, NEW i \in Job, Execute(p, i), Claimable(i) PROVE WorkInv'
  <2>1. \A j \in Job : /\ status'[j] = IF j = i THEN "running" ELSE status[j]
                       /\ attempts'[j] = IF j = i THEN attempts[i] + 1 ELSE attempts[j]
    BY <1>3, ClaimEffect DEF TypeOK
  <2>2. status[i] = "queued" /\ attempts[i] = 0
    BY <1>3, ClaimEffect DEF WorkInv
  <2>3. \A q \in Proc : task[q][i].st \notin Working
    BY <2>2 DEF WorkInv
  <2>4. \A q \in Proc, j \in Job : j \in txn'[q].jobs => status'[j] # "none"
    BY <1>3, <2>1, ClaimEffect DEF WorkInv
  <2>5. \A q \in Proc, j \in Job :
           task'[q][j].st \in Working => status'[j] \notin {"none", "queued"}
    BY <1>3, <2>1, ClaimEffect DEF WorkInv
  <2>6. RunsInOnePlace'
    BY <1>3, <2>3, ClaimEffect DEF WorkInv, RunsInOnePlace
  <2>7. \A j \in Job : /\ attempts'[j] <= 1
                       /\ status'[j] \in {"none", "queued"} => attempts'[j] = 0
    BY <2>1, <2>2 DEF WorkInv
  <2> QED
    BY <2>4, <2>5, <2>6, <2>7 DEF WorkInv
<1>4. ASSUME Quiet PROVE WorkInv'
  <2>1. \A q \in Proc, j \in Job : j \in txn'[q].jobs => status'[j] # "none"
    BY <1>4 DEF Quiet, WorkInv, Active
  <2> QED
    BY <1>4, <2>1 DEF Quiet, WorkInv, RunsInOnePlace
<1>5. CASE UNCHANGED vars
  BY <1>5 DEF vars, WorkInv, RunsInOnePlace
<1> QED
  BY <1>1, <1>2, <1>3, <1>4, <1>5, QuietStep

LEMMA WorkInvariant == Spec => [](TypeOK /\ WorkInv)
<1>1. TypeOK /\ WorkInv /\ [Next]_vars => (TypeOK /\ WorkInv)'
  BY TypeStep, WorkStep
<1>2. Init => TypeOK /\ WorkInv
  BY WorkInit, EmptyTypes, ConstantsAssumption DEF Init, TypeOK, JobStatus, Phase
<1> QED
  BY <1>1, <1>2, PTL DEF Spec

\* However processes, crashes and recoveries interleave, _claim starts the
\* paid work of a job at most once
THEOREM PaidWorkStartsOnce == Spec => []ClaimedAtMostOnce
<1>1. WorkInv => ClaimedAtMostOnce
  BY DEF WorkInv, ClaimedAtMostOnce
<1> QED
  BY <1>1, WorkInvariant, PTL

\* ... and no two processes are ever at work on one job
THEOREM OnePlaceAtATime == Spec => []RunsInOnePlace
<1>1. WorkInv => RunsInOnePlace
  BY DEF WorkInv
<1> QED
  BY <1>1, WorkInvariant, PTL

\* The rows live the life JobLifecycle promises: every step of the processes
\* is one of its steps or leaves the rows alone
THEOREM RowsImplementJobLifecycle == Spec => RowsSpec
<1>1. Init => Rows!Init
  BY DEF Init, Rows!Init
<1>2. TypeOK /\ WorkInv /\ [Next]_vars => [Rows!Next]_(Rows!jobVars)
  <2> SUFFICES ASSUME TypeOK, WorkInv, [Next]_vars
               PROVE  Rows!Next \/ UNCHANGED <<status, attempts>>
    BY DEF Rows!jobVars
  <2>1. ASSUME NEW p \in Proc, RecoverCommit(p) \/ FinishCommit(p) PROVE Rows!Next
    <3>1. PICK S \in SUBSET Job, o \in Final :
              /\ \A j \in S : j \in txn[p].jobs
              /\ status' = [j \in Job |-> IF j \in S THEN o ELSE status[j]]
              /\ UNCHANGED attempts
      BY <2>1, SettleEffect
    <3>2. \A j \in S : status[j] # "none"
      BY <3>1 DEF WorkInv
    <3>3. Rows!Settle(S, o)
      BY <3>1, <3>2 DEF Rows!Settle
    <3> QED
      BY <3>3 DEF Rows!Next, Rows!Final, Final
  <2>2. ASSUME NEW p \in Proc, NEW i \in Job, SubmitInsert(p, i) PROVE Rows!Next
    BY <2>2, SubmitEffect DEF Rows!Next, Rows!Submit
  <2>3. ASSUME NEW p \in Proc, NEW i \in Job, Execute(p, i), Claimable(i) PROVE Rows!Next
    <3>1. status[i] = "queued" /\ attempts[i] = 0
      BY <2>3, ClaimEffect DEF WorkInv
    <3>2. Rows!Start(i)
      BY <2>3, <3>1, ClaimEffect DEF Rows!Start, TypeOK
    <3> QED
      BY <3>2 DEF Rows!Next
  <2> QED
    BY <2>1, <2>2, <2>3, QuietStep DEF Quiet, vars
<1> QED
  BY <1>1, <1>2, WorkInvariant, PTL DEF Spec, RowsSpec, Rows!Spec

-----------------------------------------------------------------------------
(***************************************************************************)
(* Leadership                                                              *)
(***************************************************************************)
LeaderInv ==
    faults = 0 => \A p \in Proc :
        elect[p] \in {"acquired", "leading", "stepping"} => lock = p

LEMMA LeaderStep == TypeOK /\ LeaderInv /\ [Next]_vars => LeaderInv'
<1> SUFFICES ASSUME TypeOK, LeaderInv, [Next]_vars PROVE LeaderInv'
  OBVIOUS
<1>0. ASSUME UNCHANGED <<lock, elect>>, faults' = faults \/ faults' = faults + 1
      PROVE  LeaderInv'
  BY <1>0 DEF LeaderInv, TypeOK
<1>1. CASE ServerReleases
  BY <1>1, ConstantsAssumption DEF ServerReleases, LeaderInv, procVars
<1>2. ASSUME NEW p \in Proc, Boot(p) \/ AttemptFails(p) \/ RecoverCommit(p) \/ FinishCommit(p)
            \/ Announce(p) \/ Shutdown(p) \/ RecoverFails(p) \/ FinishFails(p) 
      PROVE  LeaderInv'
  BY <1>0, <1>2 DEF Boot, AttemptFails, RecoverCommit, FinishCommit, Announce,
                    Shutdown, RecoverFails, FinishFails, AfterFailedWrite
<1>3. ASSUME NEW p \in Proc, NEW j \in Job, JobStep(p, j) \/ Cancel(p, j) PROVE LeaderInv'
  BY <1>0, <1>3 DEF JobStep, SubmitInsert, Execute, CancelledEnds, CancelRecord,
                    RunnerReturns, Cancel
<1>4. ASSUME NEW p \in Proc, NEW s \in Subject, SubmitCheck(p, s) PROVE LeaderInv'
  BY <1>0, <1>4 DEF SubmitCheck
<1>5. ASSUME NEW p \in Proc, Acquire(p) PROVE LeaderInv'
  BY <1>5, ConstantsAssumption DEF Acquire, Granted, LeaderInv, TypeOK
<1>6. ASSUME NEW p \in Proc, Reacquire(p) PROVE LeaderInv'
  BY <1>6, ConstantsAssumption DEF Reacquire, Granted, LeaderInv, TypeOK, procVars
<1>7. ASSUME NEW p \in Proc, Lead(p) PROVE LeaderInv'
  BY <1>7 DEF Lead, LeaderInv, TypeOK
<1>8. ASSUME NEW p \in Proc, StepDown(p) PROVE LeaderInv'
  BY <1>8 DEF StepDown, LeaderInv, TypeOK
<1>9. ASSUME NEW p \in Proc, SteppedDown(p) PROVE LeaderInv'
  BY <1>9 DEF SteppedDown, LeaderInv, TypeOK
<1>10. ASSUME NEW p \in Proc, HandOver(p) PROVE LeaderInv'
  BY <1>10 DEF HandOver, LeaderInv, TypeOK
<1>11. ASSUME NEW p \in Proc, Exit(p) PROVE LeaderInv'
  BY <1>11 DEF Exit, LeaderInv, TypeOK
<1>12. ASSUME NEW p \in Proc, LoseLock(p) PROVE LeaderInv'
  BY <1>12 DEF LoseLock, LeaderInv, TypeOK
<1>13. CASE UNCHANGED vars
  BY <1>13 DEF vars, LeaderInv
<1> QED
  BY <1>1, <1>2, <1>3, <1>4, <1>5, <1>6, <1>7, <1>8, <1>9, <1>10, <1>11, <1>12, <1>13
  DEF Next, ProcessStep, UserStep, FaultStep

\* Unless the lock's connection dropped, one process at most runs background
\* loops and recovery: a deploy or a crash alone never makes two leaders
THEOREM OneLeaderAtATime == Spec => []OneLeader
<1>1. Init => LeaderInv
  BY DEF Init, LeaderInv
<1>2. LeaderInv => OneLeader
  BY DEF LeaderInv, OneLeader
<1> QED
  BY <1>1, <1>2, LeaderStep, TypeCorrect, PTL DEF Spec

-----------------------------------------------------------------------------
(***************************************************************************)
(* One process                                                             *)
(*                                                                         *)
(* Outside a deploy there is one process, and its database work blocks its *)
(* event loop: nothing changes a row between the read a transaction        *)
(* decides from and its commit.  That is why nothing is overwritten then.  *)
(***************************************************************************)
TxnInv(p) ==
    /\ txn[p].op = "submit" => ~HasActive(txn[p].subject)
    /\ txn[p].op \in {"recover", "finish"} => \A j \in txn[p].jobs : status[j] \in Active
    /\ txn[p].op = "announce" => \A j \in txn[p].jobs : status[j] = txn[p].outcome

ToldInv == \A j \in Job : announced[j] # {} => /\ status[j] \in Final
                                               /\ announced[j] \subseteq {status[j]}

AloneInv(p) == TxnInv(p) /\ ToldInv /\ OneActivePerSubject

LEMMA AloneIdle ==
  ASSUME NEW p \in Proc, AloneInv(p), UNCHANGED <<status, subject, announced>>,
         txn'[p] = txn[p] \/ txn'[p].op = "none"
  PROVE  AloneInv(p)'
  BY DEF AloneInv, TxnInv, ToldInv, OneActivePerSubject, HasActive

LEMMA AloneOutcome ==
  ASSUME TypeOK, NEW p \in Proc, AloneInv(p), RecoverCommit(p) \/ FinishCommit(p)
  PROVE  /\ AloneInv(p)'
         /\ \A j \in Job : status[j] \in Final => status'[j] = status[j]
<1>1. /\ \A j \in txn[p].jobs : status[j] \in Active
      /\ txn[p].jobs \subseteq Job
  BY TxnFields DEF AloneInv, TxnInv, RecoverCommit, FinishCommit
<1>2. txn'[p].op = "announce" /\ txn'[p].jobs = txn[p].jobs /\ txn'[p].outcome \in Final
  <2>1. txn[p] \in TxnType
    BY DEF TypeOK
  <2>2. CASE RecoverCommit(p)
    <3>1. txn'[p] = [txn[p] EXCEPT !.op = "announce", !.outcome = "failed"]
      BY <2>2 DEF RecoverCommit, TypeOK
    <3> QED
      BY <2>1, <3>1 DEF TxnType, Final
  <2>3. CASE FinishCommit(p)
    BY <2>1, <2>3 DEF FinishCommit, TypeOK, TxnType
  <2> QED
    BY <2>2, <2>3
<1>3. \A j \in Job : status'[j] = IF j \in txn[p].jobs THEN txn'[p].outcome ELSE status[j]
  <2>1. txn[p] \in TxnType
    BY DEF TypeOK
  <2>2. CASE RecoverCommit(p)
    <3>1. txn'[p] = [txn[p] EXCEPT !.op = "announce", !.outcome = "failed"]
      BY <2>2 DEF RecoverCommit, TypeOK
    <3> QED
      BY <2>1, <2>2, <3>1 DEF RecoverCommit, InterruptedStatus, TxnType
  <2>3. CASE FinishCommit(p)
    BY <2>1, <2>3 DEF FinishCommit, TypeOK, TxnType
  <2> QED
    BY <2>2, <2>3
<1>4. UNCHANGED <<subject, announced>>
  BY DEF RecoverCommit, FinishCommit
<1>5. \A j \in Job : status[j] \in Final => status'[j] = status[j]
  BY <1>1, <1>3 DEF Final, Active
<1>6. TxnInv(p)'
  BY <1>1, <1>2, <1>3 DEF TxnInv
<1>7. ToldInv'
  BY <1>4, <1>5 DEF AloneInv, ToldInv
<1>8. OneActivePerSubject'
  BY <1>2, <1>3, <1>4 DEF AloneInv, OneActivePerSubject, Active, Final
<1> QED
  BY <1>5, <1>6, <1>7, <1>8 DEF AloneInv

LEMMA AloneFinishRead ==
  ASSUME TypeOK, NEW p \in Proc, AloneInv(p), NEW j \in Job, NEW o, FinishRead(p, j, o),
         UNCHANGED <<status, subject, announced>>
  PROVE  AloneInv(p)'
<1>1. CASE MaySettle(j)
  <2>1. txn'[p] = [NoTxn EXCEPT !.op = "finish", !.jobs = {j}, !.outcome = o]
    BY <1>1 DEF FinishRead, TypeOK
  <2>2. txn'[p].op = "finish" /\ txn'[p].jobs = {j}
    BY <2>1 DEF NoTxn
  <2> QED
    BY <1>1, <2>2 DEF MaySettle, AloneInv, TxnInv, ToldInv, OneActivePerSubject
<1>2. CASE ~MaySettle(j)
  <2>1. txn'[p] = NoTxn
    BY <1>2 DEF FinishRead, TypeOK
  <2> QED
    BY <2>1, AloneIdle DEF NoTxn
<1> QED
  BY <1>1, <1>2

LEMMA AloneStep ==
  ASSUME NEW p \in Proc, Proc = {p}, TypeOK, AloneInv(p), [Next]_vars
  PROVE  /\ AloneInv(p)'
         /\ \A j \in Job : status[j] \in Final => status'[j] = status[j]
<1> DEFINE Goal == /\ AloneInv(p)'
                   /\ \A j \in Job : status[j] \in Final => status'[j] = status[j]
<1>1. CASE RecoverCommit(p) \/ FinishCommit(p)
  BY <1>1, AloneOutcome
<1>2. CASE \/ ServerReleases \/ Boot(p) \/ AttemptFails(p) \/ HandOver(p) \/ Acquire(p)
           \/ Reacquire(p) \/ StepDown(p) \/ SteppedDown(p) \/ Shutdown(p) \/ LoseLock(p)
           \/ UNCHANGED vars
  <2>1. UNCHANGED <<status, subject, announced, txn>>
    BY <1>2 DEF ServerReleases, Boot, AttemptFails, HandOver, Acquire, Reacquire, StepDown,
                SteppedDown, Shutdown, LoseLock, jobRows, procVars, vars
  <2> QED
    BY <2>1, AloneIdle
<1>3. CASE Exit(p) \/ RecoverFails(p) \/ FinishFails(p)
  <2>1. UNCHANGED <<status, subject, announced>>
    BY <1>3 DEF Exit, RecoverFails, FinishFails, jobRows
  <2>2. txn'[p].op = "none"
    <3>1. txn[p] \in TxnType
      BY DEF TypeOK
    <3> QED
      BY <1>3, <3>1 DEF Exit, RecoverFails, FinishFails, AfterFailedWrite, TypeOK, TxnType, NoTxn
  <2> QED
    BY <2>1, <2>2, AloneIdle
<1>4. CASE Lead(p)
  <2>1. txn'[p] = [NoTxn EXCEPT !.op = "recover", !.jobs = Interrupted(p), !.queued = Requeued(p)]
    BY <1>4 DEF Lead, TypeOK
  <2>2. txn'[p].op = "recover" /\ txn'[p].jobs = Interrupted(p)
    BY <2>1 DEF NoTxn
  <2> QED
    BY <1>4, <2>2 DEF Lead, jobRows, AloneInv, TxnInv, ToldInv, OneActivePerSubject,
                      Interrupted, Active
<1>5. CASE Announce(p)
  <2>1. txn'[p].op = "none" /\ UNCHANGED <<status, subject>>
    BY <1>5 DEF Announce, TypeOK, NoTxn
  <2>2. txn[p].outcome \in Final /\ \A j \in txn[p].jobs : status[j] = txn[p].outcome
    BY <1>5, TxnFields DEF Announce, AloneInv, TxnInv
  <2>3. \A j \in Job : \/ announced'[j] = announced[j]
                       \/ /\ announced'[j] = announced[j] \cup {txn[p].outcome}
                          /\ status[j] = txn[p].outcome
    BY <1>5, <2>2 DEF Announce
  <2>4. ToldInv'
    BY <2>1, <2>2, <2>3 DEF AloneInv, ToldInv
  <2> QED
    BY <2>1, <2>4 DEF AloneInv, TxnInv, OneActivePerSubject
<1>6. CASE \E s \in Subject : SubmitCheck(p, s)
  <2>1. PICK s \in Subject : SubmitCheck(p, s)
    BY <1>6
  <2>2. txn'[p].op = "submit" /\ txn'[p].subject = s
    BY <2>1 DEF SubmitCheck, TypeOK, NoTxn
  <2> QED
    BY <2>1, <2>2 DEF SubmitCheck, jobRows, AloneInv, TxnInv, ToldInv, OneActivePerSubject,
                      HasActive
<1>7. ASSUME NEW i \in Job, SubmitInsert(p, i) PROVE Goal
  <2>1. /\ status[i] = "none" /\ txn[p].op = "submit"
        /\ txn'[p].op = "none" /\ UNCHANGED announced
    BY <1>7 DEF SubmitInsert, TypeOK, NoTxn
  <2>2. \A j \in Job : /\ status'[j] = IF j = i THEN "queued" ELSE status[j]
                       /\ subject'[j] = IF j = i THEN txn[p].subject ELSE subject[j]
    BY <1>7 DEF SubmitInsert, TypeOK
  <2>3. \A j \in Job : status[j] \in Active => subject[j] # txn[p].subject
    BY <2>1 DEF AloneInv, TxnInv, HasActive
  <2>4. OneActivePerSubject'
    BY <2>2, <2>3 DEF AloneInv, OneActivePerSubject
  <2>5. \A j \in Job : status[j] \in Final => status'[j] = status[j]
    BY <2>1, <2>2 DEF Final
  <2>6. ToldInv'
    BY <2>1, <2>5 DEF AloneInv, ToldInv
  <2> QED
    BY <2>1, <2>4, <2>5, <2>6 DEF AloneInv, TxnInv
<1>8. ASSUME NEW i \in Job, Execute(p, i) PROVE Goal
  <2>1. UNCHANGED <<subject, announced, txn>> /\ txn[p].op = "none"
    BY <1>8 DEF Execute, LoopFree
  <2>2. CASE Claimable(i)
    <3>1. /\ status[i] = "queued"
          /\ \A j \in Job : status'[j] = IF j = i THEN "running" ELSE status[j]
      BY <1>8, <2>2, ClaimEffect DEF TypeOK
    <3>2. \A j \in Job : status[j] \in Final => status'[j] = status[j]
      BY <3>1 DEF Final
    <3>3. OneActivePerSubject'
      BY <2>1, <3>1 DEF AloneInv, OneActivePerSubject, Active
    <3>4. ToldInv'
      BY <2>1, <3>2 DEF AloneInv, ToldInv
    <3> QED
      BY <2>1, <3>2, <3>3, <3>4 DEF AloneInv, TxnInv
  <2>3. CASE ~Claimable(i)
    <3>1. UNCHANGED status
      BY <1>8, <2>3 DEF Execute
    <3> QED
      BY <2>1, <3>1, AloneIdle
  <2> QED
    BY <2>2, <2>3
<1>9. ASSUME NEW i \in Job, Cancel(p, i) \/ CancelledEnds(p, i) PROVE Goal
  <2>1. UNCHANGED <<status, subject, announced, txn>>
    BY <1>9 DEF Cancel, CancelledEnds, jobRows
  <2> QED
    BY <2>1, AloneIdle
<1>10. ASSUME NEW i \in Job, CancelRecord(p, i) PROVE Goal
  BY <1>10, AloneFinishRead DEF CancelRecord, jobRows
<1>11. ASSUME NEW i \in Job, NEW o \in {"succeeded", "failed"}, RunnerReturns(p, i, o) PROVE Goal
  BY <1>11, AloneFinishRead DEF RunnerReturns, jobRows
<1> QED
  BY <1>1, <1>2, <1>3, <1>4, <1>5, <1>6, <1>7, <1>8, <1>9, <1>10, <1>11
  DEF Next, ProcessStep, JobStep, UserStep, FaultStep

LEMMA AloneInvariant ==
  ASSUME NEW p \in Proc, Proc = {p}
  PROVE  Spec => [](TypeOK /\ AloneInv(p))
<1>1. Init => AloneInv(p)
  BY DEF Init, AloneInv, TxnInv, ToldInv, OneActivePerSubject, Active, NoTxn
<1>2. TypeOK /\ AloneInv(p) /\ [Next]_vars => AloneInv(p)'
  BY AloneStep
<1> QED
  BY <1>1, <1>2, TypeCorrect, PTL DEF Spec

\* One process: double clicks and two tabs never leave two active jobs for a
\* subject, whatever crashes, restarts and failed writes come between
THEOREM OneProcessOneActive ==
  ASSUME NEW p \in Proc, Proc = {p}
  PROVE  Spec => []OneActivePerSubject
<1>1. AloneInv(p) => OneActivePerSubject
  BY DEF AloneInv
<1> QED
  BY <1>1, AloneInvariant, PTL

\* One process: whoever is told of an outcome is told the one the row keeps
THEOREM OneProcessTellsTheOutcome ==
  ASSUME NEW p \in Proc, Proc = {p}
  PROVE  Spec => []ToldTheOutcome
<1>1. AloneInv(p) => ToldTheOutcome
  BY DEF AloneInv, ToldInv, ToldTheOutcome
<1> QED
  BY <1>1, AloneInvariant, PTL

\* One process: _finish and recover() never replace a recorded outcome
THEOREM OneProcessKeepsOutcomes ==
  ASSUME NEW p \in Proc, Proc = {p}
  PROVE  Spec => FinalIsFinal
<1>1. TypeOK /\ AloneInv(p) /\ [Next]_vars
        => [\A j \in Job : status[j] \in Final => status'[j] = status[j]]_vars
  BY AloneStep
<1> QED
  BY <1>1, AloneInvariant, PTL DEF Spec, FinalIsFinal

=============================================================================
