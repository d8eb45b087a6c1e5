--------------------------- MODULE BackgroundWork ---------------------------
(***************************************************************************)
(* Background work of the API processes: leader election over a PostgreSQL *)
(* session lock (leader.py), the work a leader starts and hands back       *)
(* (background_wiring.py and the lifespan of main.py) and the durable jobs *)
(* every process runs for the requests it serves (background_jobs.py).     *)
(*                                                                         *)
(* A process is one asyncio event loop.  Its synchronous database work     *)
(* blocks that loop, so between the first read and the commit of a         *)
(* transaction (txn[p].op # "none") nothing else of the process runs, but  *)
(* the other processes do.  A conditional UPDATE is one step.              *)
(***************************************************************************)
EXTENDS Naturals, FiniteSets

CONSTANTS Proc,          \* API processes; more than one only around a deploy
          Job,           \* the job ids there will ever be
          Subject,       \* (kind, subject, user) identities a job is for
          NoProc,        \* the lock is free
          DeadSession,   \* the lock is held by a session nobody uses any more
          NoSubject,
          Concurrency,   \* DEFAULT_CONCURRENCY
          MaxBoots,      \* bound: process starts
          MaxFaults      \* bound: lost lock connections and failed writes

ASSUME ConstantsAssumption ==
    /\ NoProc \notin Proc /\ DeadSession \notin Proc
    /\ NoSubject \notin Subject
    /\ Concurrency \in Nat \ {0}
    /\ MaxBoots \in Nat /\ MaxFaults \in Nat

VARIABLES
    \* --- the database
    status,     \* background_jobs.status per job ("none": no row)
    attempts,   \* background_jobs.attempts
    subject,    \* the identity the row was created for
    announced,  \* outcomes on_success / on_failure hooks have told people of
    lock,       \* whose session holds the advisory lock
    \* --- each process
    phase,      \* where lifespan is: see Phase
    elect,      \* where LeaderElection.run is
    task,       \* the asyncio task per job: [st, gen]
    semGen,     \* which semaphore object self._semaphore is
    draining,   \* jobs whose tasks stop() cancelled and waits for
    cancels,    \* cancel requests waiting for a task to stop
    txn,        \* the open database work that blocks the event loop
    \* --- bounds
    boots, faults

jobRows  == <<status, attempts, subject, announced>>
procVars == <<phase, elect, task, semGen, draining, cancels, txn>>
vars == <<status, attempts, subject, announced, lock, phase, elect, task,
          semGen, draining, cancels, txn, boots, faults>>

Phase   == {"down", "starting", "serving", "stopping", "handing"}
Active  == {"queued", "running"}
Final   == {"succeeded", "failed", "cancelled"}
Working == {"running", "cancelling"}   \* tasks past the semaphore and the claim

NoTask == [st |-> "none", gen |-> 0]
NoTxn  == [op |-> "none", jobs |-> {}, queued |-> {}, outcome |-> "failed",
           subject |-> NoSubject]

-----------------------------------------------------------------------------
(***************************************************************************)
(* Plausible bugs, one for each property: PROJECT.json names the operator  *)
(* each of them stands in for when it is shown to break the property.      *)
(***************************************************************************)
ClaimsActive(j)      == status[j] \in Active           \* UPDATE without status = 'queued'
ChecksOnlyRunning(s) == \E j \in Job : status[j] = "running" /\ subject[j] = s
IgnoresTheAnswer(p)  == elect[p] = "waiting"            \* leads whatever the lock says
WritesAnyRow(j)      == TRUE                            \* _finish without its status check
ForgetsQueued(p)     == {}                              \* recovery restarts nothing
HooksAfterFailure    == "announce"                      \* _finish goes on after its except
NamesItInterrupted   == "interrupted"                   \* a status the column does not know

-----------------------------------------------------------------------------
(***************************************************************************)
(* Operators over the current state                                        *)
(***************************************************************************)
LoopFree(p) == phase[p] # "down" /\ txn[p].op = "none"

\* The platform starts a process again: one is always left to come back
Replaceable(p) == boots < MaxBoots \/ \E q \in Proc \ {p} : phase[q] # "down"

\* Until the lifespan cancels it, run() goes on, also while stop() waits
ElectionRuns(p) == phase[p] \in {"serving", "stopping"} /\ txn[p].op = "none"

\* The tasks of p: self._tasks
Mine(p) == {j \in Job : task[p][j].st # "none"}

\* active(): the row a second submission for the same subject is answered with
HasActive(s) == \E j \in Job : status[j] \in Active /\ subject[j] = s

\* pg_try_advisory_lock: granted when no session holds the lock
Granted(p) == lock = NoProc

\* What a failed write leaves of _finish(): nothing more happens
AfterFailedWrite == "none"

\* What recover() makes of an interrupted row
InterruptedStatus == "failed"

\* async with self._semaphore: a task counts against the object it waits for,
\* the one there was when it was scheduled
SlotFree(p, j) ==
    Cardinality({k \in Job : /\ task[p][k].st \in Working
                             /\ task[p][k].gen = task[p][j].gen}) < Concurrency

\* task.cancel(): a task still waiting for the semaphore ends at once, a
\* running one ends when its runner lets the cancellation through
CancelTask(t) == CASE t.st = "waiting" -> NoTask
                   [] t.st = "running" -> [t EXCEPT !.st = "cancelling"]
                   [] OTHER -> t

\* stop(): cancel every task there is now ...
StopTasks(p) ==
    /\ task' = [task EXCEPT ![p] = [j \in Job |-> CancelTask(task[p][j])]]
    /\ draining' = [draining EXCEPT ![p] = Mine(p)]

\* ... and gather() returns once they have ended
Drained(p) == \A j \in draining[p] : task[p][j].st = "none"

Schedule(p, S) ==
    task' = [task EXCEPT ![p] = [j \in Job |->
                IF j \in S /\ task[p][j].st = "none"
                THEN [st |-> "waiting", gen |-> semGen[p]]
                ELSE task[p][j]]]

\* The UPDATE of _claim: only a queued row may be claimed
Claimable(j) == status[j] = "queued"

\* recover(): running rows no task of this process works on were interrupted
Interrupted(p) == {j \in Job : status[j] = "running"} \ Mine(p)
Requeued(p)    == {j \in Job : status[j] = "queued"} \ Mine(p)

\* _finish() writes an outcome only to a row it read as active
MaySettle(j) == status[j] \in Active

\* _hook(): nobody is told of a cancellation
Announces(o) == o # "cancelled"

-----------------------------------------------------------------------------
Init ==
    /\ status    = [j \in Job |-> "none"]
    /\ attempts  = [j \in Job |-> 0]
    /\ subject   = [j \in Job |-> NoSubject]
    /\ announced = [j \in Job |-> {}]
    /\ lock      = NoProc
    /\ phase     = [p \in Proc |-> "down"]
    /\ elect     = [p \in Proc |-> "waiting"]
    /\ task      = [p \in Proc |-> [j \in Job |-> NoTask]]
    /\ semGen    = [p \in Proc |-> 0]
    /\ draining  = [p \in Proc |-> {}]
    /\ cancels   = [p \in Proc |-> {}]
    /\ txn       = [p \in Proc |-> NoTxn]
    /\ boots = 0 /\ faults = 0

-----------------------------------------------------------------------------
(***************************************************************************)
(* Process lifetime                                                        *)
(***************************************************************************)
Boot(p) ==
    /\ phase[p] = "down" /\ boots < MaxBoots
    /\ phase'    = [phase EXCEPT ![p] = "starting"]
    /\ boots'    = boots + 1
    /\ UNCHANGED <<jobRows, lock, elect, task, semGen, draining, cancels, txn, faults>>

\* The attempt lifespan makes before it serves found the lock taken, or raised
AttemptFails(p) ==
    /\ phase[p] = "starting" /\ elect[p] = "waiting"
    /\ \/ ~Granted(p) /\ UNCHANGED faults
       \/ faults < MaxFaults /\ faults' = faults + 1
    /\ phase' = [phase EXCEPT ![p] = "serving"]
    /\ UNCHANGED <<jobRows, lock, elect, task, semGen, draining, cancels, txn, boots>>

\* SIGTERM once the requests in flight are answered: cancel this process's jobs
Shutdown(p) ==
    /\ phase[p] = "serving" /\ LoopFree(p) /\ cancels[p] = {} /\ Replaceable(p)
    /\ phase' = [phase EXCEPT ![p] = "stopping"]
    /\ StopTasks(p)
    /\ UNCHANGED <<jobRows, lock, elect, semGen, cancels, txn, boots, faults>>

\* Once they ended, leader_task.cancel(): run() steps down, or only releases
HandOver(p) ==
    /\ phase[p] = "stopping" /\ LoopFree(p) /\ Drained(p)
    /\ phase' = [phase EXCEPT ![p] = "handing"]
    /\ IF elect[p] \in {"leading", "stepping"}
       THEN elect' = [elect EXCEPT ![p] = "stepping"] /\ StopTasks(p) /\ UNCHANGED lock
       ELSE /\ elect' = [elect EXCEPT ![p] = "waiting"]
            /\ lock'  = IF lock = p THEN NoProc ELSE lock
            /\ UNCHANGED <<task, draining>>
    /\ UNCHANGED <<jobRows, semGen, cancels, txn, boots, faults>>

\* A crash, or the end of a shutdown whether or not it handed over in time
Exit(p) ==
    /\ phase[p] # "down"
    /\ Replaceable(p)
    /\ phase'    = [phase EXCEPT ![p] = "down"]
    /\ elect'    = [elect EXCEPT ![p] = "waiting"]
    /\ task'     = [task EXCEPT ![p] = [j \in Job |-> NoTask]]
    /\ semGen'   = [semGen EXCEPT ![p] = 0]
    /\ draining' = [draining EXCEPT ![p] = {}]
    /\ cancels'  = [cancels EXCEPT ![p] = {}]
    /\ txn'      = [txn EXCEPT ![p] = NoTxn]
    /\ lock' \in IF lock = p THEN {NoProc, DeadSession} ELSE {lock}
    /\ UNCHANGED <<jobRows, boots, faults>>

-----------------------------------------------------------------------------
(***************************************************************************)
(* Leader election                                                         *)
(***************************************************************************)
\* The lock's connection drops; the server may notice at once or later
LoseLock(p) ==
    /\ lock = p /\ phase[p] # "down" /\ faults < MaxFaults
    /\ lock' \in {NoProc, DeadSession}
    /\ faults' = faults + 1
    /\ UNCHANGED <<jobRows, procVars, boots>>

\* The server's keepalives find a session dead and release its lock
ServerReleases ==
    /\ lock = DeadSession
    /\ lock' = NoProc
    /\ UNCHANGED <<jobRows, procVars, boots, faults>>

\* try_acquire() in its thread; the coroutine has not resumed yet
Acquire(p) ==
    /\ phase[p] \in {"starting", "serving", "stopping"} /\ elect[p] = "waiting"
    /\ Granted(p)
    /\ lock'  = p
    /\ elect' = [elect EXCEPT ![p] = "acquired"]
    /\ UNCHANGED <<jobRows, phase, task, semGen, draining, cancels, txn, boots, faults>>

\* try_lead_now() resumes: _leading is set and lead() runs BackgroundJobService
\* .start(), which makes a new semaphore and opens recover()'s transaction
Lead(p) ==
    /\ elect[p] = "acquired" /\ LoopFree(p)
    /\ elect'  = [elect EXCEPT ![p] = "leading"]
    /\ phase'  = [phase EXCEPT ![p] = IF @ = "starting" THEN "serving" ELSE @]
    /\ semGen' = [semGen EXCEPT ![p] = @ + 1]
    /\ txn'    = [txn EXCEPT ![p] = [NoTxn EXCEPT !.op = "recover",
                                                  !.jobs = Interrupted(p),
                                                  !.queued = Requeued(p)]]
    /\ UNCHANGED <<jobRows, lock, task, draining, cancels, boots, faults>>

\* recover() commits: what it read as interrupted is failed, whatever it is now
RecoverCommit(p) ==
    /\ txn[p].op = "recover"
    /\ status' = [j \in Job |-> IF j \in txn[p].jobs THEN InterruptedStatus ELSE status[j]]
    /\ txn' = [txn EXCEPT ![p] = [@ EXCEPT !.op = "announce", !.outcome = "failed"]]
    /\ UNCHANGED <<attempts, subject, announced, lock, phase, elect, task, semGen,
                   draining, cancels, boots, faults>>

\* still_held() is false but the lock is free: taken straight back, no recovery
Reacquire(p) ==
    /\ elect[p] = "leading" /\ ElectionRuns(p)
    /\ Granted(p)
    /\ lock' = p
    /\ UNCHANGED <<jobRows, procVars, boots, faults>>

\* still_held() is false and another session has the lock: _step_down()
StepDown(p) ==
    /\ elect[p] = "leading" /\ ElectionRuns(p)
    /\ lock \notin {p, NoProc}
    /\ elect' = [elect EXCEPT ![p] = "stepping"]
    /\ StopTasks(p)
    /\ UNCHANGED <<jobRows, lock, phase, semGen, cancels, txn, boots, faults>>

SteppedDown(p) ==
    /\ elect[p] = "stepping" /\ LoopFree(p) /\ Drained(p)
    /\ elect' = [elect EXCEPT ![p] = "waiting"]
    /\ lock'  = IF lock = p THEN NoProc ELSE lock
    /\ UNCHANGED <<jobRows, phase, task, semGen, draining, cancels, txn, boots, faults>>

\* recover() raises: start() logs it and this process leads without recovery
RecoverFails(p) ==
    /\ txn[p].op = "recover" /\ faults < MaxFaults
    /\ txn' = [txn EXCEPT ![p] = NoTxn]
    /\ faults' = faults + 1
    /\ UNCHANGED <<jobRows, lock, phase, elect, task, semGen, draining, cancels, boots>>

-----------------------------------------------------------------------------
(***************************************************************************)
(* Jobs                                                                    *)
(***************************************************************************)
\* submit() finds no active row for the subject ...
SubmitCheck(p, s) ==
    /\ phase[p] = "serving" /\ LoopFree(p)
    /\ ~HasActive(s)
    /\ \E j \in Job : status[j] = "none"
    /\ txn' = [txn EXCEPT ![p] = [NoTxn EXCEPT !.op = "submit", !.subject = s]]
    /\ UNCHANGED <<jobRows, lock, phase, elect, task, semGen, draining, cancels, boots, faults>>

\* ... and inserts one under a new id and schedules it
SubmitInsert(p, j) ==
    /\ txn[p].op = "submit" /\ status[j] = "none"
    /\ status'  = [status EXCEPT ![j] = "queued"]
    /\ subject' = [subject EXCEPT ![j] = txn[p].subject]
    /\ Schedule(p, {j})
    /\ txn' = [txn EXCEPT ![p] = NoTxn]
    /\ UNCHANGED <<attempts, announced, lock, phase, elect, semGen, draining, cancels, boots, faults>>

\* The task gets a slot and claims its row, or finds it claimed or ended and is done
Execute(p, j) ==
    /\ LoopFree(p) /\ task[p][j].st = "waiting" /\ SlotFree(p, j)
    /\ IF Claimable(j)
       THEN /\ status'   = [status EXCEPT ![j] = "running"]
            /\ attempts' = [attempts EXCEPT ![j] = @ + 1]
            /\ task'     = [task EXCEPT ![p][j] = [@ EXCEPT !.st = "running"]]
       ELSE /\ task' = [task EXCEPT ![p][j] = NoTask]
            /\ UNCHANGED <<status, attempts>>
    /\ UNCHANGED <<subject, announced, lock, phase, elect, semGen, draining, cancels,
                   txn, boots, faults>>

\* _finish() reads the row; it writes only to a row it found active
FinishRead(p, j, o) ==
    txn' = [txn EXCEPT ![p] = IF MaySettle(j)
                              THEN [NoTxn EXCEPT !.op = "finish", !.jobs = {j}, !.outcome = o]
                              ELSE NoTxn]

\* The runner returns or raises (also one that swallowed its cancellation)
RunnerReturns(p, j, o) ==
    /\ LoopFree(p) /\ task[p][j].st \in Working
    /\ FinishRead(p, j, o)
    /\ task' = IF MaySettle(j) THEN task ELSE [task EXCEPT ![p][j] = NoTask]
    /\ UNCHANGED <<jobRows, lock, phase, elect, semGen, draining, cancels, boots, faults>>

\* CancelledError leaves _execute(): nothing is recorded
CancelledEnds(p, j) ==
    /\ LoopFree(p) /\ task[p][j].st = "cancelling"
    /\ task' = [task EXCEPT ![p][j] = NoTask]
    /\ UNCHANGED <<jobRows, lock, phase, elect, semGen, draining, cancels, txn, boots, faults>>

\* cancel(): the row is active; its task, when it is here, is told to stop ...
Cancel(p, j) ==
    /\ phase[p] = "serving" /\ LoopFree(p)
    /\ status[j] \in Active
    /\ task'    = [task EXCEPT ![p][j] = CancelTask(@)]
    /\ cancels' = [cancels EXCEPT ![p] = @ \cup {j}]
    /\ UNCHANGED <<jobRows, lock, phase, elect, semGen, draining, txn, boots, faults>>

\* ... and when it ended, or after CANCEL_WAIT_SECONDS, the row is closed
CancelRecord(p, j) ==
    /\ LoopFree(p) /\ j \in cancels[p]
    /\ cancels' = [cancels EXCEPT ![p] = @ \ {j}]
    /\ FinishRead(p, j, "cancelled")
    /\ UNCHANGED <<jobRows, lock, phase, elect, task, semGen, draining, boots, faults>>

\* A job's own outcome ends its task; a cancellation leaves the task to itself
TaskAfterFinish(p) ==
    task' = IF txn[p].outcome = "cancelled" THEN task
            ELSE [task EXCEPT ![p] = [j \in Job |-> IF j \in txn[p].jobs THEN NoTask
                                                                         ELSE task[p][j]]]

\* _finish() commits what it decided from the row it read
FinishCommit(p) ==
    /\ txn[p].op = "finish"
    /\ status' = [j \in Job |-> IF j \in txn[p].jobs THEN txn[p].outcome ELSE status[j]]
    /\ txn' = [txn EXCEPT ![p].op = "announce"]
    /\ TaskAfterFinish(p)
    /\ UNCHANGED <<attempts, subject, announced, lock, phase, elect, semGen,
                   draining, cancels, boots, faults>>

\* ... or cannot: the row stays as it is and nobody is told
FinishFails(p) ==
    /\ txn[p].op = "finish" /\ faults < MaxFaults
    /\ faults' = faults + 1
    /\ txn' = [txn EXCEPT ![p].op = AfterFailedWrite]
    /\ TaskAfterFinish(p)
    /\ UNCHANGED <<jobRows, lock, phase, elect, semGen, draining, cancels, boots>>

\* After the commit: _hook() for each row, and recover() schedules the queued ones
Announce(p) ==
    /\ txn[p].op = "announce"
    /\ announced' = [j \in Job |-> IF j \in txn[p].jobs /\ Announces(txn[p].outcome)
                                   THEN announced[j] \cup {txn[p].outcome}
                                   ELSE announced[j]]
    /\ Schedule(p, txn[p].queued)
    /\ txn' = [txn EXCEPT ![p] = NoTxn]
    /\ UNCHANGED <<status, attempts, subject, lock, phase, elect, semGen, draining,
                   cancels, boots, faults>>

-----------------------------------------------------------------------------
\* What the server does by itself
ProcessStep(p) ==
    \/ Boot(p) \/ AttemptFails(p) \/ HandOver(p)
    \/ Acquire(p) \/ Lead(p) \/ Reacquire(p) \/ StepDown(p) \/ SteppedDown(p)
    \/ RecoverCommit(p) \/ FinishCommit(p) \/ Announce(p)

JobStep(p, j) ==
    \/ SubmitInsert(p, j) \/ Execute(p, j) \/ CancelledEnds(p, j) \/ CancelRecord(p, j)
    \/ \E o \in {"succeeded", "failed"} : RunnerReturns(p, j, o)

\* What people, the platform and the network do to it
UserStep(p)  == (\E s \in Subject : SubmitCheck(p, s)) \/ (\E j \in Job : Cancel(p, j))
FaultStep(p) == Shutdown(p) \/ Exit(p) \/ LoseLock(p) \/ RecoverFails(p) \/ FinishFails(p)

Next == \/ ServerReleases
        \/ \E p \in Proc : ProcessStep(p) \/ UserStep(p) \/ FaultStep(p)
        \/ \E p \in Proc, j \in Job : JobStep(p, j)

Spec == Init /\ [][Next]_vars

(***************************************************************************)
(* The event loop runs every task that can run, a runner's provider calls  *)
(* have timeouts, the platform ends a process it told to stop and starts   *)
(* one when there is none.  Users and faults owe nothing.                  *)
(***************************************************************************)
Fairness == /\ WF_vars(ServerReleases)
            /\ \A p \in Proc : /\ WF_vars(ProcessStep(p))
                               /\ WF_vars(phase[p] = "handing" /\ Exit(p))
            /\ \A p \in Proc, j \in Job : WF_vars(JobStep(p, j))

FairSpec == Spec /\ Fairness

-----------------------------------------------------------------------------
JobStatus == {"none"} \cup Active \cup Final
TaskType  == [st : {"none", "waiting"} \cup Working, gen : Nat]
TxnType   == [op : {"none", "recover", "submit", "finish", "announce"},
              jobs : SUBSET Job, queued : SUBSET Job, outcome : Final,
              subject : Subject \cup {NoSubject}]

\* Every variable keeps the type the columns and attributes it stands for have
TypeOK ==
    /\ status \in [Job -> JobStatus]
    /\ attempts \in [Job -> Nat]
    /\ subject \in [Job -> Subject \cup {NoSubject}]
    /\ announced \in [Job -> SUBSET Final]
    /\ lock \in Proc \cup {NoProc, DeadSession}
    /\ phase \in [Proc -> Phase]
    /\ elect \in [Proc -> {"waiting", "acquired", "leading", "stepping"}]
    /\ task \in [Proc -> [Job -> TaskType]]
    /\ semGen \in [Proc -> Nat]
    /\ draining \in [Proc -> SUBSET Job]
    /\ cancels \in [Proc -> SUBSET Job]
    /\ txn \in [Proc -> TxnType]
    /\ boots \in Nat /\ faults \in Nat

(***************************************************************************)
(* "Exactly one process can win": however recoveries, restarts and         *)
(* cancellations interleave, the paid work of a job is started at most     *)
(* once (_claim, background_jobs.py:219).                                  *)
(***************************************************************************)
ClaimedAtMostOnce == \A j \in Job : attempts[j] <= 1

(***************************************************************************)
(* Two processes never work on one job at the same time, even while one of *)
(* them steps down with its runners not yet stopped.                       *)
(***************************************************************************)
RunsInOnePlace ==
    \A p, q \in Proc, j \in Job :
        task[p][j].st \in Working /\ task[q][j].st \in Working => p = q

(***************************************************************************)
(* leader.py:1: "only one API process runs background loops and startup    *)
(* recovery at a time", as long as the lock's connection never dropped.    *)
(***************************************************************************)
OneLeader ==
    faults = 0 => \A p, q \in Proc :
        elect[p] \in {"leading", "stepping"} /\ elect[q] \in {"leading", "stepping"} => p = q

(***************************************************************************)
(* In one process, double clicks and two tabs never leave two active jobs  *)
(* for a subject (submit, background_jobs.py:175).                         *)
(***************************************************************************)
OneActivePerSubject ==
    \A i, j \in Job : /\ status[i] \in Active /\ status[j] \in Active
                      /\ subject[i] = subject[j]
                      => i = j

(***************************************************************************)
(* With one process at a time people are only ever told the outcome the    *)
(* row ends with: no success after a cancellation, no failure by recovery  *)
(* of a job that succeeded.                                                *)
(***************************************************************************)
ToldTheOutcome == \A j \in Job : announced[j] \subseteq {status[j]}

(***************************************************************************)
(* ... and an outcome, once recorded, is never replaced by another         *)
(* ("_finish never overwrites it later", cancel).                          *)
(***************************************************************************)
FinalIsFinal == [][\A j \in Job : status[j] \in Final => status'[j] = status[j]]_vars

(***************************************************************************)
(* A submitted job ends, whatever crashes and restarts happen meanwhile:   *)
(* recovery restarts the queued ones and closes the interrupted ones.      *)
(* (A write that fails, or a lock connection lost, may leave one behind.)  *)
(***************************************************************************)
EveryJobEnds ==
    \A j \in Job : status[j] \in Active ~> status[j] \in Final \/ faults > 0

(***************************************************************************)
(* "Jobs run as asyncio tasks in the API process with bounded concurrency" *)
(***************************************************************************)
BoundedConcurrency ==
    \A p \in Proc : Cardinality({j \in Job : task[p][j].st \in Working}) <= Concurrency

(***************************************************************************)
(* recover(): "every other running job was really interrupted": it closes  *)
(* no job whose runner is still at work in another process.                *)
(***************************************************************************)
RecoveryClosesInterrupted ==
    \A p \in Proc : txn[p].op = "recover" =>
        \A q \in Proc \ {p}, j \in txn[p].jobs : task[q][j].st \notin Working

\* What the rows show of all this is the life JobLifecycle promises
Rows == INSTANCE JobLifecycle
RowsSpec == Rows!Spec

=============================================================================
