---------------------------- MODULE JobLifecycle ----------------------------
(***************************************************************************)
(* What background_jobs.py promises about one row of background_jobs, told *)
(* without processes, tasks or transactions: a job is submitted once, its  *)
(* paid work is started at most once, and a job that has an outcome never  *)
(* becomes active again.  BackgroundWork implements this specification.    *)
(***************************************************************************)
EXTENDS Naturals

CONSTANT Job

VARIABLES status,    \* the status column of each row ("none": no row yet)
          attempts   \* the attempts column: how often the work was started

jobVars == <<status, attempts>>

Active == {"queued", "running"}
Final  == {"succeeded", "failed", "cancelled"}
JobStatus == {"none"} \cup Active \cup Final

Init == /\ status = [j \in Job |-> "none"]
        /\ attempts = [j \in Job |-> 0]

Submit(j) == /\ status[j] = "none"
             /\ status' = [status EXCEPT ![j] = "queued"]
             /\ UNCHANGED attempts

Start(j) == /\ status[j] = "queued"
            /\ attempts[j] = 0
            /\ status' = [status EXCEPT ![j] = "running"]
            /\ attempts' = [attempts EXCEPT ![j] = 1]

(***************************************************************************)
(* An outcome is written for a set of rows.  A row that already has one    *)
(* may get another (two processes that both read it as active), but no row *)
(* without work becomes one with an outcome.                               *)
(***************************************************************************)
Settle(S, o) == /\ \A j \in S : status[j] # "none"
                /\ status' = [j \in Job |-> IF j \in S THEN o ELSE status[j]]
                /\ UNCHANGED attempts

Next == \/ \E j \in Job : Submit(j) \/ Start(j)
        \/ \E S \in SUBSET Job, o \in Final : Settle(S, o)

Spec == Init /\ [][Next]_jobVars

=============================================================================
