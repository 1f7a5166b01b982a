---------------------------- MODULE JobLifecycle ----------------------------
(***************************************************************************)
(* What the job queue promises its users, without saying how: the life of  *)
(* the rows of job_queue.                                                  *)
(*                                                                         *)
(* A submitted job is pending until one executor claims it, together with  *)
(* other pending jobs.  The claim is exclusive: while the job is claimed   *)
(* or running it has one owner, and only that owner's outcome ends the     *)
(* attempt.  An attempt ends the job (completed, failed) or puts it back   *)
(* among the pending ones, at most MaxRetries times.  Nothing happens to   *)
(* a job that has ended.                                                   *)
(*                                                                         *)
(* JobExecutor.tla models the code and is shown to implement this module.  *)
(***************************************************************************)
EXTENDS Integers

CONSTANTS
    Jobs,        \* identifiers of the rows of job_queue
    Executors,   \* instance identifiers of the executors that share the table
    MaxRetries,  \* max_retries of every job
    NoExecutor   \* NULL in claimed_by

VARIABLES
    status,      \* status of every job, "absent" before it is submitted
    retry_count, \* how many attempts of the job ended in a retry
    claimed_by   \* the executor that owns the current attempt

vars == <<status, retry_count, claimed_by>>

\* The values of JobStatus a row goes through, and "absent" for no row.
Statuses == {"absent", "pending", "claimed", "running", "completed", "failed"}

Init ==
    /\ status = [j \in Jobs |-> "absent"]
    /\ retry_count = [j \in Jobs |-> 0]
    /\ claimed_by = [j \in Jobs |-> NoExecutor]

Submit(S) ==
    /\ \A j \in S : status[j] = "absent"
    /\ status' = [j \in Jobs |-> IF j \in S THEN "pending" ELSE status[j]]
    /\ UNCHANGED <<retry_count, claimed_by>>

Claim(e, S) ==
    /\ \A j \in S : status[j] = "pending"
    /\ status' = [j \in Jobs |-> IF j \in S THEN "claimed" ELSE status[j]]
    /\ claimed_by' = [j \in Jobs |-> IF j \in S THEN e ELSE claimed_by[j]]
    /\ UNCHANGED retry_count

Run(j) ==
    /\ status[j] = "claimed"
    /\ status' = [status EXCEPT ![j] = "running"]
    /\ UNCHANGED <<retry_count, claimed_by>>

Finish(j, outcome) ==
    /\ status[j] = "running"
    /\ status' = [status EXCEPT ![j] = outcome]
    /\ UNCHANGED <<retry_count, claimed_by>>

Retry(j) ==
    /\ status[j] = "running"
    /\ retry_count[j] < MaxRetries[j]
    /\ status' = [status EXCEPT ![j] = "pending"]
    /\ retry_count' = [retry_count EXCEPT ![j] = @ + 1]
    /\ claimed_by' = [claimed_by EXCEPT ![j] = NoExecutor]

Next ==
    \/ \E j \in Jobs :
        \/ Run(j)
        \/ Finish(j, "completed")
        \/ Finish(j, "failed")
        \/ Retry(j)
    \/ \E S \in SUBSET Jobs : Submit(S) \/ \E e \in Executors : Claim(e, S)

Spec == Init /\ [][Next]_vars

=============================================================================
