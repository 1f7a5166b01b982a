----------------------------- MODULE JobExecutor -----------------------------
(***************************************************************************)
(* The job executor (crate executor-core) over the job_queue table (crate  *)
(* database) and a Kubernetes cluster (crate k8s-client).                  *)
(*                                                                         *)
(* Several executors share the table.  Each runs a loop that claims a      *)
(* batch of pending rows and spawns one task per claimed row.  A task is   *)
(* named here by the job and the number of the claim that gave rise to it: *)
(* task <<j, n>> first runs execute_job (history, image, create the        *)
(* Kubernetes Job, mark the row running, history), then monitor_job (poll  *)
(* the cluster, then end the attempt: completed, failed or requeued).      *)
(*                                                                         *)
(* pc[j][n] is the await the task stands at.  Every await is one step of   *)
(* its own, so the steps of different tasks and executors interleave, and  *)
(* each may fail: the call may not happen, or happen and lose its answer.  *)
(* An executor may die between any two steps; its tasks die with it.       *)
(***************************************************************************)
EXTENDS Integers, FiniteSets

CONSTANTS
    Jobs,          \* identifiers of the rows of job_queue
    Executors,     \* instance identifiers of the executors that share the table
    Topics,        \* the topics of the rows
    TopicOf,       \* the topic of each row
    TopicFilter,   \* config.topics of each executor: a set of topics, or All
    Rank,          \* ORDER BY priority DESC, created_at ASC: the lowest is first
    MaxRetries,    \* max_retries of each row
    NameOf,        \* "job-" and the first 8 characters of the row's id
    DagJobs,       \* the rows that carry a DAG context (is_dag_job)
    BatchSize,     \* config.batch_size
    Permits,       \* max_concurrent, the permits of the semaphore
    EventDriven,   \* TRUE: event loop with the semaphore, FALSE: poll loop
    BackoffLimit,  \* K8S_JOB_BACKOFF_LIMIT, pod failures the cluster retries
    CallsMayFail,  \* TRUE if calls to the database and the cluster may fail
    CrashProne,    \* the executors that may die and be restarted
    MaxClaims,     \* bound of the model: how often a row may be claimed
    All,           \* the entry "ALL" of config.topics
    None           \* NULL

Names == {NameOf[j] : j \in Jobs}
ClaimNumbers == 1..MaxClaims
Runs == [job : Jobs, claim : ClaimNumbers]

Statuses == {"absent", "pending", "claimed", "running", "completed", "failed"}
Terminal == {"completed", "failed"}

ASSUME ConstantsAssumption ==
    /\ TopicOf \in [Jobs -> Topics]
    /\ TopicFilter \in [Executors -> (SUBSET Topics) \cup {All}]
    /\ Rank \in [Jobs -> Int]
    /\ MaxRetries \in [Jobs -> Nat]
    /\ DagJobs \subseteq Jobs
    /\ BatchSize \in Nat \ {0} /\ Permits \in Nat \ {0} /\ BackoffLimit \in Nat
    /\ MaxClaims \in Nat
    /\ EventDriven \in BOOLEAN /\ CallsMayFail \in BOOLEAN
    /\ CrashProne \subseteq Executors
    /\ None \notin Executors /\ None \notin Names /\ None \notin Runs

VARIABLES
    \* job_queue, one entry per row
    status,        \* "absent" before the row is inserted
    retry_count,
    claimed_by,
    k8s_job_name,
    locked,        \* the rows whose locks each executor's claim statement holds
    claims,        \* how often the row has been claimed (not a column)
    \* job_execution_history: entries [claim, status] per job
    history,
    \* executors
    loop,          \* where the claim loop stands
    topics,        \* what get_effective_topics last returned
    \* tasks, by job and claim number
    pc,
    on,            \* the executor the task lives in
    seen,          \* columns of the row as RETURNING * gave them to the task
    permits,       \* the free permits of each executor's semaphore
    \* the cluster
    cluster,       \* the run registered under each name, or None
    phase,         \* what became of the run: none, active, succeeded, failed
    pod_failures,  \* status.failed of the run's Kubernetes Job
    \* the DAG orchestrator, as far as the executor sees it
    dag_calls      \* the handlers called for the job

row == <<status, retry_count, claimed_by, k8s_job_name>>
claim_vars == <<locked, claims, loop, topics, on, seen>>
cluster_vars == <<cluster, phase, pod_failures>>
vars == <<row, claim_vars, history, pc, permits, cluster_vars, dag_calls>>

-----------------------------------------------------------------------------
(* Where a task may stand.                                                 *)

\* Inside execute_job, where in event mode it holds a permit.
Executing == {"hist_claimed", "image", "create", "mark_running", "hist_running"}

\* Inside monitor_job, before it has ended the attempt in the row.
Monitoring == {"monitor", "mark_completed", "requeue", "mark_failed", "mark_timeout"}

\* Inside monitor_job, the row already written.
Epilogue == {"hist_completed", "outputs", "dag_completed", "hist_requeued",
             "hist_failed", "dag_failed", "hist_timeout"}

\* Returned Ok, returned Err (or panicked), or died with its executor.
Ended == {"done", "error", "crashed"}

Live == {"queued"} \cup Executing \cup Monitoring \cup Epilogue
PCs == {"new"} \cup Live \cup Ended

\* The positions from which a task may still write its row.
RowWriting == {"queued", "hist_claimed", "image", "create", "mark_running",
               "hist_running"} \cup Monitoring

Init ==
    /\ status = [j \in Jobs |-> "absent"]
    /\ retry_count = [j \in Jobs |-> 0]
    /\ claimed_by = [j \in Jobs |-> None]
    /\ k8s_job_name = [j \in Jobs |-> None]
    /\ locked = [e \in Executors |-> {}]
    /\ claims = [j \in Jobs |-> 0]
    /\ history = [j \in Jobs |-> {}]
    /\ loop = [e \in Executors |-> "idle"]
    /\ topics = [e \in Executors |-> {}]
    /\ pc = [j \in Jobs |-> [n \in ClaimNumbers |-> "new"]]
    /\ on = [j \in Jobs |-> [n \in ClaimNumbers |-> None]]
    /\ seen = [j \in Jobs |-> [n \in ClaimNumbers |->
                  [retry_count |-> 0, k8s_job_name |-> None]]]
    /\ permits = [e \in Executors |-> Permits]
    /\ cluster = [m \in Names |-> None]
    /\ phase = [j \in Jobs |-> [n \in ClaimNumbers |-> "none"]]
    /\ pod_failures = [j \in Jobs |-> [n \in ClaimNumbers |-> 0]]
    /\ dag_calls = [j \in Jobs |-> {}]

-----------------------------------------------------------------------------
(* The job_queue table.                                                    *)

\* enqueue_job, called by the API and by the DAG orchestrator, and
\* enqueue_jobs_batch, whose transaction inserts all the rows S or none.
Enqueue(S) ==
    /\ S # {} /\ \A j \in S : status[j] = "absent"
    /\ status' = [j \in Jobs |-> IF j \in S THEN "pending" ELSE status[j]]
    /\ UNCHANGED <<retry_count, claimed_by, k8s_job_name, claim_vars, history,
                   pc, permits, cluster_vars, dag_calls>>

\* Faulty: claim_jobs without FOR UPDATE SKIP LOCKED.
ClaimableUnlocked(e) ==
    {j \in Jobs : /\ status[j] = "pending"
                  /\ TopicOf[j] \in topics[e]
                  /\ claims[j] < MaxClaims}

\* Faulty: claim_jobs that passes over rows that had a Kubernetes Job.
ClaimableFirstTime(e) ==
    {j \in Jobs : /\ status[j] = "pending"
                  /\ TopicOf[j] \in topics[e]
                  /\ k8s_job_name[j] = None
                  /\ \A f \in Executors : j \notin locked[f]
                  /\ claims[j] < MaxClaims}

\* What claim_jobs' sub-select may lock: pending rows of the topics that no
\* other claim statement holds (FOR UPDATE SKIP LOCKED).
Claimable(e) ==
    {j \in Jobs : /\ status[j] = "pending"
                  /\ TopicOf[j] \in topics[e]
                  /\ \A f \in Executors : j \notin locked[f]
                  /\ claims[j] < MaxClaims}

\* The rows ORDER BY ... LIMIT limit leaves of C.
FirstRows(C, limit) ==
    {S \in SUBSET C :
        /\ Cardinality(S) = IF Cardinality(C) < limit THEN Cardinality(C) ELSE limit
        /\ \A i \in S, k \in C \ S : Rank[i] <= Rank[k]}

\* UPDATE ... SET status = 'claimed', claimed_by = $1 RETURNING *, committed;
\* the tasks of the returned rows S stand at position p.
ClaimRows(e, S, p) ==
    /\ status' = [j \in Jobs |-> IF j \in S THEN "claimed" ELSE status[j]]
    /\ claimed_by' = [j \in Jobs |-> IF j \in S THEN e ELSE claimed_by[j]]
    /\ claims' = [j \in Jobs |-> IF j \in S THEN claims[j] + 1 ELSE claims[j]]
    /\ pc' = [j \in Jobs |-> IF j \in S
                             THEN [pc[j] EXCEPT ![claims[j] + 1] = p]
                             ELSE pc[j]]
    /\ on' = [j \in Jobs |-> IF j \in S
                             THEN [on[j] EXCEPT ![claims[j] + 1] = e]
                             ELSE on[j]]
    /\ seen' = [j \in Jobs |->
                  IF j \in S
                  THEN [seen[j] EXCEPT ![claims[j] + 1] =
                          [retry_count |-> retry_count[j],
                           k8s_job_name |-> k8s_job_name[j]]]
                  ELSE seen[j]]
    /\ UNCHANGED <<retry_count, k8s_job_name>>

\* update_job_status with nothing but a status (and columns not modelled).
UpdateStatus(j, s) ==
    /\ status' = [status EXCEPT ![j] = s]
    /\ UNCHANGED <<retry_count, claimed_by, k8s_job_name>>

\* update_job_status of execute_job, which also sets k8s_job_name.
UpdateRunning(j, name) ==
    /\ status' = [status EXCEPT ![j] = "running"]
    /\ k8s_job_name' = [k8s_job_name EXCEPT ![j] = name]
    /\ UNCHANGED <<retry_count, claimed_by>>

\* Faulty: requeue_job that counts the retries left instead of those used.
RequeueRowCountingDown(j) ==
    /\ status' = [status EXCEPT ![j] = "pending"]
    /\ retry_count' = [retry_count EXCEPT ![j] = @ - 1]
    /\ claimed_by' = [claimed_by EXCEPT ![j] = None]
    /\ UNCHANGED k8s_job_name

\* Faulty: requeue_job that forgets the status.
RequeueRowKeepingStatus(j) ==
    /\ retry_count' = [retry_count EXCEPT ![j] = @ + 1]
    /\ claimed_by' = [claimed_by EXCEPT ![j] = None]
    /\ UNCHANGED <<status, k8s_job_name>>

\* Faulty: requeue_job that does not count, as the one of database/src/mocks.rs.
RequeueRowUncounted(j) ==
    /\ status' = [status EXCEPT ![j] = "pending"]
    /\ claimed_by' = [claimed_by EXCEPT ![j] = None]
    /\ UNCHANGED <<retry_count, k8s_job_name>>

\* requeue_job: k8s_job_name keeps its value.
RequeueRow(j) ==
    /\ status' = [status EXCEPT ![j] = "pending"]
    /\ retry_count' = [retry_count EXCEPT ![j] = @ + 1]
    /\ claimed_by' = [claimed_by EXCEPT ![j] = None]
    /\ UNCHANGED k8s_job_name

-----------------------------------------------------------------------------
(* The claim loop of an executor: poll_once and handle_ready_jobs.         *)

\* Faulty: every executor takes the topics of the pending rows.
EffectiveTopicsUnfiltered(e) ==
    {TopicOf[j] : j \in {i \in Jobs : status[i] = "pending"}}

\* get_effective_topics: config.topics, or with "ALL" the distinct topics of
\* the pending rows (a query of its own, before the claim).
EffectiveTopics(e) ==
    IF TopicFilter[e] = All
    THEN {TopicOf[j] : j \in {i \in Jobs : status[i] = "pending"}}
    ELSE TopicFilter[e]

\* A poll tick or a notification starts an iteration.  An error of the query
\* ends the iteration: the loop stays idle.
ReadTopics(e) ==
    /\ loop[e] = "idle"
    /\ loop' = [loop EXCEPT ![e] = "claim"]
    /\ topics' = [topics EXCEPT ![e] = EffectiveTopics(e)]
    /\ UNCHANGED <<row, locked, claims, on, seen, history, pc, permits,
                   cluster_vars, dag_calls>>

\* The limit of claim_jobs: batch_size when polling, and at most batch_size
\* (the notified job_count) when driven by events.
Limits == IF EventDriven THEN 1..BatchSize ELSE {BatchSize}

\* The sub-select of claim_jobs locks its rows; with no row the call returns
\* an empty batch.
ClaimLock(e) ==
    /\ loop[e] = "claim"
    /\ \E limit \in Limits : \E S \in FirstRows(Claimable(e), limit) :
        /\ locked' = [locked EXCEPT ![e] = S]
        /\ loop' = [loop EXCEPT ![e] = IF S = {} THEN "idle" ELSE "locked"]
    /\ UNCHANGED <<row, claims, topics, on, seen, history, pc, permits,
                   cluster_vars, dag_calls>>

\* Faulty: the locks outlive the statement.
UnlockNever(e) == UNCHANGED locked

\* The statement has ended: its locks are released.
Unlock(e) == locked' = [locked EXCEPT ![e] = {}]

\* The statement commits and the loop gets the rows.
ClaimCommit(e) ==
    /\ loop[e] = "locked"
    /\ ClaimRows(e, locked[e], "queued")
    /\ Unlock(e)
    /\ loop' = [loop EXCEPT ![e] = "spawn"]
    /\ UNCHANGED <<topics, history, permits, cluster_vars, dag_calls>>

\* The statement commits but claim_jobs returns Err: the answer is lost, or a
\* row does not map to a QueuedJob.  No task is ever started for the rows.
ClaimLost(e) ==
    /\ CallsMayFail
    /\ loop[e] = "locked"
    /\ ClaimRows(e, locked[e], "error")
    /\ Unlock(e)
    /\ loop' = [loop EXCEPT ![e] = "idle"]
    /\ UNCHANGED <<topics, history, permits, cluster_vars, dag_calls>>

\* The statement fails: nothing is claimed.
ClaimAbort(e) ==
    /\ CallsMayFail
    /\ loop[e] = "locked"
    /\ Unlock(e)
    /\ loop' = [loop EXCEPT ![e] = "idle"]
    /\ UNCHANGED <<row, claims, topics, on, seen, history, pc, permits,
                   cluster_vars, dag_calls>>

\* The tasks of an executor that stand at one of the positions P.
TasksAt(e, P) ==
    {t \in Jobs \X ClaimNumbers : on[t[1]][t[2]] = e /\ pc[t[1]][t[2]] \in P}

\* A task goes from one await to another.
Move(j, n, from, to) ==
    /\ pc[j][n] = from
    /\ pc' = [pc EXCEPT ![j][n] = to]

\* tokio::spawn of execute_job; in event mode the loop first awaits a permit,
\* which the task takes along.
Spawn(j, n) ==
    /\ Move(j, n, "queued", "hist_claimed")
    /\ IF EventDriven
       THEN permits[on[j][n]] > 0 /\ permits' = [permits EXCEPT ![on[j][n]] = @ - 1]
       ELSE UNCHANGED permits
    /\ UNCHANGED <<row, claim_vars, history, cluster_vars, dag_calls>>

\* The batch is spawned.  poll_once also waits for every execute_job to return.
LoopDone(e) ==
    /\ loop[e] = "spawn"
    /\ TasksAt(e, {"queued"}) = {}
    /\ ~EventDriven => TasksAt(e, Executing) = {}
    /\ loop' = [loop EXCEPT ![e] = "idle"]
    /\ UNCHANGED <<row, locked, claims, topics, on, seen, history, pc, permits,
                   cluster_vars, dag_calls>>

-----------------------------------------------------------------------------
(* Steps of a task.                                                        *)

\* Faulty: the permit is given back after execute_job, where its `?` never gets.
ReleaseAtTheEnd(j, n, to) ==
    permits' = IF EventDriven /\ pc[j][n] \in Executing /\ to = "monitor"
               THEN [permits EXCEPT ![on[j][n]] = @ + 1]
               ELSE permits

\* The permit is a local of the spawned block (_permit): it is dropped when
\* execute_job returns, by whichever way.
Release(j, n, to) ==
    permits' = IF EventDriven /\ pc[j][n] \in Executing /\ to \notin Executing
               THEN [permits EXCEPT ![on[j][n]] = @ + 1]
               ELSE permits

Step(j, n, from, to) == Move(j, n, from, to) /\ Release(j, n, to)

\* A step that is a call: the `?` ends the task when the call happened but its
\* answer was lost.  CallError is the call that did not happen.
Call(j, n, from, to) ==
    \/ Step(j, n, from, to)
    \/ CallsMayFail /\ Step(j, n, from, "error")

Record(j, n, s) == history' = [history EXCEPT ![j] = @ \cup {[claim |-> n, status |-> s]}]

\* Faulty: the first history entry says "running".
HistClaimedAsRunning(j, n) ==
    /\ Call(j, n, "hist_claimed", "image")
    /\ Record(j, n, "running")
    /\ UNCHANGED <<row, claim_vars, cluster_vars, dag_calls>>

\* execute_job.
HistClaimed(j, n) ==
    /\ Call(j, n, "hist_claimed", "image")
    /\ Record(j, n, "claimed")
    /\ UNCHANGED <<row, claim_vars, cluster_vars, dag_calls>>

GetImage(j, n) ==
    /\ Step(j, n, "image", "create")
    /\ UNCHANGED <<row, claim_vars, history, cluster_vars, dag_calls>>

JobName(j, n) ==
    IF seen[j][n].k8s_job_name # None THEN seen[j][n].k8s_job_name ELSE NameOf[j]

\* Faulty: a create that replaces a Kubernetes Job of the same name.
CreateJobReplacing(j, n) ==
    /\ Call(j, n, "create", "mark_running")
    /\ cluster' = [cluster EXCEPT ![JobName(j, n)] = [job |-> j, claim |-> n]]
    /\ phase' = [phase EXCEPT ![j][n] = "active"]
    /\ UNCHANGED <<row, claim_vars, history, pod_failures, dag_calls>>

\* create_job, the name being free.
CreateJob(j, n) ==
    /\ cluster[JobName(j, n)] = None
    /\ Call(j, n, "create", "mark_running")
    /\ cluster' = [cluster EXCEPT ![JobName(j, n)] = [job |-> j, claim |-> n]]
    /\ phase' = [phase EXCEPT ![j][n] = "active"]
    /\ UNCHANGED <<row, claim_vars, history, pod_failures, dag_calls>>

\* create_job, the name being taken (409): execute_job returns Err and the
\* row stays as it is.
CreateConflict(j, n) ==
    /\ cluster[JobName(j, n)] # None
    /\ Step(j, n, "create", "error")
    /\ UNCHANGED <<row, claim_vars, history, cluster_vars, dag_calls>>

MarkRunning(j, n) ==
    /\ Call(j, n, "mark_running", "hist_running")
    /\ UpdateRunning(j, JobName(j, n))
    /\ UNCHANGED <<claim_vars, history, cluster_vars, dag_calls>>

\* The task that monitors is spawned here: its position is "monitor".
HistRunning(j, n) ==
    /\ Call(j, n, "hist_running", "monitor")
    /\ Record(j, n, "running")
    /\ UNCHANGED <<row, claim_vars, cluster_vars, dag_calls>>

\* Faulty: `>` instead of `>=` in should_retry_job.
ShouldRetryOnceMore(j, n) == seen[j][n].retry_count <= MaxRetries[j]

\* should_retry_job, whose caller always passes a transient error.
ShouldRetry(j, n) == seen[j][n].retry_count < MaxRetries[j]

\* Faulty: a run that is no longer active counts as succeeded.
PollStatusInactive(j, n) ==
    /\ cluster[JobName(j, n)] # None
    /\ LET r == cluster[JobName(j, n)]
       IN  /\ phase[r.job][r.claim] # "active"
           /\ Step(j, n, "monitor", "mark_completed")
    /\ UNCHANGED <<row, claim_vars, history, cluster_vars, dag_calls>>

\* Faulty: a run that has not succeeded counts as failed.
PollStatusHasty(j, n) ==
    /\ cluster[JobName(j, n)] # None
    /\ LET r == cluster[JobName(j, n)]
       IN  Step(j, n, "monitor", CASE phase[r.job][r.claim] = "succeeded" -> "mark_completed"
                                   [] ShouldRetry(j, n) -> "requeue"
                                   [] OTHER -> "mark_failed")
    /\ UNCHANGED <<row, claim_vars, history, cluster_vars, dag_calls>>

\* One round of monitor_job: get_job_status of the name, and for a run that
\* ended its logs.  A run neither succeeded nor failed, and an error, change
\* nothing.
PollStatus(j, n) ==
    /\ cluster[JobName(j, n)] # None
    /\ LET r == cluster[JobName(j, n)]
       IN  \/ /\ phase[r.job][r.claim] = "succeeded"
              /\ Step(j, n, "monitor", "mark_completed")
           \/ /\ phase[r.job][r.claim] # "succeeded"
              /\ pod_failures[r.job][r.claim] > 0
              /\ Step(j, n, "monitor",
                      IF ShouldRetry(j, n) THEN "requeue" ELSE "mark_failed")
    /\ UNCHANGED <<row, claim_vars, history, cluster_vars, dag_calls>>

\* Nothing was seen to end within 24 hours.
MonitorTimeout(j, n) ==
    /\ Step(j, n, "monitor", "mark_timeout")
    /\ UNCHANGED <<row, claim_vars, history, cluster_vars, dag_calls>>

MarkCompleted(j, n) ==
    /\ Call(j, n, "mark_completed", "hist_completed")
    /\ UpdateStatus(j, "completed")
    /\ UNCHANGED <<claim_vars, history, cluster_vars, dag_calls>>

HistCompleted(j, n) ==
    /\ Call(j, n, "hist_completed", "outputs")
    /\ Record(j, n, "completed")
    /\ UNCHANGED <<row, claim_vars, cluster_vars, dag_calls>>

\* Faulty: the orchestrator is told of every job, not only of those of a DAG.
WaitForOutputsTellingAll(j, n) ==
    /\ Step(j, n, "outputs", "dag_completed")
    /\ UNCHANGED <<row, claim_vars, history, cluster_vars, dag_calls>>

\* Faulty: without outputs the orchestrator is not told.
WaitForOutputsOrGiveUp(j, n) ==
    /\ \E to \in {"dag_completed", "done"} : Step(j, n, "outputs", to)
    /\ UNCHANGED <<row, claim_vars, history, cluster_vars, dag_calls>>

\* wait_for_outputs swallows errors and gives up after 30 seconds.
WaitForOutputs(j, n) ==
    /\ Step(j, n, "outputs", IF j \in DagJobs THEN "dag_completed" ELSE "done")
    /\ UNCHANGED <<row, claim_vars, history, cluster_vars, dag_calls>>

\* handle_job_completion and handle_job_failure; an error of theirs is logged.
CallDag(j, n, from, call) ==
    /\ Step(j, n, from, "done")
    /\ dag_calls' = [dag_calls EXCEPT ![j] = @ \cup {call}]
    /\ UNCHANGED <<row, claim_vars, history, cluster_vars>>

DagCompleted(j, n) == CallDag(j, n, "dag_completed", "completion")
DagFailed(j, n) == CallDag(j, n, "dag_failed", "failure")

Requeue(j, n) ==
    /\ Call(j, n, "requeue", "hist_requeued")
    /\ RequeueRow(j)
    /\ UNCHANGED <<claim_vars, history, cluster_vars, dag_calls>>

\* Faulty: the DAG orchestrator is told of every failed attempt.
HistRequeuedTellingDag(j, n) ==
    /\ Call(j, n, "hist_requeued", IF j \in DagJobs THEN "dag_failed" ELSE "done")
    /\ Record(j, n, "failed")
    /\ UNCHANGED <<row, claim_vars, cluster_vars, dag_calls>>

\* The entry of a failed attempt that is retried.
HistRequeued(j, n) ==
    /\ Call(j, n, "hist_requeued", "done")
    /\ Record(j, n, "failed")
    /\ UNCHANGED <<row, claim_vars, cluster_vars, dag_calls>>

MarkFailed(j, n) ==
    /\ Call(j, n, "mark_failed", "hist_failed")
    /\ UpdateStatus(j, "failed")
    /\ UNCHANGED <<claim_vars, history, cluster_vars, dag_calls>>

HistFailed(j, n) ==
    /\ Call(j, n, "hist_failed", IF j \in DagJobs THEN "dag_failed" ELSE "done")
    /\ Record(j, n, "failed")
    /\ UNCHANGED <<row, claim_vars, cluster_vars, dag_calls>>

\* After the time-out the row fails, but the DAG orchestrator is not told.
MarkTimeout(j, n) ==
    /\ Call(j, n, "mark_timeout", "hist_timeout")
    /\ UpdateStatus(j, "failed")
    /\ UNCHANGED <<claim_vars, history, cluster_vars, dag_calls>>

HistTimeout(j, n) ==
    /\ Call(j, n, "hist_timeout", "done")
    /\ Record(j, n, "failed")
    /\ UNCHANGED <<row, claim_vars, cluster_vars, dag_calls>>

\* Positions whose call propagates an Err: the task ends without the call's
\* effect.  It also stands for an image that is missing or not active, and for
\* the panic of a log cut inside a character (&logs[..10000], &logs[..50000]).
Fallible == (Executing \cup Monitoring \cup Epilogue)
                \ {"monitor", "outputs", "dag_completed", "dag_failed"}

CallError(j, n) ==
    /\ CallsMayFail
    /\ pc[j][n] \in Fallible
    /\ Step(j, n, pc[j][n], "error")
    /\ UNCHANGED <<row, claim_vars, history, cluster_vars, dag_calls>>

-----------------------------------------------------------------------------
(* The cluster.                                                            *)

\* The pod of a run ends well.
RunSucceeds(j, n) ==
    /\ phase[j][n] = "active"
    /\ phase' = [phase EXCEPT ![j][n] = "succeeded"]
    /\ UNCHANGED <<row, claim_vars, history, pc, permits, cluster, pod_failures, dag_calls>>

\* The pod of a run fails; beyond BackoffLimit failures so does the run.
PodFails(j, n) ==
    /\ phase[j][n] = "active"
    /\ pod_failures' = [pod_failures EXCEPT ![j][n] = @ + 1]
    /\ phase' = [phase EXCEPT ![j][n] =
                    IF pod_failures[j][n] >= BackoffLimit THEN "failed" ELSE "active"]
    /\ UNCHANGED <<row, claim_vars, history, pc, permits, cluster, dag_calls>>

\* ttlSecondsAfterFinished: the cluster forgets a run that has ended.
Expire(name) ==
    /\ cluster[name] # None
    /\ phase[cluster[name].job][cluster[name].claim] \in {"succeeded", "failed"}
    /\ cluster' = [cluster EXCEPT ![name] = None]
    /\ UNCHANGED <<row, claim_vars, history, pc, permits, phase, pod_failures, dag_calls>>

-----------------------------------------------------------------------------
(* The end of a process, by a crash or by its shutdown signal: the tasks    *)
(* are dropped where they stand and the lock of an open claim statement is  *)
(* released.  A restarted executor starts from nothing, with a semaphore of *)
(* its own.                                                                 *)

Crash(e) ==
    /\ e \in CrashProne
    /\ loop[e] # "off"
    /\ loop' = [loop EXCEPT ![e] = "off"]
    /\ Unlock(e)
    /\ pc' = [j \in Jobs |-> [n \in ClaimNumbers |->
                IF on[j][n] = e /\ pc[j][n] \in Live THEN "crashed" ELSE pc[j][n]]]
    /\ permits' = [permits EXCEPT ![e] = Permits]
    /\ UNCHANGED <<row, claims, topics, on, seen, history, cluster_vars, dag_calls>>

Restart(e) ==
    /\ loop[e] = "off"
    /\ loop' = [loop EXCEPT ![e] = "idle"]
    /\ UNCHANGED <<row, locked, claims, topics, on, seen, history, pc, permits,
                   cluster_vars, dag_calls>>

-----------------------------------------------------------------------------
LoopStep(e) ==
    \/ ReadTopics(e)
    \/ ClaimLock(e)
    \/ ClaimCommit(e)
    \/ ClaimLost(e)
    \/ ClaimAbort(e)
    \/ LoopDone(e)

TaskStep(j, n) ==
    \/ Spawn(j, n)
    \/ HistClaimed(j, n)
    \/ GetImage(j, n)
    \/ CreateJob(j, n)
    \/ CreateConflict(j, n)
    \/ MarkRunning(j, n)
    \/ HistRunning(j, n)
    \/ PollStatus(j, n)
    \/ MonitorTimeout(j, n)
    \/ MarkCompleted(j, n)
    \/ HistCompleted(j, n)
    \/ WaitForOutputs(j, n)
    \/ DagCompleted(j, n)
    \/ Requeue(j, n)
    \/ HistRequeued(j, n)
    \/ MarkFailed(j, n)
    \/ HistFailed(j, n)
    \/ DagFailed(j, n)
    \/ MarkTimeout(j, n)
    \/ HistTimeout(j, n)
    \/ CallError(j, n)

ClusterStep(j, n) == RunSucceeds(j, n) \/ PodFails(j, n)

Next ==
    \/ \E S \in SUBSET Jobs : Enqueue(S)
    \/ \E e \in Executors : LoopStep(e) \/ Crash(e) \/ Restart(e)
    \/ \E j \in Jobs, n \in ClaimNumbers : TaskStep(j, n) \/ ClusterStep(j, n)
    \/ \E name \in Names : Expire(name)

Spec == Init /\ [][Next]_vars

\* Every spawned task is polled by the runtime, every loop goes on, and an
\* executor whose claim statement holds its locks again and again gets one of
\* them committed in the end: the database is not broken for ever.  An idle poll
\* loop starts again after its sleep; an idle event loop need not, for only a
\* notification wakes it.  Nothing is assumed of crashes, restarts, submissions,
\* the pods or the ttl.
Fairness ==
    /\ \A e \in Executors :
           /\ WF_vars((EventDriven => loop[e] # "idle") /\ LoopStep(e))
           /\ SF_vars(ClaimCommit(e))
    /\ \A j \in Jobs, n \in ClaimNumbers : WF_vars(TaskStep(j, n))

FairSpec == Spec /\ Fairness

-----------------------------------------------------------------------------
(* Properties.                                                             *)

RowType ==
    /\ status \in [Jobs -> Statuses]
    /\ retry_count \in [Jobs -> Nat]
    /\ claimed_by \in [Jobs -> Executors \cup {None}]
    /\ k8s_job_name \in [Jobs -> Names \cup {None}]

ClaimType ==
    /\ locked \in [Executors -> SUBSET Jobs]
    /\ claims \in [Jobs -> 0..MaxClaims]
    /\ on \in [Jobs -> [ClaimNumbers -> Executors \cup {None}]]
    /\ seen \in [Jobs -> [ClaimNumbers ->
                    [retry_count : Nat, k8s_job_name : Names \cup {None}]]]

LoopType ==
    /\ loop \in [Executors -> {"off", "idle", "claim", "locked", "spawn"}]
    /\ topics \in [Executors -> SUBSET Topics]

PcType ==
    /\ pc \in [Jobs -> [ClaimNumbers -> PCs]]
    /\ permits \in [Executors -> Nat]

ClusterType ==
    /\ cluster \in [Names -> Runs \cup {None}]
    /\ phase \in [Jobs -> [ClaimNumbers -> {"none", "active", "succeeded", "failed"}]]
    /\ pod_failures \in [Jobs -> [ClaimNumbers -> Nat]]

LogType ==
    /\ history \in [Jobs -> SUBSET [claim : ClaimNumbers, status : Statuses]]
    /\ dag_calls \in [Jobs -> SUBSET {"completion", "failure"}]

\* Every variable has its type: the columns of job_queue, the position of
\* every task and the state of the cluster stay within their domains.
TypeOK ==
    /\ RowType
    /\ ClaimType
    /\ LoopType
    /\ PcType
    /\ ClusterType
    /\ LogType

\* At most one task may still write a job's row.  update_job_status and
\* requeue_job have no guard on the row's status (UPDATE ... WHERE id = $1), so
\* a second writer, in this or another executor, would overwrite the first.
SingleWriter ==
    \A j \in Jobs : \A m, n \in ClaimNumbers :
        pc[j][m] \in RowWriting /\ pc[j][n] \in RowWriting => m = n

\* A job is retried at most max_retries times although should_retry_job looks
\* at the retry_count the task was given when it claimed the row, not at the
\* row's; and every claim of a job but its first was paid for by a retry.
RetryBudget ==
    \A j \in Jobs :
        /\ retry_count[j] <= MaxRetries[j]
        /\ claims[j] = retry_count[j]
                         + IF status[j] \in {"absent", "pending"} THEN 0 ELSE 1

\* A row that is claimed or running belongs to the executor named in
\* claimed_by, and its newest task lives there or has ended with an error or
\* with its executor: no other outcome of a task leaves a row behind.
OwnedOrLost ==
    \A j \in Jobs : status[j] \in {"claimed", "running"} =>
        \E n \in ClaimNumbers :
            /\ n = claims[j]
            /\ on[j][n] = claimed_by[j]
            /\ pc[j][n] \in RowWriting \cup {"error", "crashed"}

\* The cluster never runs two Jobs for one row at a time, whatever the retries,
\* crashes and lost answers: all its runs ask for the same name.
OneRunPerJob ==
    \A j \in Jobs : \A m, n \in ClaimNumbers :
        phase[j][m] = "active" /\ phase[j][n] = "active" => m = n

\* No two rows have the same first eight characters of their ids.
NamesDistinct == \A i, j \in Jobs : NameOf[i] = NameOf[j] => i = j

\* A row is completed only if the run of its last claim succeeded, although
\* the monitor asks the cluster for a name and not for the run it created.
\* It needs NamesDistinct: two rows of one name would read each other's runs.
CompletedRunSucceeded ==
    \A j \in Jobs : status[j] = "completed" =>
        \E n \in ClaimNumbers : n = claims[j] /\ phase[j][n] = "succeeded"

\* The execution history never tells more than happened: a "running" entry has
\* its run, a "completed" entry its completed row, and a "failed" entry an
\* attempt that is over (retried since, or waiting for the retry, or failed).
HistoryNotAhead ==
    \A j \in Jobs : \A h \in history[j] :
        /\ h.status = "running" => phase[j][h.claim] # "none"
        /\ h.status = "completed" => status[j] = "completed" /\ h.claim = claims[j]
        /\ h.status = "failed" =>
               h.claim < claims[j] \/ status[j] \in {"pending", "failed"}

\* The DAG orchestrator hears of the completion of a job only if its row stays
\* completed and of its failure only if its row stays failed, hence never of
\* both and never of a job that is retried; and it does hear of the completion,
\* unless the task that completed the row ended early.
DagHearsTheOutcome ==
    \A j \in Jobs :
        /\ "completion" \in dag_calls[j] => status[j] = "completed"
        /\ "failure" \in dag_calls[j] => status[j] = "failed"
        /\ j \in DagJobs /\ status[j] = "completed" =>
               \A n \in ClaimNumbers :
                   n = claims[j] /\ pc[j][n] = "done" => "completion" \in dag_calls[j]

\* No attempt is given up for nothing, although the monitor asks the cluster for a
\* name: an attempt that is retried had a failed pod in its own run, and so had the
\* last attempt of a job of whose failure the orchestrator hears, after all the
\* retries it had.  It needs NamesDistinct.
FailuresAreReal ==
    \A j \in Jobs :
        /\ \A n \in ClaimNumbers :
               n < claims[j] \/ (n = claims[j] /\ status[j] = "pending") =>
                   pod_failures[j][n] > 0
        /\ "failure" \in dag_calls[j] =>
               /\ retry_count[j] = MaxRetries[j]
               /\ \E n \in ClaimNumbers : n = claims[j] /\ pod_failures[j][n] > 0

\* A row is claimed only by an executor configured for its topic, although the
\* list of topics is read before the claim.
TopicIsolation ==
    \A j \in Jobs : claimed_by[j] # None =>
        \/ TopicFilter[claimed_by[j]] = All
        \/ TopicOf[j] \in TopicFilter[claimed_by[j]]

\* No permit is lost or made: those that are free and those of the tasks inside
\* execute_job are together the permits there are, whatever awaits return early,
\* tasks end with an error or processes die between the acquire in the loop and the
\* drop in the task.  The monitors the tasks start hold none and are not bounded.
PermitsAccounted ==
    EventDriven => \A e \in Executors :
        /\ IsFiniteSet(TasksAt(e, Executing))
        /\ permits[e] + Cardinality(TasksAt(e, Executing)) = Permits

\* The rows live the life JobLifecycle promises: exclusive claims, running only
\* after a claim, an end or a paid retry only after running, no change after
\* the end.
Lifecycle == INSTANCE JobLifecycle WITH NoExecutor <- None
ImplementsLifecycle == Lifecycle!Spec

\* Every pending job ends, or one of its tasks ended with an error or with its
\* executor.  Nobody looks after such a job again, so this is the most the code
\* can promise.
EndsOrIsLost ==
    \A j \in Jobs : status[j] = "pending" ~>
        \/ status[j] \in Terminal
        \/ \E n \in ClaimNumbers : pc[j][n] \in {"error", "crashed"}

-----------------------------------------------------------------------------
(* The inductive invariant behind the safety properties.                   *)

\* Where the newest task of a row may stand, by the row's status.
Positions(s) ==
    CASE s = "absent"    -> {}
      [] s = "pending"   -> {"hist_requeued", "done", "error", "crashed"}
      [] s = "claimed"   -> {"queued", "hist_claimed", "image", "create",
                             "mark_running", "error", "crashed"}
      [] s = "running"   -> {"hist_running", "monitor", "mark_completed", "requeue",
                             "mark_failed", "mark_timeout", "error", "crashed"}
      [] s = "completed" -> {"hist_completed", "outputs", "dag_completed",
                             "done", "error", "crashed"}
      [] s = "failed"    -> {"hist_failed", "dag_failed", "hist_timeout",
                             "done", "error", "crashed"}

\* A claim's task exists from the claim on, stands where the row's status says,
\* and once the row is claimed again only closes its history.
PositionInv ==
    \A j \in Jobs, n \in ClaimNumbers :
        /\ n > claims[j] => pc[j][n] = "new"
        /\ n < claims[j] => pc[j][n] \in Positions("pending")
        /\ n = claims[j] => pc[j][n] \in Positions(status[j])

\* What the newest task remembers of its row still holds.
SnapshotInv ==
    \A j \in Jobs, n \in ClaimNumbers :
        n = claims[j] /\ status[j] \notin {"absent", "pending"} =>
            /\ seen[j][n].retry_count = retry_count[j]
            /\ on[j][n] = claimed_by[j]
            /\ pc[j][n] = "requeue" => ShouldRetry(j, n)

\* The rows a claim statement has locked are pending and locked by it alone.
LockInv ==
    \A e \in Executors : \A j \in locked[e] :
        /\ status[j] = "pending"
        /\ claims[j] < MaxClaims
        /\ \A f \in Executors : j \in locked[f] => f = e

\* Every run of a job is created under the job's own name, and holds it while
\* it is active.
NameInv ==
    \A j \in Jobs :
        /\ k8s_job_name[j] \in {None, NameOf[j]}
        /\ \A n \in ClaimNumbers :
            /\ seen[j][n].k8s_job_name \in {None, NameOf[j]}
            /\ phase[j][n] = "active" => cluster[NameOf[j]] = [job |-> j, claim |-> n]

\* A row that is not inserted has no claims.
AbsentInv == \A j \in Jobs : status[j] = "absent" => claims[j] = 0

\* Every entry of the history is of a claim there was, and a task about to
\* record its run as running has created it.
HistoryInv ==
    \A j \in Jobs :
        /\ \A h \in history[j] : h.claim <= claims[j]
        /\ \A n \in ClaimNumbers :
               pc[j][n] \in {"mark_running", "hist_running"} => phase[j][n] # "none"

\* The topics of a loop and the rows its statement has locked are within the
\* filter of the executor.
TopicInv ==
    \A e \in Executors : TopicFilter[e] # All =>
        /\ topics[e] \subseteq TopicFilter[e]
        /\ \A j \in locked[e] : TopicOf[j] \in TopicFilter[e]

\* From the creation of its run on, the newest task finds under its name its own
\* run or none; and it ends the row as completed only when that run succeeded.
RunInv ==
    \A j \in Jobs, n \in ClaimNumbers :
        /\ pc[j][n] \in {"mark_running", "hist_running", "monitor"} =>
               cluster[NameOf[j]] \in {None, [job |-> j, claim |-> n]}
        /\ pc[j][n] = "mark_completed" => phase[j][n] = "succeeded"

\* Where a task stands that has not created its run.
Unstarted == {"new", "queued", "hist_claimed", "image", "create"}

\* Such a task has no run.
StartedInv ==
    \A j \in Jobs, n \in ClaimNumbers : pc[j][n] \in Unstarted => phase[j][n] = "none"

\* Without a backoffLimit, a run with a failed pod has failed, and a row is put
\* back among the pending ones only after its run has.
RetryInv ==
    \A j \in Jobs, n \in ClaimNumbers :
        /\ pod_failures[j][n] > 0 => phase[j][n] = "failed"
        /\ pc[j][n] = "requeue" => phase[j][n] = "failed"
        /\ n < claims[j] \/ (n = claims[j] /\ status[j] = "pending") =>
               phase[j][n] = "failed"

\* A task that gives its attempt up has seen a pod of its own run fail, and gives
\* the job up only when no retry is left.
FailureInv ==
    \A j \in Jobs, n \in ClaimNumbers :
        /\ pc[j][n] \in {"requeue", "mark_failed", "hist_failed", "dag_failed"} =>
               pod_failures[j][n] > 0
        /\ pc[j][n] \in {"mark_failed", "hist_failed", "dag_failed"} =>
               retry_count[j] = MaxRetries[j]

\* The conjunction is preserved by every step: what each task remembers, where
\* it stands and what its row says agree in every reachable state.
IInv ==
    /\ TypeOK
    /\ PositionInv
    /\ RetryBudget
    /\ AbsentInv
    /\ SnapshotInv
    /\ LockInv
    /\ NameInv
    /\ StartedInv
    /\ TopicInv
    /\ HistoryInv
    /\ HistoryNotAhead
    /\ DagHearsTheOutcome
    /\ NamesDistinct =>
           RunInv /\ CompletedRunSucceeded /\ FailureInv /\ FailuresAreReal
    /\ NamesDistinct /\ BackoffLimit = 0 => RetryInv

-----------------------------------------------------------------------------
(* What the repository says of the program and the code does not do.       *)

\* A job that fails is requeued, and after its last retry it is marked as
\* permanently failed (tests/integration_test.rs, test_job_retry_flow): with no
\* failing call and no crash, every pending job ends.  The requeued row keeps
\* its k8s_job_name and nobody deletes the failed Kubernetes Job, so create_job
\* finds the name taken and the row stays claimed.
RetriesComeToAnEnd ==
    \A j \in Jobs : status[j] = "pending" ~> status[j] \in Terminal

\* The failure of a DAG job is propagated (README.md, "Handles failure
\* propagation"): the orchestrator hears of every row that fails.  monitor_job
\* does not tell it of a job that failed by its 24 hour time-out.
FailureReachesDag ==
    \A j \in DagJobs : status[j] = "failed" ~> "failure" \in dag_calls[j]

=============================================================================
