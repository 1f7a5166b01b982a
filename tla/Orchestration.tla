---------------------------- MODULE Orchestration ----------------------------
(***************************************************************************)
(* One DAG execution from the submission of its roots to its last job: the *)
(* job executor (JobExecutor.tla), the DAG orchestrator                    *)
(* (DAGOrchestrator.tla) and the event loop of one process in event mode   *)
(* (EventLoop.tla), over one job_queue and one cluster.                    *)
(*                                                                         *)
(* The rows of job_queue are those of the nodes, one each.  The components *)
(* meet in five places: a monitor task whose row has ended calls a         *)
(* handler; a handler enqueues rows; a handler sends a notification; the   *)
(* loop takes its limit from one; and the end of the process ends them     *)
(* all.  Each component's own steps are the actions of its module.         *)
(***************************************************************************)
EXTENDS Integers, Sequences, FiniteSets

CONSTANTS
    \* the DAG, as in DAGOrchestrator
    Nodes, ParentOf, Order, Mode, Initial, LinkChildren,
    \* the process and its configuration, as in JobExecutor
    Process, Topic, Rank, MaxRetries, NameOf, BatchSize, Permits, BackoffLimit,
    CallsMayFail,
    Mortal,        \* TRUE if the process may die
    MaxClaims, All, None

VARIABLES
    \* JobExecutor
    status, retry_count, claimed_by, k8s_job_name, locked, claims, history, loop,
    topics, pc, permits, on, seen, cluster, phase, pod_failures, dag_calls,
    \* DAGOrchestrator
    node_status, dag_status, announced, todo, stack,
    handler,       \* where the called handler of each node's job stands
    dead,          \* the handlers that ended with the process
    \* EventLoop
    channel,       \* the job_counts of the notifications not yet received
    limit,         \* how many rows the loop's iteration may claim, 0 for none
    boot,          \* the bootstrap task: waiting, done
    spent          \* TRUE once this process lost a notification to a failed iteration

exec_vars == <<status, retry_count, claimed_by, k8s_job_name, locked, claims, history,
               loop, topics, pc, permits, on, seen, cluster, phase, pod_failures, dag_calls>>
dag_vars == <<node_status, dag_status, announced, todo, stack, handler>>
wake_vars == <<channel, limit, boot, spent>>
vars == <<exec_vars, dag_vars, dead, wake_vars>>

Roots == {n \in Nodes : ParentOf[n] = None}
HasContext(n) == n \in Roots \/ LinkChildren

Exec == INSTANCE JobExecutor WITH
    Jobs <- Nodes, Executors <- {Process}, Topics <- {Topic},
    TopicOf <- [n \in Nodes |-> Topic], TopicFilter <- [e \in {Process} |-> All],
    DagJobs <- {n \in Nodes : HasContext(n)}, EventDriven <- TRUE,
    CrashProne <- IF Mortal THEN {Process} ELSE {}

ASSUME OrchestrationAssumption ==
    /\ ParentOf \in [Nodes -> Nodes \cup {None}]
    /\ Order \in [Nodes -> Int]
    /\ \A m, n \in Nodes : ParentOf[m] = ParentOf[n] /\ Order[m] = Order[n] => m = n
    /\ Mode \in [Nodes -> {"parallel", "sequential", "limited"}]
    /\ Initial \in [Nodes -> {"pending", "waiting", "ready", "running"}]
    /\ \A n \in Nodes : Initial[n] \in {"ready", "running"} <=> ParentOf[n] = None
    /\ Rank \in [Nodes -> Int] /\ MaxRetries \in [Nodes -> Nat]
    /\ BatchSize \in Nat \ {0} /\ Permits \in Nat \ {0} /\ BackoffLimit \in Nat
    /\ MaxClaims \in Nat
    /\ {LinkChildren, CallsMayFail, Mortal} \subseteq BOOLEAN
    /\ None \notin Nodes \cup {Process} \cup Exec!Names \cup Exec!Runs

\* The job of a node as the orchestrator sees it.  The API service inserts the
\* roots' rows with the execution: until it does, they count as queued.
Job == [n \in Nodes |->
           CASE status[n] = "absent" -> IF n \in Roots THEN "queued" ELSE "none"
             [] status[n] = "completed" -> "succeeded"
             [] status[n] = "failed" -> "failed"
             [] OTHER -> "queued"]

Dag == INSTANCE DAGOrchestrator WITH job <- Job, pc <- handler, EventDriven <- TRUE

Init ==
    /\ Exec!Init
    /\ Dag!Init
    /\ dead = {}
    /\ channel = <<>>
    /\ limit = 0
    /\ boot = "waiting"
    /\ spent = FALSE

-----------------------------------------------------------------------------
(* The API service and the process.                                        *)

\* The rows of the roots are inserted.
Submit ==
    /\ Exec!Enqueue(Roots)
    /\ UNCHANGED <<dag_vars, dead, wake_vars>>

\* A while after the start, one notification if there are pending rows.
Bootstrap ==
    /\ loop[Process] # "off" /\ boot = "waiting"
    /\ boot' = "done"
    /\ channel' = IF \E n \in Nodes : status[n] = "pending"
                  THEN Append(channel, BatchSize)
                  ELSE channel
    /\ UNCHANGED <<exec_vars, dag_vars, dead, limit, spent>>

\* The process ends: tasks, handlers, the loop and the channel end with it.
Crash ==
    /\ Exec!Crash(Process)
    /\ dead' = dead \cup {n \in Nodes : handler[n] \notin {"none", "done", "error"}}
    /\ channel' = <<>>
    /\ limit' = 0
    /\ UNCHANGED <<dag_vars, boot, spent>>

Restart ==
    /\ Exec!Restart(Process)
    /\ boot' = "waiting"
    /\ spent' = FALSE
    /\ UNCHANGED <<dag_vars, dead, channel, limit>>

-----------------------------------------------------------------------------
(* The event loop.                                                         *)

\* run_event_loop receives a notification; handle_ready_jobs begins.
Receive ==
    /\ loop[Process] = "idle" /\ limit = 0
    /\ channel # <<>>
    /\ channel' = Tail(channel)
    /\ limit' = IF Head(channel) < BatchSize THEN Head(channel) ELSE BatchSize
    /\ UNCHANGED <<exec_vars, dag_vars, dead, boot, spent>>

\* The rest of handle_ready_jobs, within its limit.
Iterate ==
    /\ \/ limit > 0 /\ Exec!ReadTopics(Process)
       \/ /\ Exec!ClaimLock(Process)
          /\ LET claimable == Cardinality(Exec!Claimable(Process))
             IN  Cardinality(locked'[Process]) = IF claimable < limit THEN claimable ELSE limit
       \/ Exec!ClaimCommit(Process)
       \/ Exec!LoopDone(Process)
    /\ limit' = IF loop'[Process] \in {"claim", "locked"} THEN limit ELSE 0
    /\ UNCHANGED <<dag_vars, dead, channel, boot, spent>>

\* The topics query or the claim fails: the notification is spent.
IterationFails ==
    /\ \/ /\ CallsMayFail
          /\ loop[Process] = "idle" /\ limit > 0
          /\ UNCHANGED exec_vars
       \/ Exec!ClaimLost(Process)
       \/ Exec!ClaimAbort(Process)
    /\ limit' = 0
    /\ spent' = TRUE
    /\ UNCHANGED <<dag_vars, dead, channel, boot>>

LoopStep == Receive \/ Iterate \/ IterationFails

-----------------------------------------------------------------------------
(* The tasks and the handlers they call.                                   *)

\* Faulty: the handler is called as soon as the run is seen to have ended.
CalledEarly(n, from) ==
    CASE from = "mark_completed" -> [handler EXCEPT ![n] = "complete_node"]
      [] from = "mark_failed" -> [handler EXCEPT ![n] = "fail_node"]
      [] OTHER -> handler

\* Faulty: whichever way the job ended, it is taken for completed.
CalledAsCompleted(n, from) ==
    IF from \in {"dag_completed", "dag_failed"}
    THEN [handler EXCEPT ![n] = "complete_node"]
    ELSE handler

\* handle_job_completion or handle_job_failure, called by the monitor task that
\* stands at position from; the handler runs within that task.
Called(n, from) ==
    CASE from = "dag_completed" -> [handler EXCEPT ![n] = "complete_node"]
      [] from = "dag_failed" -> [handler EXCEPT ![n] = "fail_node"]
      [] OTHER -> handler

TaskStep(n, k) ==
    /\ Exec!TaskStep(n, k)
    /\ handler' = Called(n, pc[n][k])
    /\ UNCHANGED <<node_status, dag_status, announced, todo, stack, dead, wake_vars>>

\* The children whose rows the handler's next step inserts.
Inserted(n) ==
    CASE handler[n] = "enqueue_batch" -> {todo[n]}
      [] handler[n] = "create" -> {{c} : c \in Dag!First(todo[n])}
      [] OTHER -> {}


\* The notification that follows the last child made ready.
Notified(n) ==
    IF handler[n] = "mark_ready" /\ handler'[n] = "stats"
    THEN Append(channel, Cardinality(Dag!Children(n)))
    ELSE channel

HandlerStep(n) ==
    /\ n \notin dead
    /\ \/ Inserted(n) = {} /\ UNCHANGED exec_vars
       \/ \E S \in Inserted(n) : Exec!Enqueue(S)
    /\ Dag!HandlerStep(n)
    /\ channel' = Notified(n)
    /\ UNCHANGED <<dead, limit, boot, spent>>

HandlerDies(n) ==
    /\ n \notin dead
    /\ UNCHANGED exec_vars
    /\ Dag!HandlerDies(n)
    /\ UNCHANGED <<dead, wake_vars>>

ClusterStep ==
    /\ \/ \E n \in Nodes, k \in Exec!ClaimNumbers : Exec!ClusterStep(n, k)
       \/ \E name \in Exec!Names : Exec!Expire(name)
    /\ UNCHANGED <<dag_vars, dead, wake_vars>>

Next ==
    \/ Submit
    \/ Bootstrap
    \/ Crash
    \/ Restart
    \/ LoopStep
    \/ \E n \in Nodes, k \in Exec!ClaimNumbers : TaskStep(n, k)
    \/ \E n \in Nodes : HandlerStep(n) \/ HandlerDies(n)
    \/ ClusterStep

Spec == Init /\ [][Next]_vars

\* The runtime polls the loop, the bootstrap, the tasks and the handlers of a
\* process that lives, and a process that exited is started again by its
\* Deployment.  Nothing is assumed of the API, the pods and crashes.
Fairness ==
    /\ WF_vars(LoopStep)
    /\ WF_vars(Bootstrap)
    /\ WF_vars(Restart)
    /\ \A n \in Nodes, k \in Exec!ClaimNumbers : WF_vars(TaskStep(n, k))
    /\ \A n \in Nodes : WF_vars(HandlerStep(n))

FairSpec == Spec /\ Fairness

-----------------------------------------------------------------------------
(* Properties.                                                             *)

\* A handler that is still to be called stands before its first await.
Handler == [n \in Nodes |->
    IF handler[n] # "none" \/ ~HasContext(n)
    THEN handler[n]
    ELSE CASE status[n] = "completed" -> "complete_node"
           [] status[n] = "failed" -> "fail_node"
           [] OTHER -> "none"]

\* The executor is the environment DAGOrchestrator assumes: the job of a node
\* ends once, and then its outcome's handler is called once or never, whatever
\* the retries, time-outs, failing calls and deaths of the process.
Orchestrator == INSTANCE DAGOrchestrator WITH
    job <- Job, pc <- Handler, EventDriven <- TRUE
ImplementsOrchestrator == Orchestrator!Spec

\* The phase of the last of a job's runs.
LastOf(phases) ==
    LET run == {k \in Exec!ClaimNumbers : phases[k] # "none"}
    IN  IF run = {} THEN "idle"
        ELSE phases[CHOOSE k \in run : \A i \in run : i <= k]

\* What the cluster shows of a node.
Work == [n \in Nodes |-> LastOf(phase[n])]

\* On the cluster nothing of a node runs before its parent's run succeeded, and
\* nothing that succeeded runs again, although three components and a table lie
\* between the one run and the other.  With a backoffLimit it does not hold: the
\* monitor then requeues a job whose run may still succeed.
Run == INSTANCE DAGRun WITH work <- Work, NoParent <- None
ImplementsRun == Run!Spec

\* The same for every backoffLimit: whatever has a run on the cluster has a parent
\* one of whose runs succeeded.
WorkFollowsParents ==
    \A n \in Nodes \ Roots, k \in Exec!ClaimNumbers : phase[n][k] # "none" =>
        \E i \in Exec!ClaimNumbers : phase[ParentOf[n]][i] = "succeeded"

\* The verdict on the DAG is true of the cluster, not only of the table: it is
\* completed only if the last run of every node succeeded, and failed only if some
\* node has used up its retries and the last of its runs had a failed pod.
VerdictIsEarned ==
    LET last(n) == {k \in Exec!ClaimNumbers : k = claims[n]}
    IN  /\ dag_status = "completed" =>
               \A n \in Nodes : \E k \in last(n) : phase[n][k] = "succeeded"
        /\ dag_status = "failed" =>
               \E n \in Nodes : /\ retry_count[n] = MaxRetries[n]
                                /\ \E k \in last(n) : pod_failures[n][k] > 0

\* Where a handler stands whose node's children have not all got their rows.
Enqueueing == {"complete_node", "children", "enqueue_batch", "create", "mark_one"}

\* A completed node never stands in the table without its children and without a
\* cause: the task that completed it is still to call the handler or ended early,
\* or the handler is still to insert them, or ended early or with its process.
\* There is no other way to lose the children, whatever fails, dies or overlaps.
StallHasACause ==
    \A n \in Nodes : HasContext(n) /\ status[n] = "completed" =>
        \/ \A c \in Dag!Children(n) : status[c] # "absent"
        \/ \E k \in Exec!ClaimNumbers :
               k = claims[n] /\ pc[n][k] \in Exec!Epilogue \cup {"error", "crashed"}
        \/ handler[n] \in Enqueueing \cup {"error"}


-----------------------------------------------------------------------------
(* The inductive invariant behind the two refinements.                     *)

\* A handler is called for a node whose job carries its context and whose row
\* has ended, by the task of its last claim and as the last thing it does; for a
\* row that failed it is called because of the failure.  A call does call it.
CallInv ==
    /\ handler \in [Nodes -> Dag!PCs]
    /\ \A n \in Nodes :
        /\ handler[n] # "none" =>
               /\ HasContext(n)
               /\ status[n] \in Exec!Terminal
               /\ \A k \in Exec!ClaimNumbers : k = claims[n] => pc[n][k] = "done"
               /\ status[n] = "failed" => "failure" \in dag_calls[n]
        /\ dag_calls[n] # {} => handler[n] # "none"
        /\ \A k \in Exec!ClaimNumbers :
               pc[n][k] \in {"dag_completed", "dag_failed"} => HasContext(n)

=============================================================================
