--------------------------- MODULE DAGOrchestrator ---------------------------
(***************************************************************************)
(* The DAG orchestrator (crate dag-orchestrator) over the tables           *)
(* dag_executions, dag_node_executions and job_queue (crate database), for *)
(* one DAG execution whose template is a forest.                           *)
(*                                                                         *)
(* The executor's monitor tasks call handle_job_completion or              *)
(* handle_job_failure once for a job that ended, each from its own task.   *)
(* The handlers of different nodes interleave at every await; nothing      *)
(* serialises them.  pc[n] is the await at which the handler of node n's   *)
(* job stands.  Every await may fail, which ends the handler (`?`), and so *)
(* does the death of the executor: both leave what was written so far.     *)
(***************************************************************************)
EXTENDS Integers, Sequences, FiniteSets

CONSTANTS
    Nodes,         \* the nodes of the template
    ParentOf,      \* parent_node_id of each node
    Order,         \* the place of a node among its siblings (node_order)
    Mode,          \* execution_mode of each node
    Initial,       \* the status the API service creates each node with
    LinkChildren,  \* FALSE: the rows the orchestrator inserts carry no DAG
                   \* context, as enqueue_job and enqueue_jobs_batch have it;
                   \* TRUE: something outside this code adds it
    EventDriven,   \* TRUE: there is a channel for ReadyNotifications
    CallsMayFail,  \* TRUE if awaits may fail
    None           \* NULL

ASSUME DAGAssumption ==
    /\ ParentOf \in [Nodes -> Nodes \cup {None}]
    /\ Order \in [Nodes -> Int]
    /\ \A m, n \in Nodes : ParentOf[m] = ParentOf[n] /\ Order[m] = Order[n] => m = n
    /\ Mode \in [Nodes -> {"parallel", "sequential", "limited"}]
    /\ Initial \in [Nodes -> {"pending", "waiting", "ready", "running"}]
    /\ \A n \in Nodes : Initial[n] \in {"ready", "running"} <=> ParentOf[n] = None
    /\ LinkChildren \in BOOLEAN /\ EventDriven \in BOOLEAN
    /\ CallsMayFail \in BOOLEAN
    /\ None \notin Nodes

VARIABLES
    node_status,  \* dag_node_executions.status
    dag_status,   \* dag_executions.status
    job,          \* the job of each node: none, queued, succeeded, failed
    announced,    \* the nodes whose jobs a ReadyNotification has announced
    pc,           \* where the handler of each node's job stands
    todo,         \* children the handler's current loop has still to visit
    stack         \* to_process of mark_descendants_as_skipped

tables == <<node_status, dag_status, job, announced>>
vars == <<tables, pc, todo, stack>>

Children(n) == {c \in Nodes : ParentOf[c] = n}
Roots == Children(None)

\* ORDER BY node_order ASC.
First(S) == {c \in S : \A d \in S : Order[c] <= Order[d]}

\* is_dag_job, and a node execution id: the handlers do nothing otherwise.
HasContext(n) == n \in Roots \/ LinkChildren

Idle == {"pending", "waiting"}
AtWork == {"ready", "running"}
Settled == {"completed", "failed", "skipped"}

Completing == {"complete_node", "children", "enqueue_batch", "mark_ready",
               "create", "mark_one", "stats", "get_execution",
               "write_running", "write_completed", "write_failed"}
Failing == {"fail_node", "fail_dag", "skip", "skip_write"}
PCs == {"none", "done", "error"} \cup Completing \cup Failing

\* A DAG execution as the API service creates it: the jobs of the roots are in
\* the queue with their context, the other nodes wait for their parents.
Init ==
    /\ node_status = Initial
    /\ dag_status \in {"pending", "running"}
    /\ job = [n \in Nodes |-> IF n \in Roots THEN "queued" ELSE "none"]
    /\ announced = {}
    /\ pc = [n \in Nodes |-> "none"]
    /\ todo = [n \in Nodes |-> {}]
    /\ stack = [n \in Nodes |-> <<>>]

-----------------------------------------------------------------------------
(* The executor, as far as the orchestrator sees it (JobExecutor.tla): a    *)
(* job ends once, and its handler is called after that, or never.           *)

JobEnds(n, outcome, entry) ==
    /\ job[n] = "queued"
    /\ job' = [job EXCEPT ![n] = outcome]
    /\ pc' = [pc EXCEPT ![n] = IF HasContext(n) THEN entry ELSE @]
    /\ UNCHANGED <<node_status, dag_status, announced, todo, stack>>

JobSucceeds(n) == JobEnds(n, "succeeded", "complete_node")
JobFails(n) == JobEnds(n, "failed", "fail_node")

-----------------------------------------------------------------------------
(* Steps of a handler.                                                     *)

Step(n, from, to) ==
    /\ pc[n] = from
    /\ pc' = [pc EXCEPT ![n] = to]

\* An await that takes effect; its answer may be lost.
Call(n, from, to) == Step(n, from, to) \/ (CallsMayFail /\ Step(n, from, "error"))

\* update_node_execution_status and update_execution_status look at no status.
UpdateNode(n, s) ==
    /\ node_status' = [node_status EXCEPT ![n] = s]
    /\ UNCHANGED <<dag_status, job>>

UpdateDAG(s) ==
    /\ dag_status' = s
    /\ UNCHANGED <<node_status, job>>

\* enqueue_job and enqueue_jobs_batch, the latter in one transaction.
Enqueue(S) ==
    /\ job' = [n \in Nodes |-> IF n \in S THEN "queued" ELSE job[n]]
    /\ UNCHANGED <<node_status, dag_status>>

\* Faulty: the handler goes on when the update of the node failed.
CompleteNodeUnchecked(n) ==
    /\ Step(n, "complete_node", "children")
    /\ UpdateNode(n, "completed") \/ (CallsMayFail /\ UNCHANGED tables)
    /\ UNCHANGED <<announced, todo, stack>>

\* handle_job_completion.
CompleteNode(n) ==
    /\ Call(n, "complete_node", "children")
    /\ UpdateNode(n, "completed")
    /\ UNCHANGED <<announced, todo, stack>>

\* Faulty: the notification is sent before the jobs are in the queue.
StartChildrenAnnouncing(n) ==
    /\ Step(n, "children", IF Children(n) = {} THEN "stats" ELSE "enqueue_batch")
    /\ todo' = [todo EXCEPT ![n] = Children(n)]
    /\ announced' = announced \cup Children(n)
    /\ UNCHANGED <<node_status, dag_status, job, stack>>

\* The template is read; the first child's execution_mode is that of all.  With
\* `limited:n` the handler returns Err.
StartChildren(n) ==
    /\ IF Children(n) = {}
       THEN Step(n, "children", "stats")
       ELSE \E first \in First(Children(n)) :
                Step(n, "children",
                     CASE Mode[first] = "parallel" -> "enqueue_batch"
                       [] Mode[first] = "sequential" -> "create"
                       [] Mode[first] = "limited" -> "error")
    /\ todo' = [todo EXCEPT ![n] = Children(n)]
    /\ UNCHANGED <<tables, stack>>

\* Faulty: the jobs of all the nodes that wait, not of the children alone.
EnqueueBatchOfAll(n) ==
    /\ Call(n, "enqueue_batch", "mark_ready")
    /\ Enqueue({m \in Nodes : node_status[m] \in Idle})
    /\ UNCHANGED <<announced, todo, stack>>

\* ExecutionMode::Parallel: all the jobs, then the nodes one by one, then the
\* notification of the event loop.
EnqueueBatch(n) ==
    /\ Call(n, "enqueue_batch", "mark_ready")
    /\ Enqueue(todo[n])
    /\ UNCHANGED <<announced, todo, stack>>

\* Faulty: the last of several children is left out.
MarkReadyButLast(n) ==
    \E c \in First(todo[n]) :
        /\ Call(n, "mark_ready", IF Cardinality(todo[n]) <= 2 THEN "stats" ELSE "mark_ready")
        /\ UpdateNode(c, "ready")
        /\ todo' = [todo EXCEPT ![n] = @ \ {c}]
        /\ UNCHANGED <<announced, stack>>

MarkReady(n) ==
    \E c \in First(todo[n]) :
        /\ Call(n, "mark_ready", IF todo[n] = {c} THEN "stats" ELSE "mark_ready")
        /\ UpdateNode(c, "ready")
        /\ todo' = [todo EXCEPT ![n] = @ \ {c}]
        /\ announced' = IF EventDriven /\ pc'[n] = "stats"
                         THEN announced \cup Children(n)
                         ELSE announced
        /\ UNCHANGED stack

\* ExecutionMode::Sequential: create_job_for_node of each child in turn.
CreateJob(n) ==
    \E c \in First(todo[n]) :
        /\ Call(n, "create", "mark_one")
        /\ Enqueue({c})
        /\ UNCHANGED <<announced, todo, stack>>

MarkOne(n) ==
    \E c \in First(todo[n]) :
        /\ Call(n, "mark_one", IF todo[n] = {c} THEN "stats" ELSE "create")
        /\ UpdateNode(c, "ready")
        /\ todo' = [todo EXCEPT ![n] = @ \ {c}]
        /\ UNCHANGED <<announced, stack>>

\* Faulty: a DAG without a node that runs or waits is done.
VerdictIgnoringReady ==
    IF \E m \in Nodes : node_status[m] \in {"running", "pending", "waiting"}
    THEN "get_execution"
    ELSE IF \E m \in Nodes : node_status[m] = "failed"
         THEN "write_failed"
         ELSE "write_completed"

\* check_and_update_dag_status: the statistics do not count ready nodes.
Verdict ==
    IF \A m \in Nodes : node_status[m] \in Settled
    THEN IF \E m \in Nodes : node_status[m] = "failed"
         THEN "write_failed"
         ELSE "write_completed"
    ELSE IF \E m \in Nodes : node_status[m] \in {"running", "pending", "waiting"}
         THEN "get_execution"
         ELSE "done"

ReadStats(n) ==
    /\ Step(n, "stats", Verdict)
    /\ UNCHANGED <<tables, todo, stack>>

WriteVerdict(n) ==
    /\ \/ Call(n, "write_completed", "done") /\ UpdateDAG("completed")
       \/ Call(n, "write_failed", "done") /\ UpdateDAG("failed")
    /\ UNCHANGED <<announced, todo, stack>>

GetExecution(n) ==
    /\ Step(n, "get_execution",
            IF dag_status = "pending" THEN "write_running" ELSE "done")
    /\ UNCHANGED <<tables, todo, stack>>

WriteRunning(n) ==
    /\ Call(n, "write_running", "done")
    /\ UpdateDAG("running")
    /\ UNCHANGED <<announced, todo, stack>>

\* Faulty: the DAG is not failed with its node.
FailNodeAlone(n) ==
    /\ Call(n, "fail_node", "skip")
    /\ UpdateNode(n, "failed")
    /\ stack' = [stack EXCEPT ![n] = <<n>>]
    /\ UNCHANGED <<announced, todo>>

\* handle_job_failure.
FailNode(n) ==
    /\ Call(n, "fail_node", "fail_dag")
    /\ UpdateNode(n, "failed")
    /\ UNCHANGED <<announced, todo, stack>>

FailDAG(n) ==
    /\ Call(n, "fail_dag", "skip")
    /\ UpdateDAG("failed")
    /\ stack' = [stack EXCEPT ![n] = <<n>>]
    /\ UNCHANGED <<announced, todo>>

\* mark_descendants_as_skipped: the children of the node on top of the stack.
SkipPop(n) ==
    /\ todo[n] = {}
    /\ IF stack[n] = <<>>
       THEN /\ Step(n, "skip", "done")
            /\ UNCHANGED <<todo, stack>>
       ELSE /\ Step(n, "skip", "skip")
            /\ todo' = [todo EXCEPT ![n] = Children(Head(stack[n]))]
            /\ stack' = [stack EXCEPT ![n] = Tail(@)]
    /\ UNCHANGED tables

\* A child is read, and passed over unless it is pending or waiting.
SkipRead(n) ==
    \E c \in First(todo[n]) :
        /\ \/ /\ node_status[c] \in Idle
              /\ Step(n, "skip", "skip_write")
              /\ UNCHANGED todo
           \/ /\ node_status[c] \notin Idle
              /\ Step(n, "skip", "skip")
              /\ todo' = [todo EXCEPT ![n] = @ \ {c}]
        /\ UNCHANGED <<tables, stack>>

\* Faulty: the children of a skipped node are not visited.
SkipWriteShallow(n) ==
    \E c \in First(todo[n]) :
        /\ Call(n, "skip_write", "skip")
        /\ UpdateNode(c, "skipped")
        /\ todo' = [todo EXCEPT ![n] = @ \ {c}]
        /\ UNCHANGED <<announced, stack>>

SkipWrite(n) ==
    \E c \in First(todo[n]) :
        /\ Call(n, "skip_write", "skip")
        /\ UpdateNode(c, "skipped")
        /\ todo' = [todo EXCEPT ![n] = @ \ {c}]
        /\ stack' = [stack EXCEPT ![n] = <<c>> \o @]
        /\ UNCHANGED announced

\* An await that fails without effect, or the death of the executor.
HandlerDies(n) ==
    /\ CallsMayFail
    /\ pc[n] \in Completing \cup Failing
    /\ pc' = [pc EXCEPT ![n] = "error"]
    /\ UNCHANGED <<tables, todo, stack>>

HandlerStep(n) ==
    \/ CompleteNode(n)
    \/ StartChildren(n)
    \/ EnqueueBatch(n)
    \/ MarkReady(n)
    \/ CreateJob(n)
    \/ MarkOne(n)
    \/ ReadStats(n)
    \/ WriteVerdict(n)
    \/ GetExecution(n)
    \/ WriteRunning(n)
    \/ FailNode(n)
    \/ FailDAG(n)
    \/ SkipPop(n)
    \/ SkipRead(n)
    \/ SkipWrite(n)

Next ==
    \E n \in Nodes :
        \/ JobSucceeds(n)
        \/ JobFails(n)
        \/ HandlerStep(n)
        \/ HandlerDies(n)

Spec == Init /\ [][Next]_vars

\* The runtime polls every handler that was called.  That a job ends is nobody's
\* duty.  A handler that is never called is one that dies at its first await, so
\* runs of FairSpec with CallsMayFail = FALSE are about jobs whose end is
\* reported (JobExecutor's FailureReachesDag: not every one is).
FairSpec == Spec /\ \A n \in Nodes : WF_vars(HandlerStep(n))

-----------------------------------------------------------------------------
(* Properties.                                                             *)

\* Every variable has its type; a handler visits only children of the nodes it
\* works on.
TypeOK ==
    /\ node_status \in [Nodes -> Idle \cup AtWork \cup Settled]
    /\ dag_status \in {"pending", "running", "completed", "failed"}
    /\ job \in [Nodes -> {"none", "queued", "succeeded", "failed"}]
    /\ announced \in SUBSET Nodes
    /\ pc \in [Nodes -> PCs]
    /\ todo \in [Nodes -> SUBSET Nodes]
    /\ stack \in [Nodes -> Seq(Nodes)]

\* The nodes live the life DAGLifecycle promises: a node starts only after its
\* parent completed, is skipped only if its parent failed or was skipped, and
\* never changes once it is settled.
Lifecycle == INSTANCE DAGLifecycle WITH NoParent <- None
ImplementsLifecycle == Lifecycle!Spec

\* A job is enqueued for a node only after the job of its parent succeeded, and
\* the handlers never skip a node that has a job.
JobsFollowParents ==
    \A n \in Nodes : job[n] # "none" =>
        /\ n \notin Roots => job[ParentOf[n]] = "succeeded"
        /\ node_status[n] # "skipped"

\* The children of a completed node all have their jobs and are at work, unless
\* the handler of its job is on the way there or ended early with an error.
\* enqueue_job and the updates of the nodes are separate awaits.
ChildrenStartedOrLost ==
    \A n \in Nodes : node_status[n] = "completed" =>
        \/ \A c \in Children(n) : job[c] # "none" /\ node_status[c] \notin Idle
        \/ pc[n] \in {"children", "enqueue_batch", "mark_ready", "create",
                      "mark_one", "error"}

\* A failure reaches every descendant: a child of a failed or skipped node is
\* itself skipped, unless a failure handler is still at it or ended early.
SkippedOrLost ==
    \A c \in Nodes :
        /\ ParentOf[c] \in Nodes
        /\ node_status[ParentOf[c]] \in {"failed", "skipped"}
        /\ node_status[c] # "skipped"
        => \E n \in Nodes : pc[n] \in (Failing \ {"fail_node"}) \cup {"error"}

\* A notification never overtakes its jobs: what it announces is in the queue
\* and committed, so the event loop's claim can see it.
AnnouncedAreQueued == \A n \in announced : job[n] # "none"

\* The verdict on a DAG is true whatever the interleaving of the handlers: it
\* is reported completed only if every node's job succeeded, and failed only if
\* some node's job failed.
VerdictIsTrue ==
    /\ dag_status = "completed" => \A n \in Nodes : job[n] = "succeeded"
    /\ dag_status = "failed" => \E n \in Nodes : job[n] = "failed"

\* The end of a node is felt below it: its children are put to work or skipped,
\* and so are, after a failure, the children of these, all the way down, unless
\* some handler ended early.  No handler ever waits for another.
EndsPropagate ==
    <>[](\A c \in Nodes \ Roots : node_status[ParentOf[c]] \in Settled =>
            node_status[c] \notin Idle \/ \E n \in Nodes : pc[n] = "error")

\* A DAG that was created as running gets its verdict, and keeps it, once all its
\* nodes have settled for good, whichever of their handlers is the last; unless
\* one of the handlers ended with an error.
VerdictComes ==
    dag_status = "running" =>
        \/ <>[](dag_status \in {"completed", "failed"})
        \/ []<>(\E n \in Nodes : node_status[n] \notin Settled \/ pc[n] = "error")

VerdictStands == dag_status \in {"completed", "failed"} => dag_status' = dag_status

\* No verdict is overwritten by the other one, although no write looks at what is
\* there and the handlers decide on what they read earlier: only running, written
\* by a handler that saw the DAG pending, takes the place of a verdict.
VerdictsAgree ==
    [][VerdictStands \/ (dag_status' = "running" /\ \E n \in Nodes : pc[n] = "write_running")]_vars

-----------------------------------------------------------------------------
(* The inductive invariant behind the safety properties.                   *)

\* The nodes on a handler's stack.
OnStack(n) == {stack[n][i] : i \in 1..Len(stack[n])}

\* A node whose job failed or will never exist.
Doomed(n) == job[n] = "failed" \/ node_status[n] = "skipped"

\* A handler is called for a job that has ended, the one its outcome asks for.
JobInv ==
    \A n \in Nodes :
        /\ job[n] \in {"none", "queued"} => pc[n] = "none"
        /\ pc[n] \in Completing => job[n] = "succeeded"
        /\ pc[n] \in Failing => job[n] = "failed"
        /\ job[n] # "none" /\ n \notin Roots => job[ParentOf[n]] = "succeeded"

\* What the status of a node says of its job, and of its job's handler.
NodeInv ==
    \A n \in Nodes :
        /\ node_status[n] \in AtWork => job[n] # "none"
        /\ node_status[n] = "completed" =>
               job[n] = "succeeded" /\ pc[n] \notin {"none", "complete_node"}
        /\ node_status[n] = "failed" =>
               job[n] = "failed" /\ pc[n] \notin {"none", "fail_node"}
        /\ node_status[n] = "skipped" =>
               job[n] = "none" /\ ParentOf[n] \in Nodes /\ Doomed(ParentOf[n])

\* The positions of a completion handler that has still to enqueue all the
\* children, that is visiting them, and that has visited them.
Before == {"none", "complete_node", "children", "enqueue_batch"}
Visiting == {"mark_ready", "create", "mark_one"}
After == {"stats", "get_execution", "write_running", "write_completed", "write_failed"}

\* The children of a node get their jobs from its handler, one after the other
\* or all at once, and only once.
ChildInv ==
    \A n \in Nodes : \A c \in Children(n) :
        /\ pc[n] \in Before \cup Failing => job[c] = "none"
        /\ pc[n] = "mark_ready" => job[c] # "none"
        /\ pc[n] = "create" /\ c \in todo[n] => job[c] = "none"
        /\ pc[n] = "mark_one" /\ c \in todo[n] =>
               (job[c] = "none" <=> c \notin First(todo[n]))
        /\ \/ pc[n] \in Visiting /\ c \notin todo[n]
           \/ pc[n] \in After
           \/ pc[n] = "done" /\ job[n] = "succeeded"
           => job[c] # "none" /\ node_status[c] \notin Idle

\* What a handler has still to visit.
TodoInv ==
    \A n \in Nodes :
        /\ \A c, d \in todo[n] : ParentOf[c] = ParentOf[d]
        /\ pc[n] \in {"none", "fail_node", "fail_dag"} => todo[n] = {}
        /\ pc[n] = "enqueue_batch" => todo[n] = Children(n)
        /\ pc[n] \in Visiting => todo[n] \subseteq Children(n)
        /\ pc[n] \in {"skip", "skip_write"} =>
               /\ \A c \in todo[n] : ParentOf[c] \in Nodes /\ Doomed(ParentOf[c])
               /\ \A m \in OnStack(n) : Doomed(m)

\* A child of a failed or skipped node that is not yet skipped is in front of
\* some handler, unless a handler ended early.
SkipInv ==
    \A c \in Nodes :
        /\ ParentOf[c] \in Nodes
        /\ node_status[ParentOf[c]] \in {"failed", "skipped"}
        /\ node_status[c] # "skipped"
        => \E n \in Nodes :
               \/ pc[n] = "error"
               \/ pc[n] = "fail_dag" /\ n = ParentOf[c]
               \/ /\ pc[n] \in {"skip", "skip_write"}
                  /\ c \in todo[n] \/ ParentOf[c] \in OnStack(n)

\* A verdict that is written, or decided on, is true for good, and the bad one comes
\* from a failure that was reported.
VerdictInv ==
    /\ dag_status = "completed" \/ (\E n \in Nodes : pc[n] = "write_completed") =>
           \A n \in Nodes : job[n] = "succeeded"
    /\ \/ dag_status = "failed"
       \/ \E n \in Nodes : pc[n] = "write_failed"
       \/ \E n \in Nodes : node_status[n] = "skipped"
       => \E n \in Nodes : job[n] = "failed" /\ pc[n] \notin {"none", "fail_node"}

\* Without context only the roots have handlers, and nobody writes the status
\* of a node but the handler above it.
RootInv ==
    ~LinkChildren => \A n \in Nodes :
        /\ pc[n] # "none" => n \in Roots
        /\ n \in Roots /\ pc[n] \in {"none", "complete_node", "fail_node"} =>
               node_status[n] \in AtWork
        /\ pc[n] \in Completing \ {"complete_node"} => node_status[n] = "completed"
        /\ pc[n] = "fail_dag" => node_status[n] = "failed"
        /\ pc[n] \in Visiting => \A c \in todo[n] : node_status[c] \in Idle
        /\ pc[n] \in {"skip", "skip_write"} =>
               /\ \A c \in todo[n] : node_status[ParentOf[c]] \in {"failed", "skipped"}
               /\ \A m \in OnStack(n) : node_status[m] \in {"failed", "skipped"}
        /\ pc[n] = "skip_write" =>
               \A c \in First(todo[n]) : node_status[c] \in Idle \cup {"skipped"}

\* The conjunction is preserved by every step: the jobs, the statuses and what
\* every handler has still to do agree in every reachable state.
IInv ==
    /\ TypeOK
    /\ JobInv
    /\ NodeInv
    /\ ChildInv
    /\ TodoInv
    /\ SkipInv
    /\ VerdictInv
    /\ RootInv
    /\ AnnouncedAreQueued

-----------------------------------------------------------------------------
(* What the repository says of the orchestrator and the code does not do.  *)

\* "DAG is done": a verdict, once written, stands.  A handler that found the
\* DAG pending before another one wrote the verdict overwrites it with running.
\* Only a DAG created as pending is exposed to it.
VerdictIsFinal == [][VerdictStands]_vars

\* "Creates jobs for child nodes when parents complete" (README.md:46): a node
\* gets its job once the job of its parent has succeeded, as far down as the DAG
\* goes.  The rows of the children carry no DAG context, so nobody is called when
\* such a job completes, and the nodes below it never get theirs.
ChildrenGetJobs ==
    \A n \in Nodes \ Roots : job[ParentOf[n]] = "succeeded" ~> job[n] # "none"

\* What the code does instead: without links jobs are created for roots and their
\* children, and never for a node below them, however the jobs end.
TwoGenerations ==
    ~LinkChildren =>
        \A c \in Nodes \ Roots : job[c] # "none" => ParentOf[c] \in Roots

=============================================================================
