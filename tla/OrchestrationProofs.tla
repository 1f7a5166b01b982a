------------------------- MODULE OrchestrationProofs -------------------------
(***************************************************************************)
(* Proofs about the composition: whatever the executor proves of its rows  *)
(* and the orchestrator of its handlers holds of the whole.                *)
(***************************************************************************)
EXTENDS Orchestration, TLAPS

ExecT == INSTANCE JobExecutorProofs WITH
    Jobs <- Nodes, Executors <- {Process}, Topics <- {Topic},
    TopicOf <- [n \in Nodes |-> Topic], TopicFilter <- [e \in {Process} |-> All],
    DagJobs <- {n \in Nodes : HasContext(n)}, EventDriven <- TRUE,
    CrashProne <- IF Mortal THEN {Process} ELSE {}

OrchT == INSTANCE DAGOrchestratorProofs WITH job <- Job, pc <- Handler, EventDriven <- TRUE

-----------------------------------------------------------------------------
(* The constants of the composition are constants of its components.       *)

\* The executor's assumption about its constants holds of the composition's.
LEMMA ExecConstants == ExecT!ConstantsAssumption
BY OrchestrationAssumption DEF ExecT!ConstantsAssumption, Exec!Names, Exec!Runs,
    ExecT!Names, ExecT!Runs, Exec!ClaimNumbers, ExecT!ClaimNumbers

\* So does the orchestrator's.
LEMMA DagConstants == OrchT!DAGAssumption
BY OrchestrationAssumption DEF OrchT!DAGAssumption

-----------------------------------------------------------------------------
(* Every step of the composition is a step of the executor or none of it.  *)

\* The tasks of the composition are those of the proofs.
LEMMA ExecTask ==
    ASSUME NEW n \in Nodes, NEW k \in Exec!ClaimNumbers, Exec!TaskStep(n, k)
    PROVE  k \in ExecT!ClaimNumbers /\ ExecT!TaskStep(n, k)
<1> USE DEF
        Exec!ClaimNumbers, ExecT!ClaimNumbers, Exec!Move, ExecT!Move, Exec!Release,
        ExecT!Release, Exec!Step, ExecT!Step, Exec!Call, ExecT!Call, Exec!Record,
        ExecT!Record, Exec!JobName, ExecT!JobName,
        Exec!ShouldRetry, ExecT!ShouldRetry, Exec!UpdateStatus, ExecT!UpdateStatus,
        Exec!UpdateRunning, ExecT!UpdateRunning, Exec!RequeueRow, ExecT!RequeueRow,
        Exec!CallDag, ExecT!CallDag, Exec!Fallible, ExecT!Fallible, Exec!Executing,
        ExecT!Executing, Exec!Monitoring, ExecT!Monitoring, Exec!Epilogue,
        ExecT!Epilogue, Exec!row, ExecT!row, Exec!claim_vars, ExecT!claim_vars,
        Exec!cluster_vars, ExecT!cluster_vars
<1>1. Exec!Spawn(n, k) => ExecT!Spawn(n, k)
    BY DEF Exec!Spawn, ExecT!Spawn
<1>2. Exec!HistClaimed(n, k) => ExecT!HistClaimed(n, k)
    BY DEF Exec!HistClaimed, ExecT!HistClaimed
<1>3. Exec!GetImage(n, k) => ExecT!GetImage(n, k)
    BY DEF Exec!GetImage, ExecT!GetImage
<1>4. Exec!CreateJob(n, k) => ExecT!CreateJob(n, k)
    BY DEF Exec!CreateJob, ExecT!CreateJob
<1>5. Exec!CreateConflict(n, k) => ExecT!CreateConflict(n, k)
    BY DEF Exec!CreateConflict, ExecT!CreateConflict
<1>6. Exec!MarkRunning(n, k) => ExecT!MarkRunning(n, k)
    BY DEF Exec!MarkRunning, ExecT!MarkRunning
<1>7. Exec!HistRunning(n, k) => ExecT!HistRunning(n, k)
    BY DEF Exec!HistRunning, ExecT!HistRunning
<1>8. Exec!PollStatus(n, k) => ExecT!PollStatus(n, k)
    BY DEF Exec!PollStatus, ExecT!PollStatus
<1>9. Exec!MonitorTimeout(n, k) => ExecT!MonitorTimeout(n, k)
    BY DEF Exec!MonitorTimeout, ExecT!MonitorTimeout
<1>10. Exec!MarkCompleted(n, k) => ExecT!MarkCompleted(n, k)
    BY DEF Exec!MarkCompleted, ExecT!MarkCompleted
<1>11. Exec!HistCompleted(n, k) => ExecT!HistCompleted(n, k)
    BY DEF Exec!HistCompleted, ExecT!HistCompleted
<1>12. Exec!WaitForOutputs(n, k) => ExecT!WaitForOutputs(n, k)
    BY DEF Exec!WaitForOutputs, ExecT!WaitForOutputs
<1>13. Exec!DagCompleted(n, k) => ExecT!DagCompleted(n, k)
    BY DEF Exec!DagCompleted, ExecT!DagCompleted
<1>14. Exec!Requeue(n, k) => ExecT!Requeue(n, k)
    BY DEF Exec!Requeue, ExecT!Requeue
<1>15. Exec!HistRequeued(n, k) => ExecT!HistRequeued(n, k)
    BY DEF Exec!HistRequeued, ExecT!HistRequeued
<1>16. Exec!MarkFailed(n, k) => ExecT!MarkFailed(n, k)
    BY DEF Exec!MarkFailed, ExecT!MarkFailed
<1>17. Exec!HistFailed(n, k) => ExecT!HistFailed(n, k)
    BY DEF Exec!HistFailed, ExecT!HistFailed
<1>18. Exec!DagFailed(n, k) => ExecT!DagFailed(n, k)
    BY DEF Exec!DagFailed, ExecT!DagFailed
<1>19. Exec!MarkTimeout(n, k) => ExecT!MarkTimeout(n, k)
    BY DEF Exec!MarkTimeout, ExecT!MarkTimeout
<1>20. Exec!HistTimeout(n, k) => ExecT!HistTimeout(n, k)
    BY DEF Exec!HistTimeout, ExecT!HistTimeout
<1>21. Exec!CallError(n, k) => ExecT!CallError(n, k)
    BY DEF Exec!CallError, ExecT!CallError
<1> QED BY <1>1, <1>2, <1>3, <1>4, <1>5, <1>6, <1>7, <1>8, <1>9, <1>10, <1>11, <1>12,
           <1>13, <1>14, <1>15, <1>16, <1>17, <1>18, <1>19, <1>20, <1>21
           DEF Exec!TaskStep, ExecT!TaskStep

\* So are the loop, its deaths and its restarts,
LEMMA ExecLoop ==
    ASSUME Exec!LoopStep(Process) \/ Exec!Crash(Process) \/ Exec!Restart(Process)
    PROVE  ExecT!LoopStep(Process) \/ ExecT!Crash(Process) \/ ExecT!Restart(Process)
<1> USE DEF
        Exec!ClaimNumbers, ExecT!ClaimNumbers, Exec!Claimable, ExecT!Claimable,
        Exec!Limits, ExecT!Limits, Exec!FirstRows, ExecT!FirstRows, Exec!ClaimRows,
        ExecT!ClaimRows, Exec!Unlock, ExecT!Unlock, Exec!EffectiveTopics,
        ExecT!EffectiveTopics, Exec!Live, ExecT!Live, Exec!Executing,
        ExecT!Executing, Exec!Monitoring, ExecT!Monitoring, Exec!Epilogue,
        ExecT!Epilogue, Exec!row, ExecT!row, Exec!claim_vars, ExecT!claim_vars,
        Exec!cluster_vars, ExecT!cluster_vars
<1>1. Exec!ReadTopics(Process) => ExecT!ReadTopics(Process)
    BY DEF Exec!ReadTopics, ExecT!ReadTopics
<1>2. Exec!ClaimLock(Process) => ExecT!ClaimLock(Process)
    <2>1. \A S : Exec!Cardinality(S) = ExecT!Cardinality(S)
        BY DEF Exec!Cardinality, ExecT!Cardinality
    <2> QED BY <2>1 DEF Exec!ClaimLock, ExecT!ClaimLock
<1>3. Exec!ClaimCommit(Process) => ExecT!ClaimCommit(Process)
    BY DEF Exec!ClaimCommit, ExecT!ClaimCommit
<1>4. Exec!ClaimLost(Process) => ExecT!ClaimLost(Process)
    BY DEF Exec!ClaimLost, ExecT!ClaimLost
<1>5. Exec!ClaimAbort(Process) => ExecT!ClaimAbort(Process)
    BY DEF Exec!ClaimAbort, ExecT!ClaimAbort
<1>6. Exec!Crash(Process) => ExecT!Crash(Process)
    BY DEF Exec!Crash, ExecT!Crash
<1>7. Exec!Restart(Process) => ExecT!Restart(Process)
    BY DEF Exec!Restart, ExecT!Restart
<1>8. Exec!LoopDone(Process) => ExecT!LoopDone(Process)
    BY DEF Exec!LoopDone, ExecT!LoopDone, Exec!TasksAt, ExecT!TasksAt
<1> QED BY <1>1, <1>2, <1>3, <1>4, <1>5, <1>6, <1>7, <1>8
           DEF Exec!LoopStep, ExecT!LoopStep

\* the insertion of rows,
LEMMA ExecEnqueue ==
    ASSUME NEW S, Exec!Enqueue(S)
    PROVE  ExecT!Enqueue(S)
BY DEF Exec!Enqueue, ExecT!Enqueue, Exec!claim_vars, ExecT!claim_vars, Exec!cluster_vars,
       ExecT!cluster_vars

\* and the cluster.
LEMMA ExecCluster ==
    ASSUME ClusterStep
    PROVE  \/ \E n \in Nodes, k \in ExecT!ClaimNumbers : ExecT!ClusterStep(n, k)
           \/ \E name \in ExecT!Names : ExecT!Expire(name)
<1>1. ASSUME NEW n \in Nodes, NEW k \in Exec!ClaimNumbers, Exec!ClusterStep(n, k)
      PROVE  ExecT!ClusterStep(n, k)
    BY <1>1 DEF Exec!ClusterStep, ExecT!ClusterStep, Exec!RunSucceeds, ExecT!RunSucceeds,
                Exec!PodFails, ExecT!PodFails, Exec!row, ExecT!row, Exec!claim_vars,
                ExecT!claim_vars
<1>2. ASSUME NEW name, Exec!Expire(name) PROVE ExecT!Expire(name)
    BY <1>2 DEF Exec!Expire, ExecT!Expire, Exec!row, ExecT!row, Exec!claim_vars,
                ExecT!claim_vars
<1>3. Exec!ClaimNumbers = ExecT!ClaimNumbers /\ Exec!Names = ExecT!Names
    BY DEF Exec!ClaimNumbers, ExecT!ClaimNumbers, Exec!Names, ExecT!Names
<1> QED BY <1>1, <1>2, <1>3 DEF ClusterStep

\* Whatever the process, the API or the cluster does is a step of the executor, a
\* handler's insertions included.
LEMMA ExecStep ==
    ASSUME todo \in [Nodes -> SUBSET Nodes], [Next]_vars
    PROVE  [ExecT!Next]_(ExecT!vars)
<1>same. UNCHANGED exec_vars => UNCHANGED ExecT!vars
    BY DEF exec_vars, ExecT!vars, ExecT!row, ExecT!claim_vars, ExecT!cluster_vars
<1>enqueue. ASSUME NEW S \in SUBSET Nodes, Exec!Enqueue(S) PROVE ExecT!Next
    BY <1>enqueue, ExecEnqueue DEF ExecT!Next
<1>1. CASE UNCHANGED vars
    BY <1>1, <1>same DEF vars
<1>2. CASE Submit
    BY <1>2, <1>enqueue DEF Submit, Roots
<1>3. CASE Bootstrap
    BY <1>3, <1>same DEF Bootstrap
<1>4. CASE Crash \/ Restart \/ LoopStep
    <2>1. CASE Crash \/ Restart \/ Iterate
        <3>1. Exec!LoopStep(Process) \/ Exec!Crash(Process) \/ Exec!Restart(Process)
            BY <2>1 DEF Crash, Restart, Iterate, Exec!LoopStep
        <3> QED BY <3>1, ExecLoop DEF ExecT!Next
    <2>2. CASE IterationFails
        <3>1. UNCHANGED exec_vars \/ Exec!LoopStep(Process)
            BY <2>2 DEF IterationFails, Exec!LoopStep
        <3> QED BY <3>1, <1>same, ExecLoop DEF ExecT!Next
    <2>3. CASE Receive
        BY <2>3, <1>same DEF Receive
    <2> QED BY <1>4, <2>1, <2>2, <2>3 DEF LoopStep
<1>5. ASSUME NEW n \in Nodes, NEW k \in Exec!ClaimNumbers, TaskStep(n, k)
      PROVE  ExecT!Next
    BY <1>5, ExecTask DEF TaskStep, ExecT!Next
<1>6. ASSUME NEW n \in Nodes, HandlerStep(n) \/ HandlerDies(n)
      PROVE  [ExecT!Next]_(ExecT!vars)
    <2>1. \A S \in Inserted(n) : S \subseteq Nodes
        BY DEF Inserted, Dag!First
    <2>2. UNCHANGED exec_vars \/ \E S \in Inserted(n) : Exec!Enqueue(S)
        BY <1>6 DEF HandlerStep, HandlerDies
    <2> QED BY <2>1, <2>2, <1>same, <1>enqueue
<1>7. CASE ClusterStep
    BY <1>7, ExecCluster DEF ExecT!Next
<1> QED BY <1>1, <1>2, <1>3, <1>4, <1>5, <1>6, <1>7 DEF Next

-----------------------------------------------------------------------------
(* Every step of the composition is a step of the orchestrator or none of   *)
(* it, seen with handlers that are still to be called.                      *)

\* The statuses of a row that is in the queue and has not ended.
Unended == {"pending", "claimed", "running"}

\* Of the rows, at most some are inserted.
Inserting ==
    \A n \in Nodes : \/ status'[n] = status[n]
                     \/ status[n] = "absent" /\ status'[n] = "pending"

\* A step that moves rows between these, or inserts roots, and moves no handler is
\* nothing to the orchestrator.
LEMMA SameView ==
    ASSUME UNCHANGED handler,
           \A n \in Nodes :
               \/ status'[n] = status[n]
               \/ {status[n], status'[n]} \subseteq Unended
               \/ n \in Roots /\ status[n] = "absent" /\ status'[n] = "pending"
    PROVE  Job' = Job /\ Handler' = Handler
<1>1. Job' = Job
    BY DEF Job, Unended
<1>2. Handler' = Handler
    BY DEF Handler, Unended
<1> QED BY <1>1, <1>2

\* A handler that was called is seen where it stands.
LEMMA HandlerView ==
    ASSUME handler \in [Nodes -> Dag!PCs], NEW n \in Nodes, NEW to,
           handler[n] # "none", to # "none", handler' = [handler EXCEPT ![n] = to],
           Inserting
    PROVE  Handler[n] = handler[n] /\ Handler' = [Handler EXCEPT ![n] = to]
<1>1. Handler[n] = handler[n]
    BY DEF Handler
<1>2. handler'[n] = to /\ \A m \in Nodes \ {n} : handler'[m] = handler[m]
    OBVIOUS
<1>3. \A m \in Nodes : Handler'[m] = [Handler EXCEPT ![n] = to][m]
    BY <1>2 DEF Handler, Inserting
<1> QED BY <1>1, <1>3 DEF Handler

\* A handler's step that at most inserts rows is the orchestrator's own.
LEMMA HandlerStepIsDag ==
    ASSUME handler \in [Nodes -> Dag!PCs], NEW n \in Nodes, Dag!HandlerStep(n),
           Inserting
    PROVE  OrchT!HandlerStep(n)
<1>step. ASSUME NEW from, NEW to, Dag!Step(n, from, to), from # "none", to # "none"
         PROVE  OrchT!Step(n, from, to) /\ Handler'[n] = to /\ handler'[n] = to
    <2>1. Handler[n] = handler[n] /\ Handler' = [Handler EXCEPT ![n] = to]
        BY <1>step, HandlerView DEF Dag!Step
    <2> QED BY <1>step, <2>1 DEF Dag!Step, OrchT!Step, Handler
<1>call. ASSUME NEW from, NEW to, Dag!Call(n, from, to), from # "none", to # "none"
         PROVE  OrchT!Call(n, from, to) /\ Handler'[n] = handler'[n]
    BY <1>call, <1>step DEF Dag!Call, OrchT!Call
<1>1. CASE Dag!CompleteNode(n)
    BY <1>1, <1>step, <1>call DEF OrchT!HandlerStep,
        Dag!CompleteNode, OrchT!CompleteNode, Dag!UpdateNode, OrchT!UpdateNode
<1>2. CASE Dag!StartChildren(n)
    <2>1. Dag!Children(n) = OrchT!Children(n) /\ Dag!First(Dag!Children(n)) \subseteq Nodes
        BY DEF Dag!Children, OrchT!Children, Dag!First
    <2>2. CASE Dag!Children(n) = {}
        BY <1>2, <1>step, <2>1, <2>2 DEF OrchT!HandlerStep, Dag!StartChildren,
               OrchT!StartChildren, Dag!tables, OrchT!tables
    <2>3. CASE Dag!Children(n) # {}
        <3> DEFINE To(c) == CASE Mode[c] = "parallel" -> "enqueue_batch"
                              [] Mode[c] = "sequential" -> "create"
                              [] Mode[c] = "limited" -> "error"
        <3>1. \A c \in Nodes : To(c) # "none"
            BY DagConstants DEF OrchT!DAGAssumption
        <3>2. PICK c \in Dag!First(Dag!Children(n)) : Dag!Step(n, "children", To(c))
            BY <1>2, <2>3 DEF Dag!StartChildren
        <3>3. OrchT!Step(n, "children", To(c))
            BY <1>step, <2>1, <3>1, <3>2
        <3>4. c \in OrchT!First(OrchT!Children(n))
            BY <2>1, <3>2 DEF Dag!First, OrchT!First
        <3> HIDE DEF To
        <3> QED BY <1>2, <2>1, <2>3, <3>3, <3>4 DEF OrchT!HandlerStep, Dag!StartChildren,
                   OrchT!StartChildren, Dag!tables, OrchT!tables, To
    <2> QED BY <2>2, <2>3
<1>3. CASE Dag!EnqueueBatch(n)
    BY <1>3, <1>step, <1>call DEF OrchT!HandlerStep,
        Dag!EnqueueBatch, OrchT!EnqueueBatch, Dag!Enqueue, OrchT!Enqueue
<1>4. CASE Dag!MarkReady(n)
    BY <1>4, <1>step, <1>call DEF OrchT!HandlerStep,
        Dag!MarkReady, OrchT!MarkReady, Dag!First, OrchT!First, Dag!Children,
        OrchT!Children, Dag!UpdateNode, OrchT!UpdateNode
<1>5. CASE Dag!CreateJob(n)
    BY <1>5, <1>step, <1>call DEF OrchT!HandlerStep,
        Dag!CreateJob, OrchT!CreateJob, Dag!First, OrchT!First, Dag!Enqueue,
        OrchT!Enqueue
<1>6. CASE Dag!MarkOne(n)
    BY <1>6, <1>step, <1>call DEF OrchT!HandlerStep,
        Dag!MarkOne, OrchT!MarkOne, Dag!First, OrchT!First, Dag!UpdateNode,
        OrchT!UpdateNode
<1>7. CASE Dag!ReadStats(n)
    BY <1>7, <1>step, <1>call DEF OrchT!HandlerStep,
        Dag!ReadStats, OrchT!ReadStats, Dag!Verdict, OrchT!Verdict, Dag!Settled,
        OrchT!Settled, Dag!tables, OrchT!tables
<1>8. CASE Dag!WriteVerdict(n)
    BY <1>8, <1>step, <1>call DEF OrchT!HandlerStep,
        Dag!WriteVerdict, OrchT!WriteVerdict, Dag!UpdateDAG, OrchT!UpdateDAG
<1>9. CASE Dag!GetExecution(n)
    BY <1>9, <1>step, <1>call DEF OrchT!HandlerStep,
        Dag!GetExecution, OrchT!GetExecution, Dag!tables, OrchT!tables
<1>10. CASE Dag!WriteRunning(n)
    BY <1>10, <1>step, <1>call DEF OrchT!HandlerStep,
        Dag!WriteRunning, OrchT!WriteRunning, Dag!UpdateDAG, OrchT!UpdateDAG
<1>11. CASE Dag!FailNode(n)
    BY <1>11, <1>step, <1>call DEF OrchT!HandlerStep,
        Dag!FailNode, OrchT!FailNode, Dag!UpdateNode, OrchT!UpdateNode
<1>12. CASE Dag!FailDAG(n)
    BY <1>12, <1>step, <1>call DEF OrchT!HandlerStep,
        Dag!FailDAG, OrchT!FailDAG, Dag!UpdateDAG, OrchT!UpdateDAG
<1>13. CASE Dag!SkipPop(n)
    BY <1>13, <1>step, <1>call DEF OrchT!HandlerStep,
        Dag!SkipPop, OrchT!SkipPop, Dag!Children, OrchT!Children, Dag!tables,
        OrchT!tables
<1>14. CASE Dag!SkipRead(n)
    BY <1>14, <1>step, <1>call DEF OrchT!HandlerStep,
        Dag!SkipRead, OrchT!SkipRead, Dag!First, OrchT!First, Dag!Idle, OrchT!Idle,
        Dag!tables, OrchT!tables
<1>15. CASE Dag!SkipWrite(n)
    BY <1>15, <1>step, <1>call DEF OrchT!HandlerStep,
        Dag!SkipWrite, OrchT!SkipWrite, Dag!First, OrchT!First, Dag!UpdateNode,
        OrchT!UpdateNode
<1> QED BY <1>1, <1>2, <1>3, <1>4, <1>5, <1>6, <1>7, <1>8, <1>9, <1>10, <1>11, <1>12,
           <1>13, <1>14, <1>15 DEF Dag!HandlerStep

\* What a step of a task does to the rows.
LEMMA TaskWrites ==
    ASSUME NEW n \in Nodes, NEW k \in ExecT!ClaimNumbers, ExecT!TaskStep(n, k)
    PROVE  \/ UNCHANGED status
           \/ pc[n][k] = "mark_running" /\ status' = [status EXCEPT ![n] = "running"]
           \/ pc[n][k] = "requeue" /\ status' = [status EXCEPT ![n] = "pending"]
           \/ pc[n][k] = "mark_completed" /\ status' = [status EXCEPT ![n] = "completed"]
           \/ /\ pc[n][k] \in {"mark_failed", "mark_timeout"}
              /\ status' = [status EXCEPT ![n] = "failed"]
<1> USE DEF ExecT!Call, ExecT!Step, ExecT!Move, ExecT!UpdateStatus,
        ExecT!UpdateRunning, ExecT!RequeueRow, ExecT!row, ExecT!CallDag
<1>1. CASE \/ ExecT!Spawn(n, k) \/ ExecT!HistClaimed(n, k) \/ ExecT!GetImage(n, k)
           \/ ExecT!CreateJob(n, k) \/ ExecT!CreateConflict(n, k) \/ ExecT!HistRunning(n, k)
           \/ ExecT!PollStatus(n, k) \/ ExecT!MonitorTimeout(n, k)
           \/ ExecT!HistCompleted(n, k) \/ ExecT!WaitForOutputs(n, k)
    BY <1>1 DEF ExecT!Spawn, ExecT!HistClaimed, ExecT!GetImage, ExecT!CreateJob,
        ExecT!CreateConflict, ExecT!HistRunning, ExecT!PollStatus, ExecT!MonitorTimeout,
        ExecT!HistCompleted, ExecT!WaitForOutputs
<1>2. CASE \/ ExecT!DagCompleted(n, k) \/ ExecT!HistRequeued(n, k) \/ ExecT!HistFailed(n, k)
           \/ ExecT!DagFailed(n, k) \/ ExecT!HistTimeout(n, k) \/ ExecT!CallError(n, k)
    BY <1>2 DEF ExecT!DagCompleted, ExecT!HistRequeued, ExecT!HistFailed,
        ExecT!DagFailed, ExecT!HistTimeout, ExecT!CallError
<1>3. CASE \/ ExecT!MarkRunning(n, k) \/ ExecT!MarkCompleted(n, k) \/ ExecT!Requeue(n, k)
           \/ ExecT!MarkFailed(n, k) \/ ExecT!MarkTimeout(n, k)
    BY <1>3 DEF ExecT!MarkRunning, ExecT!MarkCompleted, ExecT!Requeue, ExecT!MarkFailed,
        ExecT!MarkTimeout
<1> QED BY <1>1, <1>2, <1>3 DEF ExecT!TaskStep

\* The nodes whose jobs carry the context are the same on both sides.
LEMMA SameContext == \A n \in Nodes : OrchT!HasContext(n) <=> HasContext(n)
BY DEF OrchT!HasContext, HasContext, OrchT!Roots, OrchT!Children, Roots

\* The end of a row is the end of the node's job; the call of its handler and all
\* else a task does is hidden from the orchestrator.
LEMMA TaskIsDag ==
    ASSUME ExecT!TypeOK, ExecT!PositionInv, CallInv,
           NEW n \in Nodes, NEW k \in Exec!ClaimNumbers, TaskStep(n, k)
    PROVE  [OrchT!Next]_(OrchT!vars)
<1>types. /\ status \in [Nodes -> ExecT!Statuses] /\ handler \in [Nodes -> Dag!PCs]
          /\ claims[n] \in Nat /\ k \in ExecT!ClaimNumbers /\ k \in Nat
    BY ExecConstants DEF ExecT!TypeOK, ExecT!RowType, ExecT!ClaimType, CallInv,
        Exec!ClaimNumbers, ExecT!ClaimNumbers, ExecT!ConstantsAssumption
<1>step. /\ ExecT!TaskStep(n, k) /\ handler' = Called(n, pc[n][k])
         /\ UNCHANGED <<node_status, dag_status, announced, todo, stack>>
    BY ExecTask DEF TaskStep
<1>same. Job' = Job /\ Handler' = Handler => UNCHANGED OrchT!vars
    BY <1>step DEF OrchT!vars, OrchT!tables
<1>called. pc[n][k] \notin {"dag_completed", "dag_failed"} => UNCHANGED handler
    BY <1>step DEF Called
<1>none. status[n] = "running" => handler[n] = "none"
    BY DEF CallInv, Exec!Terminal
<1>newest. pc[n][k] \in {"dag_completed", "dag_failed"} => k = claims[n]
    BY <1>types, ExecT!PositionFacts, ExecConstants DEF ExecT!PositionInv
<1>writer. /\ pc[n][k] = "mark_running" => status[n] = "claimed"
           /\ pc[n][k] \in {"requeue", "mark_completed", "mark_failed", "mark_timeout"} =>
                  status[n] = "running"
    BY <1>types, ExecT!WriterIsNewest, ExecConstants DEF ExecT!Monitoring
<1>1. CASE UNCHANGED status /\ pc[n][k] \in {"dag_completed", "dag_failed"}
    <2>1. handler[n] = "none" /\ HasContext(n)
        BY <1>1, <1>newest, <1>types DEF CallInv
    <2>2. /\ pc[n][k] = "dag_completed" => status[n] = "completed"
          /\ pc[n][k] = "dag_failed" => status[n] = "failed"
        BY <1>1, <1>newest, <1>types, ExecT!PositionFacts, ExecConstants
           DEF ExecT!PositionInv, ExecT!Statuses
    <2>3. \A m \in Nodes : Handler'[m] = Handler[m]
        BY <1>1, <1>step, <1>types, <2>1, <2>2 DEF Handler, Called
    <2>4. Job' = Job /\ Handler' = Handler
        BY <1>1, <2>3 DEF Job, Handler
    <2> QED BY <1>same, <2>4
<1>2. CASE UNCHANGED status /\ pc[n][k] \notin {"dag_completed", "dag_failed"}
    BY <1>2, <1>called, <1>same, SameView
<1>3. CASE \/ pc[n][k] = "mark_running" /\ status' = [status EXCEPT ![n] = "running"]
           \/ pc[n][k] = "requeue" /\ status' = [status EXCEPT ![n] = "pending"]
    <2>1. \A m \in Nodes : \/ status'[m] = status[m]
                           \/ {status[m], status'[m]} \subseteq Unended
        BY <1>3, <1>types, <1>writer DEF Unended
    <2> QED BY <1>3, <2>1, <1>called, <1>same, SameView
<1>4. ASSUME NEW s \in {"completed", "failed"}, status' = [status EXCEPT ![n] = s],
             pc[n][k] \in {"mark_completed", "mark_failed", "mark_timeout"}
      PROVE  OrchT!Next
    <2>1. UNCHANGED handler /\ handler[n] = "none" /\ status[n] = "running"
        BY <1>4, <1>called, <1>none, <1>writer
    <2> DEFINE outcome == IF s = "completed" THEN "succeeded" ELSE "failed"
               entry == IF s = "completed" THEN "complete_node" ELSE "fail_node"
    <2>2. Job[n] = "queued" /\ Job' = [Job EXCEPT ![n] = outcome]
        BY <1>4, <1>types, <2>1 DEF Job
    <2>3. Handler' = [Handler EXCEPT ![n] = IF HasContext(n) THEN entry ELSE @]
        BY <1>4, <1>types, <2>1 DEF Handler
    <2>4. OrchT!JobEnds(n, outcome, entry)
        BY <1>step, <2>2, <2>3, SameContext DEF OrchT!JobEnds
    <2>5. OrchT!JobSucceeds(n) \/ OrchT!JobFails(n)
        BY <1>4, <2>4 DEF OrchT!JobSucceeds, OrchT!JobFails
    <2> QED BY <2>5 DEF OrchT!Next
<1> QED BY <1>1, <1>2, <1>3, <1>4, <1>step, <1>types, TaskWrites

\* Whatever happens is a step of the orchestrator or nothing to it.
LEMMA DagStep ==
    ASSUME ExecT!TypeOK, ExecT!RowsInv, CallInv, [Next]_vars
    PROVE  [OrchT!Next]_(OrchT!vars)
<1>types. /\ ExecT!PositionInv /\ ExecT!LockInv
          /\ status \in [Nodes -> ExecT!Statuses] /\ handler \in [Nodes -> Dag!PCs]
    BY DEF ExecT!RowsInv, ExecT!TypeOK, ExecT!RowType, CallInv
<1>same. Job' = Job /\ Handler' = Handler /\ UNCHANGED dag_vars => UNCHANGED OrchT!vars
    BY DEF OrchT!vars, OrchT!tables, dag_vars
<1>quiet. ASSUME UNCHANGED status, UNCHANGED dag_vars PROVE UNCHANGED OrchT!vars
    BY <1>quiet, <1>same, SameView DEF dag_vars
<1>1. CASE UNCHANGED vars
    BY <1>1, <1>quiet DEF vars, exec_vars
<1>2. CASE Submit
    <2>1. \A n \in Nodes : \/ status'[n] = status[n]
                           \/ n \in Roots /\ status[n] = "absent" /\ status'[n] = "pending"
        BY <1>2 DEF Submit, Exec!Enqueue
    <2> QED BY <1>2, <1>same, <2>1, SameView DEF Submit, dag_vars
<1>3. CASE Bootstrap \/ Receive
    BY <1>3, <1>quiet DEF Bootstrap, Receive, exec_vars
<1>4. CASE Crash \/ Restart
    BY <1>4, <1>quiet DEF Crash, Restart, Exec!Crash, Exec!Restart, Exec!row
<1>5. CASE Iterate \/ IterationFails
    <2>1. UNCHANGED dag_vars
        BY <1>5 DEF Iterate, IterationFails
    <2>2. CASE Exec!ClaimCommit(Process) \/ Exec!ClaimLost(Process)
        <3>1. \A n \in locked[Process] : n \in Nodes => status[n] = "pending"
            BY <1>types DEF ExecT!LockInv
        <3>2. \A n \in Nodes : status'[n] = IF n \in locked[Process] THEN "claimed" ELSE status[n]
            BY <2>2 DEF Exec!ClaimCommit, Exec!ClaimLost, Exec!ClaimRows
        <3>3. \A n \in Nodes : \/ status'[n] = status[n]
                               \/ {status[n], status'[n]} \subseteq Unended
            BY <3>1, <3>2 DEF Unended
        <3> QED BY <1>same, <2>1, <3>3, SameView DEF dag_vars
    <2>3. CASE UNCHANGED status
        BY <1>quiet, <2>1, <2>3
    <2>4. \/ Exec!ClaimCommit(Process) \/ Exec!ClaimLost(Process)
          \/ UNCHANGED status
        BY <1>5 DEF Iterate, IterationFails, Exec!ReadTopics, Exec!ClaimLock, Exec!LoopDone,
            Exec!ClaimAbort, Exec!row, exec_vars
    <2> QED BY <2>2, <2>3, <2>4
<1>6. ASSUME NEW n \in Nodes, NEW k \in Exec!ClaimNumbers, TaskStep(n, k)
      PROVE  [OrchT!Next]_(OrchT!vars)
    BY <1>6, <1>types, TaskIsDag
<1>7. ASSUME NEW n \in Nodes, HandlerStep(n) PROVE OrchT!Next
    <2>1. Inserting
        BY <1>7 DEF HandlerStep, exec_vars, Exec!Enqueue, Inserting
    <2>2. OrchT!HandlerStep(n)
        BY <1>7, <1>types, <2>1, HandlerStepIsDag DEF HandlerStep
    <2> QED BY <2>2 DEF OrchT!Next
<1>8. ASSUME NEW n \in Nodes, HandlerDies(n) PROVE OrchT!Next
    <2>1. Inserting /\ Dag!HandlerDies(n)
        BY <1>8 DEF HandlerDies, exec_vars, Inserting
    <2>2. handler[n] # "none" /\ handler' = [handler EXCEPT ![n] = "error"]
        BY <2>1 DEF Dag!HandlerDies, Dag!Completing, Dag!Failing
    <2>3. Handler[n] = handler[n] /\ Handler' = [Handler EXCEPT ![n] = "error"]
        BY <1>types, <2>1, <2>2, HandlerView
    <2>4. OrchT!HandlerDies(n)
        BY <2>1, <2>3 DEF Dag!HandlerDies, OrchT!HandlerDies, Dag!tables, OrchT!tables,
            Dag!Completing, OrchT!Completing, Dag!Failing, OrchT!Failing
    <2> QED BY <2>4 DEF OrchT!Next
<1>9. CASE ClusterStep
    BY <1>9, <1>quiet DEF ClusterStep, Exec!ClusterStep, Exec!RunSucceeds, Exec!PodFails,
        Exec!Expire, Exec!row
<1> QED BY <1>1, <1>2, <1>3, <1>4, <1>5, <1>6, <1>7, <1>8, <1>9 DEF Next, LoopStep

-----------------------------------------------------------------------------
(* The handlers and the tasks that called them.                            *)

\* A step of a task moves that task alone; a task that ended stays where it is,
\* and one that calls a handler ends.
LEMMA TaskMoves ==
    ASSUME NEW n \in Nodes, NEW k \in ExecT!ClaimNumbers, ExecT!TaskStep(n, k)
    PROVE  \E to : /\ pc' = [pc EXCEPT ![n][k] = to]
                   /\ pc[n][k] # "done"
                   /\ pc[n][k] \in {"dag_completed", "dag_failed"} => to = "done"
                   /\ to \in {"dag_completed", "dag_failed"} => HasContext(n)
<1> USE DEF ExecT!Call, ExecT!Step, ExecT!Move, ExecT!CallDag
<1>1. CASE \/ ExecT!Spawn(n, k) \/ ExecT!HistClaimed(n, k) \/ ExecT!GetImage(n, k)
           \/ ExecT!CreateJob(n, k) \/ ExecT!CreateConflict(n, k) \/ ExecT!HistRunning(n, k)
    BY <1>1 DEF ExecT!Spawn, ExecT!HistClaimed, ExecT!GetImage, ExecT!CreateJob,
        ExecT!CreateConflict, ExecT!HistRunning
<1>2. CASE \/ ExecT!PollStatus(n, k) \/ ExecT!MonitorTimeout(n, k)
           \/ ExecT!HistCompleted(n, k) \/ ExecT!WaitForOutputs(n, k)
    BY <1>2 DEF ExecT!PollStatus, ExecT!MonitorTimeout, ExecT!HistCompleted,
        ExecT!WaitForOutputs
<1>3. CASE \/ ExecT!DagCompleted(n, k) \/ ExecT!HistRequeued(n, k) \/ ExecT!HistFailed(n, k)
           \/ ExecT!DagFailed(n, k) \/ ExecT!HistTimeout(n, k) \/ ExecT!CallError(n, k)
    BY <1>3 DEF ExecT!DagCompleted, ExecT!HistRequeued, ExecT!HistFailed,
        ExecT!DagFailed, ExecT!HistTimeout, ExecT!CallError, ExecT!Fallible,
        ExecT!Executing, ExecT!Monitoring, ExecT!Epilogue
<1>4. CASE \/ ExecT!MarkRunning(n, k) \/ ExecT!MarkCompleted(n, k) \/ ExecT!Requeue(n, k)
           \/ ExecT!MarkFailed(n, k) \/ ExecT!MarkTimeout(n, k)
    BY <1>4 DEF ExecT!MarkRunning, ExecT!MarkCompleted, ExecT!Requeue, ExecT!MarkFailed,
        ExecT!MarkTimeout
<1> QED BY <1>1, <1>2, <1>3, <1>4 DEF ExecT!TaskStep

\* A task that stands before the call of the failure handler calls it.
LEMMA TaskWhoCalls ==
    ASSUME NEW n \in Nodes, NEW k \in ExecT!ClaimNumbers, ExecT!TaskStep(n, k),
           pc[n][k] = "dag_failed"
    PROVE  ExecT!DagFailed(n, k)
<1> USE DEF ExecT!Call, ExecT!Step, ExecT!Move, ExecT!CallDag
<1>1. ~\/ ExecT!Spawn(n, k) \/ ExecT!HistClaimed(n, k) \/ ExecT!GetImage(n, k)
        \/ ExecT!CreateJob(n, k) \/ ExecT!CreateConflict(n, k) \/ ExecT!HistRunning(n, k)
    BY DEF ExecT!Spawn, ExecT!HistClaimed, ExecT!GetImage, ExecT!CreateJob,
        ExecT!CreateConflict, ExecT!HistRunning
<1>2. ~\/ ExecT!PollStatus(n, k) \/ ExecT!MonitorTimeout(n, k)
        \/ ExecT!HistCompleted(n, k) \/ ExecT!WaitForOutputs(n, k)
    BY DEF ExecT!PollStatus, ExecT!MonitorTimeout, ExecT!HistCompleted,
        ExecT!WaitForOutputs
<1>3. ~\/ ExecT!DagCompleted(n, k) \/ ExecT!HistRequeued(n, k) \/ ExecT!HistFailed(n, k)
        \/ ExecT!HistTimeout(n, k) \/ ExecT!CallError(n, k)
    BY DEF ExecT!DagCompleted, ExecT!HistRequeued, ExecT!HistFailed, ExecT!HistTimeout,
        ExecT!CallError, ExecT!Fallible, ExecT!Executing, ExecT!Monitoring, ExecT!Epilogue
<1>4. ~\/ ExecT!MarkRunning(n, k) \/ ExecT!MarkCompleted(n, k) \/ ExecT!Requeue(n, k)
        \/ ExecT!MarkFailed(n, k) \/ ExecT!MarkTimeout(n, k)
    BY DEF ExecT!MarkRunning, ExecT!MarkCompleted, ExecT!Requeue, ExecT!MarkFailed,
        ExecT!MarkTimeout
<1> QED BY <1>1, <1>2, <1>3, <1>4 DEF ExecT!TaskStep

\* What any step may do to the position of a task.
LEMMA PcFuture ==
    ASSUME ExecT!TypeOK, ExecT!LockInv, [Next]_vars,
           NEW n \in Nodes, NEW k \in Exec!ClaimNumbers
    PROVE  \/ pc'[n][k] = pc[n][k]
           \/ TaskStep(n, k)
           \/ pc[n][k] \in Exec!Live /\ pc'[n][k] = "crashed"
           \/ status[n] = "pending" /\ pc'[n][k] \in {"queued", "error"}
<1> DEFINE Goal == \/ pc'[n][k] = pc[n][k]
                   \/ TaskStep(n, k)
                   \/ pc[n][k] \in Exec!Live /\ pc'[n][k] = "crashed"
                   \/ status[n] = "pending" /\ pc'[n][k] \in {"queued", "error"}
<1>types. pc \in [Nodes -> [Exec!ClaimNumbers -> ExecT!PCs]]
          /\ Exec!ClaimNumbers = ExecT!ClaimNumbers
    BY DEF ExecT!TypeOK, ExecT!PcType, Exec!ClaimNumbers, ExecT!ClaimNumbers
<1>same. UNCHANGED pc => Goal
    OBVIOUS
<1>1. CASE UNCHANGED vars \/ Submit \/ Bootstrap \/ Receive \/ Restart \/ ClusterStep
    BY <1>1, <1>same DEF vars, exec_vars, Submit, Exec!Enqueue, Bootstrap, Receive, Restart,
        Exec!Restart, ClusterStep, Exec!ClusterStep, Exec!RunSucceeds, Exec!PodFails,
        Exec!Expire
<1>2. CASE Crash
    BY <1>2 DEF Crash, Exec!Crash
<1>3. CASE Iterate \/ IterationFails
    <2>1. ASSUME NEW p \in {"queued", "error"}, Exec!ClaimRows(Process, locked[Process], p)
          PROVE  Goal
        <3>1. n \in locked[Process] => status[n] = "pending"
            BY DEF ExecT!LockInv
        <3>2. pc'[n] = IF n \in locked[Process]
                       THEN [pc[n] EXCEPT ![claims[n] + 1] = p]
                       ELSE pc[n]
            BY <2>1 DEF Exec!ClaimRows
        <3> QED BY <1>types, <3>1, <3>2
    <2>2. \/ UNCHANGED pc
          \/ \E p \in {"queued", "error"} : Exec!ClaimRows(Process, locked[Process], p)
        BY <1>3 DEF Iterate, IterationFails, Exec!ReadTopics, Exec!ClaimLock, Exec!LoopDone,
            Exec!ClaimAbort, Exec!ClaimCommit, Exec!ClaimLost, exec_vars
    <2> QED BY <1>same, <2>1, <2>2
<1>4. ASSUME NEW i \in Nodes, NEW m \in Exec!ClaimNumbers, TaskStep(i, m) PROVE Goal
    <2>1. CASE i = n /\ m = k
        BY <1>4, <2>1
    <2>2. CASE i # n \/ m # k
        <3>1. PICK to : pc' = [pc EXCEPT ![i][m] = to]
            BY <1>4, ExecTask, TaskMoves DEF TaskStep
        <3> QED BY <1>types, <2>2, <3>1
    <2> QED BY <2>1, <2>2
<1>5. ASSUME NEW i \in Nodes, HandlerStep(i) \/ HandlerDies(i) PROVE Goal
    BY <1>5, <1>same DEF HandlerStep, HandlerDies, exec_vars, Exec!Enqueue
<1> QED BY <1>1, <1>2, <1>3, <1>4, <1>5 DEF Next, LoopStep

\* A handler moves by its own steps, and is called by a task.
LEMMA HandlerFuture ==
    ASSUME handler \in [Nodes -> Dag!PCs], [Next]_vars
    PROVE  /\ handler' \in [Nodes -> Dag!PCs]
           /\ \A n \in Nodes : handler[n] = "none" /\ handler'[n] # "none" =>
                  \E k \in Exec!ClaimNumbers :
                      TaskStep(n, k) /\ pc[n][k] \in {"dag_completed", "dag_failed"}
           /\ \A n \in Nodes : handler[n] # "none" => handler'[n] # "none"
<1> DEFINE Goal == /\ handler' \in [Nodes -> Dag!PCs]
                   /\ \A n \in Nodes : handler[n] = "none" /\ handler'[n] # "none" =>
                          \E k \in Exec!ClaimNumbers :
                              TaskStep(n, k) /\ pc[n][k] \in {"dag_completed", "dag_failed"}
                   /\ \A n \in Nodes : handler[n] # "none" => handler'[n] # "none"
<1>1. CASE UNCHANGED handler
    BY <1>1
<1>2. ASSUME NEW n \in Nodes, NEW k \in Exec!ClaimNumbers, TaskStep(n, k) PROVE Goal
    BY <1>2 DEF TaskStep, Called, Dag!PCs, Dag!Completing, Dag!Failing
<1>3. ASSUME NEW n \in Nodes, Dag!HandlerStep(n) \/ Dag!HandlerDies(n) PROVE Goal
    <2>1. ASSUME NEW from, NEW to, Dag!Step(n, from, to), from # "none", to \in Dag!PCs \ {"none"}
          PROVE  Goal
        BY <2>1 DEF Dag!Step
    <2> USE DEF Dag!PCs, Dag!Completing, Dag!Failing
    <2>2. ASSUME NEW from, NEW to, Dag!Call(n, from, to), from # "none", to \in Dag!PCs \ {"none"}
          PROVE  Goal
        BY <2>1, <2>2 DEF Dag!Call
    <2> HIDE DEF Goal
    <2>3. CASE \/ Dag!CompleteNode(n) \/ Dag!EnqueueBatch(n) \/ Dag!MarkReady(n)
               \/ Dag!CreateJob(n) \/ Dag!MarkOne(n)
        BY <2>2, <2>3 DEF Dag!CompleteNode, Dag!EnqueueBatch, Dag!MarkReady, Dag!CreateJob,
            Dag!MarkOne
    <2>4. CASE Dag!StartChildren(n)
        <3>1. CASE Dag!Children(n) = {}
            BY <2>1, <2>4, <3>1 DEF Dag!StartChildren
        <3>2. CASE Dag!Children(n) # {}
            <4> DEFINE To(c) == CASE Mode[c] = "parallel" -> "enqueue_batch"
                                  [] Mode[c] = "sequential" -> "create"
                                  [] Mode[c] = "limited" -> "error"
            <4>1. \A c \in Nodes : To(c) \in Dag!PCs \ {"none"}
                BY DagConstants DEF OrchT!DAGAssumption
            <4>2. PICK c \in Dag!First(Dag!Children(n)) : Dag!Step(n, "children", To(c))
                BY <2>4, <3>2 DEF Dag!StartChildren
            <4>3. c \in Nodes
                BY <4>2 DEF Dag!First, Dag!Children
            <4> HIDE DEF To
            <4> QED BY <2>1, <4>1, <4>2, <4>3
        <3> QED BY <3>1, <3>2
    <2>5. CASE \/ Dag!ReadStats(n) \/ Dag!WriteVerdict(n) \/ Dag!GetExecution(n)
               \/ Dag!WriteRunning(n) \/ Dag!FailNode(n) \/ Dag!FailDAG(n)
        BY <2>1, <2>2, <2>5 DEF Dag!ReadStats, Dag!Verdict, Dag!WriteVerdict,
            Dag!GetExecution, Dag!WriteRunning, Dag!FailNode, Dag!FailDAG
    <2>6. CASE Dag!SkipPop(n) \/ Dag!SkipRead(n) \/ Dag!SkipWrite(n)
        BY <2>1, <2>2, <2>6 DEF Dag!SkipPop, Dag!SkipRead, Dag!SkipWrite
    <2>7. CASE Dag!HandlerDies(n)
        BY <2>1, <2>7 DEF Dag!HandlerDies, Dag!Step
    <2> QED BY <1>3, <2>3, <2>4, <2>5, <2>6, <2>7 DEF Dag!HandlerStep
<1>4. \/ UNCHANGED handler
      \/ \E n \in Nodes : Dag!HandlerStep(n) \/ Dag!HandlerDies(n)
      \/ \E n \in Nodes, k \in Exec!ClaimNumbers : TaskStep(n, k)
    BY DEF Next, vars, dag_vars, Submit, Bootstrap, Crash, Restart, LoopStep, Receive, Iterate,
        IterationFails, ClusterStep, HandlerStep, HandlerDies
<1> QED BY <1>1, <1>2, <1>3, <1>4

\* Only a task calls a handler, and calls the one of its own node.
LEMMA CallsBy ==
    ASSUME [Next]_vars, ExecT!TypeOK, NEW n \in Nodes, dag_calls'[n] # dag_calls[n]
    PROVE  \E k \in Exec!ClaimNumbers :
               TaskStep(n, k) /\ pc[n][k] \in {"dag_completed", "dag_failed"}
<1>1. ~(UNCHANGED dag_calls)
    OBVIOUS
<1>2. ~(UNCHANGED vars \/ Submit \/ Bootstrap \/ Receive \/ Restart \/ ClusterStep)
    BY <1>1 DEF vars, exec_vars, Submit, Exec!Enqueue, Bootstrap, Receive, Restart,
        Exec!Restart, ClusterStep, Exec!ClusterStep, Exec!RunSucceeds, Exec!PodFails,
        Exec!Expire
<1>3. ~(Crash \/ Iterate \/ IterationFails)
    BY <1>1 DEF Crash, Exec!Crash, Iterate, IterationFails, Exec!ReadTopics, Exec!ClaimLock,
        Exec!LoopDone, Exec!ClaimAbort, Exec!ClaimCommit, Exec!ClaimLost, exec_vars
<1>4. \A i \in Nodes : ~(HandlerStep(i) \/ HandlerDies(i))
    BY <1>1 DEF HandlerStep, HandlerDies, exec_vars, Exec!Enqueue
<1>5. PICK i \in Nodes, k \in Exec!ClaimNumbers : TaskStep(i, k)
    BY <1>2, <1>3, <1>4 DEF Next, LoopStep
<1>6. ExecT!TaskStep(i, k) /\ k \in ExecT!ClaimNumbers
    BY <1>5, ExecTask DEF TaskStep
<1>7. ExecT!DagCompleted(i, k) \/ ExecT!DagFailed(i, k)
    <2>1. ~\/ ExecT!Spawn(i, k) \/ ExecT!GetImage(i, k) \/ ExecT!CreateConflict(i, k)
            \/ ExecT!PollStatus(i, k) \/ ExecT!MonitorTimeout(i, k)
            \/ ExecT!WaitForOutputs(i, k) \/ ExecT!CallError(i, k) \/ ExecT!CreateJob(i, k)
        BY <1>1 DEF ExecT!Spawn, ExecT!GetImage, ExecT!CreateConflict, ExecT!PollStatus,
            ExecT!MonitorTimeout, ExecT!WaitForOutputs, ExecT!CallError, ExecT!CreateJob
    <2>2. ~\/ ExecT!MarkRunning(i, k) \/ ExecT!MarkCompleted(i, k) \/ ExecT!MarkFailed(i, k)
            \/ ExecT!MarkTimeout(i, k) \/ ExecT!Requeue(i, k)
        BY <1>1 DEF ExecT!MarkRunning, ExecT!MarkCompleted, ExecT!MarkFailed,
            ExecT!MarkTimeout, ExecT!Requeue
    <2>3. ~\/ ExecT!HistClaimed(i, k) \/ ExecT!HistRunning(i, k) \/ ExecT!HistCompleted(i, k)
            \/ ExecT!HistRequeued(i, k) \/ ExecT!HistFailed(i, k) \/ ExecT!HistTimeout(i, k)
        BY <1>1 DEF ExecT!HistClaimed, ExecT!HistRunning, ExecT!HistCompleted,
            ExecT!HistRequeued, ExecT!HistFailed, ExecT!HistTimeout
    <2> QED BY <1>6, <2>1, <2>2, <2>3 DEF ExecT!TaskStep
<1>8. /\ pc[i][k] \in {"dag_completed", "dag_failed"}
      /\ \E call : dag_calls' = [dag_calls EXCEPT ![i] = @ \cup {call}]
    BY <1>7 DEF ExecT!DagCompleted, ExecT!DagFailed, ExecT!CallDag, ExecT!Step, ExecT!Move
<1>9. i = n
    BY <1>8 DEF ExecT!TypeOK, ExecT!LogType
<1> QED BY <1>5, <1>8, <1>9

\* A handler that was called keeps its ended row and its ended task.
LEMMA CallStep ==
    ASSUME ExecT!TypeOK, ExecT!RowsInv, OrchT!TypeOK, CallInv, [Next]_vars
    PROVE  CallInv'
<1>0. /\ [ExecT!Next]_(ExecT!vars)
      /\ ExecT!LockInv /\ ExecT!PositionInv
      /\ Exec!ClaimNumbers = ExecT!ClaimNumbers /\ Exec!ClaimNumbers \subseteq Nat
      /\ Exec!Terminal = ExecT!Terminal
      /\ pc \in [Nodes -> [Exec!ClaimNumbers -> ExecT!PCs]]
      /\ handler \in [Nodes -> Dag!PCs]
      /\ \A n \in Nodes : claims[n] \in Nat
    BY ExecStep, ExecConstants DEF OrchT!TypeOK, ExecT!RowsInv, Exec!ClaimNumbers,
        ExecT!ClaimNumbers, Exec!Terminal, ExecT!Terminal, ExecT!TypeOK, ExecT!PcType,
        ExecT!ClaimType, CallInv, ExecT!ConstantsAssumption
<1>1. handler' \in [Nodes -> Dag!PCs]
    BY <1>0, HandlerFuture
<1>2. ASSUME NEW n \in Nodes, NEW k \in Exec!ClaimNumbers,
             pc'[n][k] \in {"dag_completed", "dag_failed"}
      PROVE  HasContext(n)
    <2>1. CASE TaskStep(n, k)
        <3>1. PICK to : /\ pc' = [pc EXCEPT ![n][k] = to]
                        /\ to \in {"dag_completed", "dag_failed"} => HasContext(n)
            BY <1>0, <2>1, ExecTask, TaskMoves DEF TaskStep
        <3> QED BY <1>0, <1>2, <3>1
    <2>2. CASE pc'[n][k] = pc[n][k]
        BY <1>2, <2>2 DEF CallInv
    <2> QED BY <1>0, <1>2, <2>1, <2>2, PcFuture
<1>3. ASSUME NEW n \in Nodes, handler[n] # "none"
      PROVE  /\ HasContext(n)
             /\ status'[n] \in Exec!Terminal
             /\ \A k \in Exec!ClaimNumbers : k = claims'[n] => pc'[n][k] = "done"
             /\ status'[n] = "failed" => "failure" \in dag_calls'[n]
    <2>1. /\ HasContext(n) /\ status[n] \in Exec!Terminal
          /\ \A k \in Exec!ClaimNumbers : k = claims[n] => pc[n][k] = "done"
          /\ status[n] = "failed" => "failure" \in dag_calls[n]
        BY <1>3 DEF CallInv
    <2>2. status'[n] = status[n] /\ claims'[n] = claims[n]
        BY <1>0, <2>1, ExecT!RowFuture, ExecConstants
    <2>3. ASSUME NEW k \in Exec!ClaimNumbers, pc[n][k] = "done" PROVE pc'[n][k] = "done"
        <3>1. ~TaskStep(n, k)
            BY <1>0, <2>3, ExecTask, TaskMoves DEF TaskStep
        <3>2. status[n] # "pending" /\ pc[n][k] \notin Exec!Live
            BY <2>1, <2>3 DEF Exec!Terminal, Exec!Live, Exec!Executing, Exec!Monitoring,
                Exec!Epilogue
        <3> QED BY <1>0, <2>3, <3>1, <3>2, PcFuture
    <2>4. dag_calls[n] \subseteq dag_calls'[n]
        BY <1>0, ExecT!CallsKept, ExecConstants
    <2> QED BY <2>1, <2>2, <2>3, <2>4
<1>4. ASSUME NEW n \in Nodes, handler[n] = "none", handler'[n] # "none"
      PROVE  /\ HasContext(n)
             /\ status'[n] \in Exec!Terminal
             /\ \A k \in Exec!ClaimNumbers : k = claims'[n] => pc'[n][k] = "done"
             /\ status'[n] = "failed" => "failure" \in dag_calls'[n]
    <2>1. PICK k \in Exec!ClaimNumbers :
              TaskStep(n, k) /\ pc[n][k] \in {"dag_completed", "dag_failed"}
        BY <1>0, <1>4, HandlerFuture
    <2>2. k = claims[n] /\ status[n] \in Exec!Terminal /\ HasContext(n)
        <3>1. status[n] \in ExecT!Statuses /\ k \in Nat /\ claims[n] \in Nat
            BY <1>0 DEF ExecT!TypeOK, ExecT!RowType
        <3>2. HasContext(n)
            BY <2>1 DEF CallInv
        <3>3. /\ k > claims[n] => pc[n][k] = "new"
              /\ k < claims[n] => pc[n][k] \in ExecT!Positions("pending")
              /\ k = claims[n] => pc[n][k] \in ExecT!Positions(status[n])
            BY <1>0 DEF ExecT!PositionInv
        <3>4. k = claims[n]
            BY <2>1, <3>1, <3>3, ExecT!PositionFacts, ExecConstants
        <3>5. status[n] \in Exec!Terminal
            BY <2>1, <3>1, <3>3, <3>4, ExecT!PositionFacts, ExecConstants
               DEF ExecT!Statuses, Exec!Terminal
        <3> QED BY <3>2, <3>4, <3>5
    <2>3. status'[n] = status[n] /\ claims'[n] = claims[n]
        BY <1>0, <2>2, ExecT!RowFuture, ExecConstants
    <2>4. pc' = [pc EXCEPT ![n][k] = "done"]
        BY <1>0, <2>1, ExecTask, TaskMoves DEF TaskStep
    <2>5. status[n] = "failed" => "failure" \in dag_calls'[n]
        <3> SUFFICES ASSUME status[n] = "failed" PROVE "failure" \in dag_calls'[n]
            OBVIOUS
        <3>0. pc[n][k] = "dag_failed"
            <4>1. pc[n][k] \in ExecT!Positions("failed")
                BY <1>0, <2>2 DEF ExecT!PositionInv
            <4> QED BY <2>1, <4>1, ExecT!PositionFacts, ExecConstants
        <3>1. ExecT!TaskStep(n, k) /\ k \in ExecT!ClaimNumbers
            BY <2>1, ExecTask DEF TaskStep
        <3>2. ExecT!DagFailed(n, k)
            BY <3>0, <3>1, TaskWhoCalls
        <3> QED BY <3>2 DEF ExecT!DagFailed, ExecT!CallDag, ExecT!TypeOK, ExecT!LogType
    <2> QED BY <1>0, <2>2, <2>3, <2>4, <2>5
<1>5. ASSUME NEW n \in Nodes, dag_calls'[n] # {} PROVE handler'[n] # "none"
    <2>1. CASE dag_calls'[n] = dag_calls[n]
        BY <1>0, <1>5, <2>1, HandlerFuture DEF CallInv
    <2>2. CASE dag_calls'[n] # dag_calls[n]
        <3>1. PICK k \in Exec!ClaimNumbers :
                  TaskStep(n, k) /\ pc[n][k] \in {"dag_completed", "dag_failed"}
            BY <2>2, CallsBy
        <3> QED BY <1>0, <3>1 DEF TaskStep, Called
    <2> QED BY <2>1, <2>2
<1> QED BY <1>1, <1>2, <1>3, <1>4, <1>5 DEF CallInv, HasContext

-----------------------------------------------------------------------------
(* The theorems.                                                           *)

\* The invariant of the composition: the rows are in order, the handlers are of
\* tasks that ended with their rows.
CompositionInv == ExecT!TypeOK /\ ExecT!RowsInv /\ OrchT!TypeOK /\ CallInv

\* In the beginning nothing has been inserted, claimed or called.
LEMMA CompositionInit ==
    ASSUME Init
    PROVE  ExecT!Init /\ OrchT!Init /\ CompositionInv
<1>1. ExecT!Init
    BY DEF Init, Exec!Init, ExecT!Init, Exec!Names, ExecT!Names, Exec!ClaimNumbers,
        ExecT!ClaimNumbers
<1>2. OrchT!Init
    <2>1. Handler = [n \in Nodes |-> "none"]
        BY DEF Init, Exec!Init, Dag!Init, Handler
    <2> QED BY <2>1 DEF Init, Dag!Init, OrchT!Init, Dag!Roots, OrchT!Roots, Dag!Children,
                        OrchT!Children
<1>3. CallInv
    BY DEF Init, Exec!Init, Dag!Init, CallInv, Dag!PCs
<1>4. ExecT!TypeOK /\ ExecT!RowsInv
    BY <1>1, ExecT!IInvInit, ExecConstants DEF ExecT!IInv, ExecT!RowsInv
<1>5. OrchT!TypeOK
    BY <1>2, DagConstants DEF OrchT!DAGAssumption, OrchT!Init, OrchT!TypeOK, OrchT!PCs,
        OrchT!Roots, OrchT!Children, OrchT!Idle, OrchT!AtWork
<1> QED BY <1>1, <1>2, <1>3, <1>4, <1>5 DEF CompositionInv

\* Every step is one of the executor or none, one of the orchestrator or none, and
\* keeps the invariant.
LEMMA CompositionStep ==
    ASSUME CompositionInv, [Next]_vars
    PROVE  /\ [ExecT!Next]_(ExecT!vars)
           /\ [OrchT!Next]_(OrchT!vars)
           /\ CompositionInv'
<1> USE DEF CompositionInv
<1>1. [ExecT!Next]_(ExecT!vars)
    BY ExecStep DEF OrchT!TypeOK
<1>2. [OrchT!Next]_(OrchT!vars)
    BY DagStep
<1>3. ExecT!TypeOK' /\ ExecT!RowsInv'
    BY <1>1, ExecT!TypeStep, ExecT!RowsStep, ExecConstants DEF ExecT!RowsInv
<1>4. OrchT!TypeOK'
    BY <1>2, OrchT!TypeStep, DagConstants
<1>5. CallInv'
    BY CallStep
<1> QED BY <1>1, <1>2, <1>3, <1>4, <1>5

\* A handler of the orchestrator is called only for a row that has ended for good,
\* by the task of its last claim, and that task does nothing afterwards.
THEOREM CallInvHolds == Spec => []CallInv
<1>1. Init => CompositionInv
    BY CompositionInit
<1>2. CompositionInv /\ [Next]_vars => CompositionInv'
    BY CompositionStep
<1>3. CompositionInv => CallInv
    BY DEF CompositionInv
<1> QED BY <1>1, <1>2, <1>3, PTL DEF Spec

\* Composed, the executor still behaves as JobExecutor says: what is proved of it
\* holds of the rows, tasks and runs of a DAG.
THEOREM ExecutorImplemented == Spec => ExecT!Spec
<1>1. Init => ExecT!Init /\ CompositionInv
    BY CompositionInit
<1>2. CompositionInv /\ [Next]_vars => [ExecT!Next]_(ExecT!vars) /\ CompositionInv'
    BY CompositionStep
<1> QED BY <1>1, <1>2, PTL DEF Spec, ExecT!Spec

\* The composition implements the orchestrator of the proofs.
LEMMA OrchestratorAsProved == Spec => OrchT!Spec
<1>1. Init => OrchT!Init /\ CompositionInv
    BY CompositionInit
<1>2. CompositionInv /\ [Next]_vars => [OrchT!Next]_(OrchT!vars) /\ CompositionInv'
    BY CompositionStep
<1> QED BY <1>1, <1>2, PTL DEF Spec, OrchT!Spec

\* The orchestrator of the property and the one the proofs are about are one.
LEMMA SameOrchestrator ==
    /\ OrchT!Init => Orchestrator!Init
    /\ [OrchT!Next]_(OrchT!vars) => [Orchestrator!Next]_(Orchestrator!vars)
<1> USE DEF OrchT!Step, Orchestrator!Step, OrchT!tables, Orchestrator!tables
<1>init. OrchT!Init => Orchestrator!Init
    BY DEF OrchT!Init, Orchestrator!Init, OrchT!Roots, Orchestrator!Roots, OrchT!Children,
        Orchestrator!Children
<1>vars. UNCHANGED OrchT!vars => UNCHANGED Orchestrator!vars
    BY DEF OrchT!vars, Orchestrator!vars
<1>1. \A n \in Nodes : OrchT!CompleteNode(n) => Orchestrator!CompleteNode(n)
    BY DEF OrchT!CompleteNode, Orchestrator!CompleteNode, OrchT!UpdateNode,
        Orchestrator!UpdateNode, OrchT!Call, Orchestrator!Call
<1>2. \A n \in Nodes : OrchT!StartChildren(n) => Orchestrator!StartChildren(n)
    BY DEF OrchT!StartChildren, Orchestrator!StartChildren, OrchT!First,
        Orchestrator!First, OrchT!Children, Orchestrator!Children
<1>3. \A n \in Nodes : OrchT!EnqueueBatch(n) => Orchestrator!EnqueueBatch(n)
    BY DEF OrchT!EnqueueBatch, Orchestrator!EnqueueBatch, OrchT!Enqueue,
        Orchestrator!Enqueue, OrchT!Call, Orchestrator!Call
<1>4. \A n \in Nodes : OrchT!MarkReady(n) => Orchestrator!MarkReady(n)
    BY DEF OrchT!MarkReady, Orchestrator!MarkReady, OrchT!First, Orchestrator!First,
        OrchT!Children, Orchestrator!Children, OrchT!UpdateNode,
        Orchestrator!UpdateNode, OrchT!Call, Orchestrator!Call
<1>5. \A n \in Nodes : OrchT!CreateJob(n) => Orchestrator!CreateJob(n)
    BY DEF OrchT!CreateJob, Orchestrator!CreateJob, OrchT!First, Orchestrator!First,
        OrchT!Enqueue, Orchestrator!Enqueue, OrchT!Call, Orchestrator!Call
<1>6. \A n \in Nodes : OrchT!MarkOne(n) => Orchestrator!MarkOne(n)
    BY DEF OrchT!MarkOne, Orchestrator!MarkOne, OrchT!First, Orchestrator!First,
        OrchT!UpdateNode, Orchestrator!UpdateNode, OrchT!Call, Orchestrator!Call
<1>7. \A n \in Nodes : OrchT!ReadStats(n) => Orchestrator!ReadStats(n)
    BY DEF OrchT!ReadStats, Orchestrator!ReadStats, OrchT!Verdict,
        Orchestrator!Verdict, OrchT!Settled, Orchestrator!Settled
<1>8. \A n \in Nodes : OrchT!WriteVerdict(n) => Orchestrator!WriteVerdict(n)
    BY DEF OrchT!WriteVerdict, Orchestrator!WriteVerdict, OrchT!UpdateDAG,
        Orchestrator!UpdateDAG, OrchT!Call, Orchestrator!Call
<1>9. \A n \in Nodes : OrchT!GetExecution(n) => Orchestrator!GetExecution(n)
    BY DEF OrchT!GetExecution, Orchestrator!GetExecution
<1>10. \A n \in Nodes : OrchT!WriteRunning(n) => Orchestrator!WriteRunning(n)
    BY DEF OrchT!WriteRunning, Orchestrator!WriteRunning, OrchT!UpdateDAG,
        Orchestrator!UpdateDAG, OrchT!Call, Orchestrator!Call
<1>11. \A n \in Nodes : OrchT!FailNode(n) => Orchestrator!FailNode(n)
    BY DEF OrchT!FailNode, Orchestrator!FailNode, OrchT!UpdateNode,
        Orchestrator!UpdateNode, OrchT!Call, Orchestrator!Call
<1>12. \A n \in Nodes : OrchT!FailDAG(n) => Orchestrator!FailDAG(n)
    BY DEF OrchT!FailDAG, Orchestrator!FailDAG, OrchT!UpdateDAG,
        Orchestrator!UpdateDAG, OrchT!Call, Orchestrator!Call
<1>13. \A n \in Nodes : OrchT!SkipPop(n) => Orchestrator!SkipPop(n)
    BY DEF OrchT!SkipPop, Orchestrator!SkipPop, OrchT!Children, Orchestrator!Children
<1>14. \A n \in Nodes : OrchT!SkipRead(n) => Orchestrator!SkipRead(n)
    BY DEF OrchT!SkipRead, Orchestrator!SkipRead, OrchT!First, Orchestrator!First,
        OrchT!Idle, Orchestrator!Idle
<1>15. \A n \in Nodes : OrchT!SkipWrite(n) => Orchestrator!SkipWrite(n)
    BY DEF OrchT!SkipWrite, Orchestrator!SkipWrite, OrchT!First, Orchestrator!First,
        OrchT!UpdateNode, Orchestrator!UpdateNode, OrchT!Call, Orchestrator!Call
<1>16. \A n \in Nodes : OrchT!HandlerDies(n) => Orchestrator!HandlerDies(n)
    BY DEF OrchT!HandlerDies, Orchestrator!HandlerDies, OrchT!Completing,
        Orchestrator!Completing, OrchT!Failing, Orchestrator!Failing
<1>17. \A n \in Nodes : OrchT!JobSucceeds(n) => Orchestrator!JobSucceeds(n)
    BY DEF OrchT!JobSucceeds, Orchestrator!JobSucceeds, OrchT!JobEnds,
        Orchestrator!JobEnds, OrchT!HasContext, Orchestrator!HasContext,
        OrchT!Roots, Orchestrator!Roots, OrchT!Children, Orchestrator!Children
<1>18. \A n \in Nodes : OrchT!JobFails(n) => Orchestrator!JobFails(n)
    BY DEF OrchT!JobFails, Orchestrator!JobFails, OrchT!JobEnds, Orchestrator!JobEnds,
        OrchT!HasContext, Orchestrator!HasContext, OrchT!Roots, Orchestrator!Roots,
        OrchT!Children, Orchestrator!Children
<1>next. OrchT!Next => Orchestrator!Next
    BY <1>1, <1>2, <1>3, <1>4, <1>5, <1>6, <1>7, <1>8, <1>9, <1>10, <1>11, <1>12,
        <1>13, <1>14, <1>15, <1>16, <1>17, <1>18 DEF OrchT!Next, Orchestrator!Next,
        OrchT!HandlerStep, Orchestrator!HandlerStep
<1> QED BY <1>init, <1>vars, <1>next

\* The executor, the event loop and the API are the environment the orchestrator
\* assumes: what is proved of its handlers holds in the composition.
THEOREM OrchestratorImplemented == Spec => ImplementsOrchestrator
<1> QED BY OrchestratorAsProved, SameOrchestrator, PTL
           DEF ImplementsOrchestrator, OrchT!Spec, Orchestrator!Spec

-----------------------------------------------------------------------------
(* What the cluster shows.                                                 *)

\* A run after which there is none is the last one.
LEMMA LastOfRun ==
    ASSUME NEW f, NEW k \in Exec!ClaimNumbers, f[k] # "none",
           \A i \in Exec!ClaimNumbers : i > k => f[i] = "none"
    PROVE  LastOf(f) = f[k]
<1> DEFINE run == {i \in Exec!ClaimNumbers : f[i] # "none"}
           last == CHOOSE i \in run : \A m \in run : m <= i
<1>1. Exec!ClaimNumbers \subseteq Nat
    BY OrchestrationAssumption DEF Exec!ClaimNumbers
<1>2. k \in run /\ \A i \in run : i <= k
    BY <1>1
<1>3. last \in run /\ \A i \in run : i <= last
    BY <1>2
<1>4. last = k
    <2>1. last \in Nat /\ k \in Nat /\ last <= k /\ k <= last
        BY <1>1, <1>2, <1>3
    <2> QED BY <2>1
<1> QED BY <1>2, <1>4 DEF LastOf

\* Without runs a node is idle.
LEMMA LastOfNone ==
    ASSUME NEW f, \A i \in Exec!ClaimNumbers : f[i] = "none"
    PROVE  LastOf(f) = "idle"
BY DEF LastOf

\* The phase of a run changes when the run is created and when it ends.
LEMMA PhaseChanges ==
    ASSUME [ExecT!Next]_(ExecT!vars)
    PROVE  \/ UNCHANGED phase
           \/ \E n \in Nodes, k \in ExecT!ClaimNumbers :
                  ExecT!CreateJob(n, k) \/ ExecT!RunSucceeds(n, k) \/ ExecT!PodFails(n, k)
<1> USE DEF ExecT!cluster_vars
<1>1. CASE UNCHANGED ExecT!vars
    BY <1>1 DEF ExecT!vars
<1>2. ASSUME NEW S \in SUBSET Nodes, ExecT!Enqueue(S) PROVE UNCHANGED phase
    BY <1>2 DEF ExecT!Enqueue
<1>3. ASSUME NEW e \in {Process}, ExecT!LoopStep(e) \/ ExecT!Crash(e) \/ ExecT!Restart(e)
      PROVE  UNCHANGED phase
    BY <1>3 DEF ExecT!LoopStep, ExecT!ReadTopics, ExecT!ClaimLock, ExecT!ClaimCommit,
        ExecT!ClaimLost, ExecT!ClaimAbort, ExecT!LoopDone, ExecT!Crash, ExecT!Restart
<1>4. ASSUME NEW n \in Nodes, NEW k \in ExecT!ClaimNumbers, ExecT!TaskStep(n, k)
      PROVE  UNCHANGED phase \/ ExecT!CreateJob(n, k)
    BY <1>4 DEF ExecT!TaskStep, ExecT!Spawn, ExecT!HistClaimed, ExecT!GetImage,
        ExecT!CreateConflict, ExecT!MarkRunning, ExecT!HistRunning, ExecT!PollStatus,
        ExecT!MonitorTimeout, ExecT!MarkCompleted, ExecT!HistCompleted,
        ExecT!WaitForOutputs, ExecT!DagCompleted, ExecT!CallDag, ExecT!Requeue,
        ExecT!HistRequeued, ExecT!MarkFailed, ExecT!HistFailed, ExecT!DagFailed,
        ExecT!MarkTimeout, ExecT!HistTimeout, ExecT!CallError
<1>5. ASSUME NEW n \in Nodes, NEW k \in ExecT!ClaimNumbers, ExecT!ClusterStep(n, k)
      PROVE  ExecT!RunSucceeds(n, k) \/ ExecT!PodFails(n, k)
    BY <1>5 DEF ExecT!ClusterStep
<1>6. ASSUME NEW name \in ExecT!Names, ExecT!Expire(name) PROVE UNCHANGED phase
    BY <1>6 DEF ExecT!Expire
<1> QED BY <1>1, <1>2, <1>3, <1>4, <1>5, <1>6 DEF ExecT!Next

\* What a node's runs are before and after its newest one.
LEMMA RunsInOrder ==
    ASSUME ExecT!TypeOK, ExecT!PositionInv, ExecT!StartedInv, ExecT!RetryInv, NEW n \in Nodes
    PROVE  \A i \in Exec!ClaimNumbers :
               /\ i > claims[n] => phase[n][i] = "none"
               /\ i < claims[n] => phase[n][i] = "failed"
BY DEF ExecT!PositionInv, ExecT!StartedInv, ExecT!RetryInv, ExecT!Unstarted, Exec!ClaimNumbers,
       ExecT!ClaimNumbers

\* A run is created only at the newest claim, all earlier runs having failed, and
\* after the parent's newest run, which is its last, succeeded.
LEMMA WorkStep ==
    ASSUME ExecT!IInv, BackoffLimit = 0, ExecT!NamesDistinct, OrchT!JobsFollowParents,
           [ExecT!Next]_(ExecT!vars)
    PROVE  [Run!Next]_Work
<1>inv. /\ ExecT!TypeOK /\ ExecT!PositionInv /\ ExecT!StartedInv /\ ExecT!RetryInv
        /\ ExecT!CompletedRunSucceeded
    BY DEF ExecT!IInv
<1>types. /\ Exec!ClaimNumbers = ExecT!ClaimNumbers /\ Exec!ClaimNumbers = 1..MaxClaims
          /\ MaxClaims \in Nat
          /\ status \in [Nodes -> ExecT!Statuses]
          /\ claims \in [Nodes -> 0..MaxClaims]
          /\ phase \in [Nodes -> [ExecT!ClaimNumbers ->
                                     {"none", "active", "succeeded", "failed"}]]
          /\ pod_failures \in [Nodes -> [ExecT!ClaimNumbers -> Nat]]
    BY <1>inv, OrchestrationAssumption DEF Exec!ClaimNumbers, ExecT!ClaimNumbers, ExecT!TypeOK,
        ExecT!RowType, ExecT!ClaimType, ExecT!ClusterType
<1>nat. /\ \A i \in Exec!ClaimNumbers : i \in Nat /\ i >= 1
        /\ \A n \in Nodes : claims[n] \in Nat
    BY <1>types
<1>claims. Exec!ClaimNumbers = ExecT!ClaimNumbers
    BY <1>types
<1>newest. \A n \in Nodes, i \in Exec!ClaimNumbers :
               i < claims[n] \/ i = claims[n] \/ i > claims[n]
    BY <1>nat
<1>order. \A n \in Nodes, i \in Exec!ClaimNumbers :
              /\ i > claims[n] => phase[n][i] = "none"
              /\ i < claims[n] => phase[n][i] = "failed"
    BY <1>inv, RunsInOrder
<1>1. CASE UNCHANGED phase
    BY <1>1 DEF Work
<1>2. ASSUME NEW n \in Nodes, NEW k \in ExecT!ClaimNumbers, k = claims[n],
             NEW p \in {"active", "succeeded", "failed"}, phase' = [phase EXCEPT ![n][k] = p]
      PROVE  Work' = [Work EXCEPT ![n] = p]
    <2>1. phase'[n][k] = p /\ \A i \in Exec!ClaimNumbers : i > k => phase'[n][i] = "none"
        BY <1>2, <1>types, <1>nat, <1>order
    <2>2. LastOf(phase'[n]) = p
        BY <1>2, <1>types, <2>1, LastOfRun
    <2>3. \A m \in Nodes \ {n} : phase'[m] = phase[m]
        BY <1>2, <1>types
    <2> QED BY <2>2, <2>3 DEF Work
<1>3. ASSUME NEW n \in Nodes, NEW k \in ExecT!ClaimNumbers, ExecT!CreateJob(n, k)
      PROVE  Run!Next
    <2>1. pc[n][k] = "create" /\ phase' = [phase EXCEPT ![n][k] = "active"]
        BY <1>3 DEF ExecT!CreateJob, ExecT!Call, ExecT!Step, ExecT!Move
    <2>2. k = claims[n] /\ status[n] = "claimed" /\ phase[n][k] = "none"
        <3>1. k = claims[n]
            BY <1>inv, <1>claims, <1>newest, <2>1, ExecT!PositionFacts, ExecConstants
               DEF ExecT!PositionInv
        <3>2. pc[n][k] \in ExecT!Positions(status[n]) /\ status[n] \in ExecT!Statuses
            BY <1>inv, <1>types, <3>1 DEF ExecT!PositionInv
        <3>3. status[n] = "claimed"
            BY <2>1, <3>2, ExecT!PositionFacts, ExecConstants DEF ExecT!Statuses
        <3>4. phase[n][k] = "none"
            BY <1>inv, <2>1 DEF ExecT!StartedInv, ExecT!Unstarted
        <3> QED BY <3>1, <3>3, <3>4
    <2>3. Work[n] \in {"idle", "failed"}
        <3>1. CASE k = 1
            <4>1. \A i \in Exec!ClaimNumbers : phase[n][i] = "none"
                BY <1>nat, <1>claims, <1>newest, <1>order, <2>2, <3>1
            <4> QED BY <4>1, LastOfNone DEF Work
        <3>2. CASE k # 1
            <4>1. k - 1 \in Exec!ClaimNumbers /\ k - 1 < claims[n]
                BY <1>types, <2>2, <3>2
            <4>2. phase[n][k - 1] = "failed"
                BY <1>order, <4>1
            <4>3. \A i \in Exec!ClaimNumbers : i > k - 1 => phase[n][i] = "none"
                BY <1>nat, <1>order, <2>2
            <4>4. LastOf(phase[n]) = "failed"
                BY <4>1, <4>2, <4>3, LastOfRun
            <4> QED BY <4>4 DEF Work
        <3> QED BY <3>1, <3>2
    <2>4. ASSUME ParentOf[n] # None PROVE Work[ParentOf[n]] = "succeeded"
        <3> DEFINE p == ParentOf[n]
        <3>1. p \in Nodes /\ n \notin OrchT!Roots
            BY <2>4, OrchestrationAssumption DEF OrchT!Roots, OrchT!Children
        <3>2. Job[n] = "queued"
            BY <2>2 DEF Job
        <3>3. Job[p] = "succeeded"
            BY <3>1, <3>2 DEF OrchT!JobsFollowParents
        <3>4. status[p] = "completed"
            BY <1>types, <3>1, <3>3 DEF Job, ExecT!Statuses
        <3>5. PICK i \in Exec!ClaimNumbers : i = claims[p] /\ phase[p][i] = "succeeded"
            BY <1>inv, <1>types, <3>1, <3>4 DEF ExecT!CompletedRunSucceeded
        <3>6. \A m \in Exec!ClaimNumbers : m > i => phase[p][m] = "none"
            BY <1>order, <3>1, <3>5
        <3>7. LastOf(phase[p]) = "succeeded"
            BY <3>5, <3>6, LastOfRun
        <3> QED BY <3>1, <3>7 DEF Work
    <2>5. Work' = [Work EXCEPT ![n] = "active"]
        BY <1>2, <2>1, <2>2
    <2> QED BY <2>3, <2>4, <2>5 DEF Run!Next, Run!Start
<1>4. ASSUME NEW n \in Nodes, NEW k \in ExecT!ClaimNumbers,
             ExecT!RunSucceeds(n, k) \/ ExecT!PodFails(n, k)
      PROVE  Run!Next
    <2>1. PICK p \in {"succeeded", "failed"} :
              phase[n][k] = "active" /\ phase' = [phase EXCEPT ![n][k] = p]
        BY <1>4, <1>types DEF ExecT!RunSucceeds, ExecT!PodFails
    <2>2. k = claims[n]
        BY <1>claims, <1>newest, <1>order, <2>1
    <2>3. Work[n] = "active"
        BY <1>types, <1>nat, <1>order, <2>1, <2>2, LastOfRun DEF Work
    <2>4. Work' = [Work EXCEPT ![n] = p]
        BY <1>2, <2>1, <2>2
    <2> QED BY <2>3, <2>4 DEF Run!Next, Run!End
<1> QED BY <1>1, <1>3, <1>4, PhaseChanges

\* Without a backoffLimit and with names of their own, the nodes' runs on the cluster
\* follow the DAG, whatever is retried, lost or restarted in between: nothing of a
\* node runs before its parent's run succeeded, and what succeeded never runs again.
THEOREM RunImplemented == BackoffLimit = 0 /\ ExecT!NamesDistinct => (Spec => ImplementsRun)
<1> SUFFICES ASSUME BackoffLimit = 0, ExecT!NamesDistinct PROVE Spec => ImplementsRun
    OBVIOUS
<1>1. Spec => []ExecT!IInv
    BY ExecutorImplemented, ExecT!Invariance, ExecConstants, PTL
<1>2. Spec => []OrchT!JobsFollowParents
    BY OrchestratorAsProved, OrchT!JobsFollowParentsHolds, DagConstants, PTL
<1>3. Init => Run!Init
    <2> SUFFICES ASSUME Init PROVE Run!Init
        OBVIOUS
    <2>1. \A n \in Nodes : LastOf(phase[n]) = "idle"
        BY LastOfNone DEF Init, Exec!Init
    <2> QED BY <2>1 DEF Run!Init, Work
<1>4. ExecT!IInv /\ OrchT!JobsFollowParents /\ [ExecT!Next]_(ExecT!vars) => [Run!Next]_Work
    BY WorkStep
<1>5. Spec => [][ExecT!Next]_(ExecT!vars)
    BY ExecutorImplemented, PTL DEF ExecT!Spec
<1> QED BY <1>1, <1>2, <1>3, <1>4, <1>5, PTL DEF Spec, ImplementsRun, Run!Spec

\* Whatever the backoffLimit, a node runs on the cluster only after a run of its
\* parent succeeded there: monitor_job completes a row only when it saw that, and
\* the handlers insert a child's row only after the parent's has been completed.
THEOREM WorkFollowsParentsHolds == ExecT!NamesDistinct => (Spec => []WorkFollowsParents)
<1> SUFFICES ASSUME ExecT!NamesDistinct PROVE Spec => []WorkFollowsParents
    OBVIOUS
<1>1. Spec => []ExecT!IInv
    BY ExecutorImplemented, ExecT!Invariance, ExecConstants, PTL
<1>2. Spec => []OrchT!JobsFollowParents
    BY OrchestratorAsProved, OrchT!JobsFollowParentsHolds, DagConstants, PTL
<1>3. ExecT!IInv /\ OrchT!JobsFollowParents => WorkFollowsParents
    <2> SUFFICES ASSUME ExecT!IInv, OrchT!JobsFollowParents,
                        NEW n \in Nodes \ Roots, NEW k \in Exec!ClaimNumbers, phase[n][k] # "none"
                 PROVE  \E i \in Exec!ClaimNumbers : phase[ParentOf[n]][i] = "succeeded"
        BY DEF WorkFollowsParents
    <2>1. /\ ExecT!PositionInv /\ ExecT!StartedInv /\ ExecT!AbsentInv
          /\ ExecT!CompletedRunSucceeded
          /\ status \in [Nodes -> ExecT!Statuses]
          /\ Exec!ClaimNumbers = ExecT!ClaimNumbers /\ Exec!ClaimNumbers = 1..MaxClaims
        BY DEF ExecT!IInv, ExecT!TypeOK, ExecT!RowType, Exec!ClaimNumbers, ExecT!ClaimNumbers
    <2>2. status[n] # "absent"
        <3> SUFFICES ASSUME status[n] = "absent" PROVE FALSE
            OBVIOUS
        <3>1. k > claims[n]
            BY <2>1, OrchestrationAssumption DEF ExecT!AbsentInv
        <3>2. pc[n][k] = "new"
            BY <2>1, <3>1 DEF ExecT!PositionInv
        <3> QED BY <2>1, <3>2 DEF ExecT!StartedInv, ExecT!Unstarted
    <2>3. Job[n] # "none"
        BY <2>2 DEF Job
    <2>4. ParentOf[n] \in Nodes /\ n \notin OrchT!Roots
        BY OrchestrationAssumption DEF Roots, OrchT!Roots, OrchT!Children
    <2>5. Job[ParentOf[n]] = "succeeded"
        BY <2>3, <2>4 DEF OrchT!JobsFollowParents
    <2>6. status[ParentOf[n]] = "completed"
        BY <2>1, <2>4, <2>5 DEF Job, ExecT!Statuses
    <2> QED BY <2>1, <2>4, <2>6 DEF ExecT!CompletedRunSucceeded
<1> QED BY <1>1, <1>2, <1>3, PTL

\* The verdict of check_and_update_dag_status and of handle_job_failure is true of
\* the cluster: completed only if every node's last run succeeded, failed only if
\* some node was out of retries and its last run had lost a pod.
THEOREM VerdictIsEarnedHolds == ExecT!NamesDistinct => (Spec => []VerdictIsEarned)
<1> SUFFICES ASSUME ExecT!NamesDistinct PROVE Spec => []VerdictIsEarned
    OBVIOUS
<1>1. Spec => []ExecT!IInv
    BY ExecutorImplemented, ExecT!Invariance, ExecConstants, PTL
<1>2. Spec => []OrchT!IInv
    BY OrchestratorAsProved, OrchT!DagInvariance, DagConstants, PTL
<1>3. Spec => []CallInv
    BY CallInvHolds
<1>4. ExecT!IInv /\ OrchT!IInv /\ CallInv => VerdictIsEarned
    <2> SUFFICES ASSUME ExecT!IInv, OrchT!IInv, CallInv PROVE VerdictIsEarned
        OBVIOUS
    <2>1. /\ ExecT!CompletedRunSucceeded /\ ExecT!FailuresAreReal
          /\ status \in [Nodes -> ExecT!Statuses]
          /\ Exec!ClaimNumbers = ExecT!ClaimNumbers
          /\ OrchT!VerdictInv
        BY DEF ExecT!IInv, ExecT!TypeOK, ExecT!RowType, Exec!ClaimNumbers, ExecT!ClaimNumbers,
            OrchT!IInv
    <2>2. ASSUME dag_status = "completed", NEW n \in Nodes
          PROVE  \E k \in Exec!ClaimNumbers : k = claims[n] /\ phase[n][k] = "succeeded"
        <3>1. Job[n] = "succeeded"
            BY <2>1, <2>2 DEF OrchT!VerdictInv
        <3>2. status[n] = "completed"
            BY <2>1, <3>1 DEF Job, ExecT!Statuses
        <3> QED BY <2>1, <3>2 DEF ExecT!CompletedRunSucceeded
    <2>3. ASSUME dag_status = "failed"
          PROVE  \E n \in Nodes :
                     /\ retry_count[n] = MaxRetries[n]
                     /\ \E k \in Exec!ClaimNumbers : k = claims[n] /\ pod_failures[n][k] > 0
        <3>1. PICK n \in Nodes : Job[n] = "failed" /\ Handler[n] \notin {"none", "fail_node"}
            BY <2>1, <2>3 DEF OrchT!VerdictInv
        <3>2. status[n] = "failed"
            BY <2>1, <3>1 DEF Job, ExecT!Statuses
        <3>3. handler[n] # "none"
            BY <3>1, <3>2 DEF Handler
        <3>4. "failure" \in dag_calls[n]
            BY <3>2, <3>3 DEF CallInv
        <3> QED BY <2>1, <3>4 DEF ExecT!FailuresAreReal
    <2> QED BY <2>2, <2>3 DEF VerdictIsEarned
<1> QED BY <1>1, <1>2, <1>3, <1>4, PTL

\* Of a completed node nothing is ever missing without a cause: its task calls the
\* handler if it comes to its end (DagHearsTheOutcome), a call leads to a handler
\* (CallInv), and a handler that is past the inserts has made them all (ChildInv).
THEOREM StallHasACauseHolds == Spec => []StallHasACause
<1>1. Spec => []ExecT!IInv
    BY ExecutorImplemented, ExecT!Invariance, ExecConstants, PTL
<1>2. Spec => []OrchT!IInv
    BY OrchestratorAsProved, OrchT!DagInvariance, DagConstants, PTL
<1>3. Spec => []CallInv
    BY CallInvHolds
<1>4. ExecT!IInv /\ OrchT!IInv /\ CallInv => StallHasACause
    <2> SUFFICES ASSUME ExecT!IInv, OrchT!IInv, CallInv,
                        NEW n \in Nodes, HasContext(n), status[n] = "completed",
                        handler[n] \notin Enqueueing \cup {"error"},
                        \A k \in Exec!ClaimNumbers : k = claims[n] =>
                            pc[n][k] \notin Exec!Epilogue \cup {"error", "crashed"},
                        NEW c \in Dag!Children(n)
                 PROVE  status[c] # "absent"
        BY DEF StallHasACause
    <2>0. Exec!ClaimNumbers = ExecT!ClaimNumbers
        BY DEF Exec!ClaimNumbers, ExecT!ClaimNumbers
    <2>1. PICK k \in Exec!ClaimNumbers : k = claims[n] /\ pc[n][k] = "done"
        <3>1. /\ ExecT!PositionInv /\ ExecT!RetryBudget
              /\ claims[n] \in 0..MaxClaims /\ retry_count[n] \in Nat
            BY DEF ExecT!IInv, ExecT!TypeOK, ExecT!RowType, ExecT!ClaimType
        <3>2. claims[n] = retry_count[n] + 1
            BY <3>1 DEF ExecT!RetryBudget
        <3>3. claims[n] \in 1..MaxClaims
            BY <3>1, <3>2, OrchestrationAssumption
        <3>4. claims[n] \in Exec!ClaimNumbers
            BY <3>3 DEF Exec!ClaimNumbers
        <3>5. pc[n][claims[n]] \in ExecT!Positions("completed")
            BY <2>0, <3>1, <3>4 DEF ExecT!PositionInv
        <3> QED BY <3>4, <3>5, ExecT!PositionFacts, ExecConstants DEF Exec!Epilogue
    <2>2. dag_calls[n] # {}
        BY <2>0, <2>1 DEF ExecT!IInv, ExecT!DagHearsTheOutcome
    <2>3. handler[n] # "none" /\ Handler[n] = handler[n] /\ handler[n] \in Dag!PCs
        BY <2>2 DEF CallInv, Handler
    <2>4. Job[n] = "succeeded" /\ OrchT!JobInv /\ OrchT!ChildInv
        BY DEF Job, OrchT!IInv
    <2>5. Handler[n] \notin OrchT!Failing
        BY <2>4 DEF OrchT!JobInv
    <2>6. Handler[n] \in OrchT!After \cup {"mark_ready", "done"}
        BY <2>3, <2>5 DEF Enqueueing, Dag!PCs, Dag!Completing, Dag!Failing, OrchT!Failing,
            OrchT!After
    <2>7. c \in OrchT!Children(n) /\ c \in Nodes /\ c \notin Roots
        BY OrchestrationAssumption DEF Dag!Children, OrchT!Children, Roots
    <2>8. Job[c] # "none"
        BY <2>4, <2>6, <2>7 DEF OrchT!ChildInv
    <2> QED BY <2>7, <2>8 DEF Job
<1> QED BY <1>1, <1>2, <1>3, <1>4, PTL

\* Without a link to the execution in the rows they insert, the handlers never have
\* the row of a node below the children of the roots, whatever the executor does.
THEOREM TwoGenerationsOfRows ==
    ~LinkChildren =>
        (Spec => [](\A n \in Nodes \ Roots : status[n] # "absent" => ParentOf[n] \in Roots))
<1> SUFFICES ASSUME ~LinkChildren
             PROVE  Spec => [](\A n \in Nodes \ Roots :
                                   status[n] # "absent" => ParentOf[n] \in Roots)
    OBVIOUS
<1>1. Spec => []OrchT!TwoGenerations
    BY OrchestratorAsProved, OrchT!TwoGenerationsHolds, DagConstants, PTL
<1>2. OrchT!TwoGenerations =>
          \A n \in Nodes \ Roots : status[n] # "absent" => ParentOf[n] \in Roots
    <2>1. OrchT!Roots = Roots
        BY DEF OrchT!Roots, OrchT!Children, Roots
    <2>2. \A n \in Nodes : status[n] # "absent" => Job[n] # "none"
        BY DEF Job
    <2> QED BY <2>1, <2>2 DEF OrchT!TwoGenerations
<1> QED BY <1>1, <1>2, PTL

=============================================================================
