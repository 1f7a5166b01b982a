------------------------- MODULE JobExecutorProofs -------------------------
(***************************************************************************)
(* What is proved of JobExecutor for every number of jobs, executors,      *)
(* retries and claims.                                                     *)
(***************************************************************************)
EXTENDS JobExecutor, FiniteSetTheorems, TLAPS

\* A move of a task to a position that exists keeps the type of pc.
LEMMA StepType ==
    ASSUME NEW j \in Jobs, NEW n \in ClaimNumbers, NEW from, NEW to \in PCs,
           PcType, Step(j, n, from, to)
    PROVE  PcType'
<1>1. permits' \in [Executors -> Nat]
    <2> DEFINE x == on[j][n]
    <2>1. permits \in [Executors -> Nat]
        BY DEF PcType
    <2>2. [permits EXCEPT ![x] = permits[x] + 1] \in [Executors -> Nat]
        <3>1. CASE x \in Executors
            BY <2>1, <3>1
        <3>2. CASE x \notin Executors
            <4>1. [permits EXCEPT ![x] = permits[x] + 1] = permits
                BY <2>1, <3>2
            <4> QED BY <2>1, <4>1
        <3> QED BY <3>1, <3>2
    <2>3. permits' \in {permits, [permits EXCEPT ![x] = permits[x] + 1]}
        BY DEF Step, Release
    <2> QED BY <2>1, <2>2, <2>3
<1>2. pc' \in [Jobs -> [ClaimNumbers -> PCs]]
    BY DEF PcType, Step, Move
<1> QED BY <1>1, <1>2 DEF PcType

\* So does a call, whether its answer arrives or is lost.
LEMMA CallType ==
    ASSUME NEW j \in Jobs, NEW n \in ClaimNumbers, NEW from, NEW to \in PCs,
           PcType, Call(j, n, from, to)
    PROVE  PcType'
<1>1. "error" \in PCs
    BY DEF PCs, Ended
<1> QED BY <1>1, StepType DEF Call

\* A new entry of job_execution_history keeps the type of the log.
LEMMA RecordType ==
    ASSUME NEW j \in Jobs, NEW n \in ClaimNumbers, NEW s \in Statuses, 
           LogType, Record(j, n, s), UNCHANGED dag_calls
    PROVE  LogType'
BY DEF LogType, Record

\* The name execute_job asks the cluster for is the name of some job.
LEMMA JobNameType ==
    ASSUME NEW j \in Jobs, NEW n \in ClaimNumbers, ClaimType
    PROVE  JobName(j, n) \in Names
BY ConstantsAssumption DEF JobName, ClaimType, Names

\* The update of claim_jobs keeps the types of the rows and of their tasks, as
\* long as every claimed row may still be claimed.
LEMMA ClaimRowsType ==
    ASSUME NEW e \in Executors, NEW S \in SUBSET Jobs, NEW p \in {"queued", "error"},
           TypeOK, ClaimRows(e, S, p), UNCHANGED permits,
           \A j \in S : claims[j] < MaxClaims
    PROVE  RowType' /\ PcType' /\ claims' \in [Jobs -> 0..MaxClaims]
           /\ on' \in [Jobs -> [ClaimNumbers -> Executors \cup {None}]]
           /\ seen' \in [Jobs -> [ClaimNumbers ->
                    [retry_count : Nat, k8s_job_name : Names \cup {None}]]]
<1>1. RowType'
   BY DEF TypeOK, RowType, ClaimRows, Statuses
<1>2. p \in PCs
   BY DEF PCs, Ended, Live
<1>3. \A j \in Jobs : claims[j] \in 0..MaxClaims
   BY DEF TypeOK, ClaimType
<1>4. PcType'
   BY <1>2, <1>3 DEF TypeOK, PcType, ClaimRows, ClaimNumbers
<1>5. claims' \in [Jobs -> 0..MaxClaims]
   BY <1>3, ConstantsAssumption DEF ClaimRows
<1>6. on' \in [Jobs -> [ClaimNumbers -> Executors \cup {None}]]
   BY <1>3 DEF TypeOK, ClaimType, ClaimRows, ClaimNumbers
<1>7. seen' \in [Jobs -> [ClaimNumbers ->
                    [retry_count : Nat, k8s_job_name : Names \cup {None}]]]
   BY <1>3 DEF TypeOK, ClaimType, RowType, ClaimRows, ClaimNumbers
<1> QED BY <1>1, <1>4, <1>5, <1>6, <1>7

\* The updates of a single row (update_job_status, requeue_job) keep its type.
LEMMA RowWriteType ==
    ASSUME NEW j \in Jobs, RowType
    PROVE  /\ \A s \in Statuses : UpdateStatus(j, s) => RowType'
           /\ \A name \in Names : UpdateRunning(j, name) => RowType'
           /\ RequeueRow(j) => RowType'
BY DEF RowType, UpdateStatus, UpdateRunning, RequeueRow, Statuses

-----------------------------------------------------------------------------
(* Type correctness.                                                       *)

\* The claim loop, a crash and a restart keep the types.  The bound on claims
\* needs LockInv: a row is locked only below MaxClaims.
LEMMA LoopTypeStep ==
    ASSUME NEW e \in Executors, TypeOK, LockInv,
           LoopStep(e) \/ Crash(e) \/ Restart(e)
    PROVE  TypeOK'
<1> USE DEF TypeOK
<1>row. UNCHANGED row => RowType'
    BY DEF row, RowType
<1>log. LogType' /\ ClusterType'
    <2>1. UNCHANGED <<history, dag_calls, cluster_vars>>
        <3>1. CASE ReadTopics(e) \/ ClaimLock(e) \/ ClaimAbort(e) \/ LoopDone(e)
            BY <3>1 DEF ReadTopics, ClaimLock, ClaimAbort, LoopDone
        <3>2. CASE ClaimCommit(e) \/ ClaimLost(e)
            BY <3>2 DEF ClaimCommit, ClaimLost
        <3>3. CASE Crash(e) \/ Restart(e)
            BY <3>3 DEF Crash, Restart
        <3> QED BY <3>1, <3>2, <3>3 DEF LoopStep
    <2> QED BY <2>1 DEF LogType, ClusterType, cluster_vars
<1>1. CASE ReadTopics(e)
    <2>1. EffectiveTopics(e) \subseteq Topics
        BY ConstantsAssumption DEF EffectiveTopics
    <2>2. LoopType'
        BY <1>1, <2>1 DEF ReadTopics, LoopType
    <2>3. ClaimType' /\ PcType'
        BY <1>1 DEF ReadTopics, ClaimType, PcType
    <2> QED BY <1>1, <2>2, <2>3, <1>log, <1>row DEF ReadTopics
<1>2. CASE ClaimLock(e)
    <2>1. PICK S \in SUBSET Jobs :
              /\ locked' = [locked EXCEPT ![e] = S]
              /\ loop' = [loop EXCEPT ![e] = IF S = {} THEN "idle" ELSE "locked"]
        BY <1>2 DEF ClaimLock, FirstRows, Claimable
    <2>2. ClaimType'
        BY <1>2, <2>1 DEF ClaimLock, ClaimType
    <2>3. LoopType'
        BY <1>2, <2>1 DEF ClaimLock, LoopType
    <2>4. PcType'
        BY <1>2 DEF ClaimLock, PcType
    <2> QED BY <1>2, <2>2, <2>3, <2>4, <1>log, <1>row DEF ClaimLock
<1>3. CASE ClaimCommit(e) \/ ClaimLost(e)
    <2>1. PICK p \in {"queued", "error"} : ClaimRows(e, locked[e], p) /\ UNCHANGED permits
        BY <1>3 DEF ClaimCommit, ClaimLost
    <2>2. locked[e] \in SUBSET Jobs
        BY DEF ClaimType
    <2>3. \A j \in locked[e] : claims[j] < MaxClaims
        BY DEF LockInv
    <2>4. LoopType' /\ locked' \in [Executors -> SUBSET Jobs]
        BY <1>3 DEF ClaimCommit, ClaimLost, Unlock, LoopType, ClaimType
    <2> QED BY <2>1, <2>2, <2>3, <2>4, <1>log, ClaimRowsType DEF ClaimType
<1>4. CASE ClaimAbort(e) \/ LoopDone(e) \/ Restart(e) \/ Crash(e)
    <2>1. RowType'
        BY <1>4, <1>row DEF ClaimAbort, LoopDone, Restart, Crash
    <2>2. ClaimType' /\ LoopType'
        BY <1>4 DEF ClaimAbort, LoopDone, Restart, Crash, Unlock, ClaimType, LoopType
    <2>3. PcType'
        BY <1>4, ConstantsAssumption
           DEF ClaimAbort, LoopDone, Restart, Crash, PcType, PCs, Ended
    <2> QED BY <2>1, <2>2, <2>3, <1>log
<1> QED BY <1>1, <1>2, <1>3, <1>4 DEF LoopStep

\* The steps of a task keep the types.
LEMMA TaskTypeStep ==
    ASSUME NEW j \in Jobs, NEW n \in ClaimNumbers, TypeOK, TaskStep(j, n)
    PROVE  TypeOK'
<1> USE DEF TypeOK
<1>row. UNCHANGED row => RowType'
    BY DEF row, RowType
<1>claim. UNCHANGED claim_vars => ClaimType' /\ LoopType'
    BY DEF claim_vars, ClaimType, LoopType
<1>cluster. UNCHANGED cluster_vars => ClusterType'
    BY DEF cluster_vars, ClusterType
<1>log. UNCHANGED history /\ UNCHANGED dag_calls => LogType'
    BY DEF LogType
<1>name. JobName(j, n) \in Names
    BY JobNameType
<1>pcs. /\ Executing \cup Monitoring \cup Epilogue \subseteq PCs
        /\ "done" \in PCs /\ "error" \in PCs
    BY DEF PCs, Live, Ended
<1>status. /\ "claimed" \in Statuses /\ "running" \in Statuses
           /\ "completed" \in Statuses /\ "failed" \in Statuses
    BY DEF Statuses
<1>spawn. CASE Spawn(j, n)
    <2>1. pc' \in [Jobs -> [ClaimNumbers -> PCs]]
        BY <1>spawn, <1>pcs DEF Spawn, Move, PcType, Executing
    <2>2. permits' \in [Executors -> Nat]
        <3>1. CASE EventDriven /\ on[j][n] \in Executors
            BY <1>spawn, <3>1 DEF Spawn, PcType
        <3>2. CASE EventDriven /\ on[j][n] \notin Executors
            <4>1. permits' = permits
                BY <1>spawn, <3>2 DEF Spawn, PcType
            <4> QED BY <4>1 DEF PcType
        <3>3. CASE ~EventDriven
            BY <1>spawn, <3>3 DEF Spawn, PcType
        <3> QED BY <3>1, <3>2, <3>3
    <2> QED BY <1>spawn, <2>1, <2>2, <1>row, <1>claim, <1>cluster, <1>log DEF Spawn, PcType
<1>1. CASE GetImage(j, n) \/ CreateConflict(j, n) \/ PollStatus(j, n)
           \/ MonitorTimeout(j, n) \/ WaitForOutputs(j, n) \/ CallError(j, n)
    <2>1. PcType'
        <3>1. \E from, to \in PCs : Step(j, n, from, to)
            BY <1>1, <1>pcs DEF GetImage, CreateConflict, PollStatus, MonitorTimeout,
                WaitForOutputs, CallError, PcType, Executing, Monitoring, Epilogue
        <3> QED BY <3>1, StepType
    <2> QED BY <1>1, <2>1, <1>row, <1>claim, <1>cluster, <1>log
            DEF GetImage, CreateConflict, PollStatus, MonitorTimeout,
                WaitForOutputs, CallError
<1>2. CASE HistClaimed(j, n) \/ HistRunning(j, n) \/ HistCompleted(j, n)
           \/ HistRequeued(j, n) \/ HistFailed(j, n) \/ HistTimeout(j, n)
    <2>1. PcType'
        <3>1. \E from, to \in PCs : Call(j, n, from, to)
            BY <1>2, <1>pcs DEF HistClaimed, HistRunning, HistCompleted, HistRequeued,
                HistFailed, HistTimeout, Executing, Monitoring, Epilogue
        <3> QED BY <3>1, CallType
    <2>2. LogType'
        BY <1>2, <1>status, RecordType DEF HistClaimed, HistRunning, HistCompleted,
            HistRequeued, HistFailed, HistTimeout
    <2> QED BY <1>2, <2>1, <2>2, <1>row, <1>claim, <1>cluster
            DEF HistClaimed, HistRunning, HistCompleted, HistRequeued, HistFailed, HistTimeout
<1>3. CASE DagCompleted(j, n) \/ DagFailed(j, n)
    <2>1. PcType'
        <3>1. \E from, to \in PCs : Step(j, n, from, to)
            BY <1>3, <1>pcs DEF DagCompleted, DagFailed, CallDag, Epilogue
        <3> QED BY <3>1, StepType
    <2>2. LogType'
        BY <1>3 DEF DagCompleted, DagFailed, CallDag, LogType
    <2> QED BY <1>3, <2>1, <2>2, <1>row, <1>claim, <1>cluster
            DEF DagCompleted, DagFailed, CallDag
<1>4. CASE MarkRunning(j, n) \/ MarkCompleted(j, n) \/ MarkFailed(j, n)
           \/ MarkTimeout(j, n) \/ Requeue(j, n)
    <2>1. PcType'
        <3>1. \E from, to \in PCs : Call(j, n, from, to)
            BY <1>4, <1>pcs DEF MarkRunning, MarkCompleted, MarkFailed, MarkTimeout, Requeue,
                Executing, Monitoring, Epilogue
        <3> QED BY <3>1, CallType
    <2>2. RowType'
        BY <1>4, <1>status, <1>name, RowWriteType
           DEF MarkRunning, MarkCompleted, MarkFailed, MarkTimeout, Requeue
    <2> QED BY <1>4, <2>1, <2>2, <1>claim, <1>cluster, <1>log
            DEF MarkRunning, MarkCompleted, MarkFailed, MarkTimeout, Requeue
<1>5. CASE CreateJob(j, n)
    <2>1. PcType'
        BY <1>5, <1>pcs, CallType DEF CreateJob, Executing
    <2>2. ClusterType'
        BY <1>5, <1>name DEF CreateJob, ClusterType, Runs
    <2> QED BY <1>5, <2>1, <2>2, <1>row, <1>claim, <1>log DEF CreateJob
<1> QED BY <1>spawn, <1>1, <1>2, <1>3, <1>4, <1>5 DEF TaskStep

\* The cluster's own steps and a submission keep the types.
LEMMA EnvironmentTypeStep ==
    ASSUME TypeOK,
           \/ \E S \in SUBSET Jobs : Enqueue(S)
           \/ \E j \in Jobs, n \in ClaimNumbers : ClusterStep(j, n)
           \/ \E name \in Names : Expire(name)
    PROVE  TypeOK'
<1> USE DEF TypeOK
<1>1. RowType'
    BY DEF Enqueue, ClusterStep, RunSucceeds, PodFails, Expire, row, RowType, Statuses
<1>2. ClaimType' /\ LoopType'
    BY DEF Enqueue, ClusterStep, RunSucceeds, PodFails, Expire, claim_vars, ClaimType,
           LoopType
<1>3. PcType' /\ LogType'
    BY DEF Enqueue, ClusterStep, RunSucceeds, PodFails, Expire, PcType, LogType
<1>4. ClusterType'
    <2>1. CASE \E S \in SUBSET Jobs : Enqueue(S)
        BY <2>1 DEF Enqueue, cluster_vars, ClusterType
    <2>2. ASSUME NEW j \in Jobs, NEW n \in ClaimNumbers, RunSucceeds(j, n)
          PROVE  ClusterType'
        BY <2>2 DEF RunSucceeds, ClusterType
    <2>3. ASSUME NEW j \in Jobs, NEW n \in ClaimNumbers, PodFails(j, n)
          PROVE  ClusterType'
        <3>1. phase' \in [Jobs -> [ClaimNumbers -> {"none", "active", "succeeded", "failed"}]]
            BY <2>3 DEF PodFails, ClusterType
        <3>2. pod_failures' \in [Jobs -> [ClaimNumbers -> Nat]]
            BY <2>3 DEF PodFails, ClusterType
        <3> QED BY <2>3, <3>1, <3>2 DEF PodFails, ClusterType
    <2>4. CASE \E name \in Names : Expire(name)
        BY <2>4 DEF Expire, ClusterType
    <2> QED BY <2>1, <2>2, <2>3, <2>4 DEF ClusterStep
<1> QED BY <1>1, <1>2, <1>3, <1>4

\* Every step keeps the types.
LEMMA TypeStep == TypeOK /\ LockInv /\ [Next]_vars => TypeOK'
<1> SUFFICES ASSUME TypeOK, LockInv, [Next]_vars PROVE TypeOK'
    OBVIOUS
<1>1. CASE UNCHANGED vars
    BY <1>1 DEF vars, row, claim_vars, cluster_vars, TypeOK, RowType, ClaimType, LoopType,
              PcType, ClusterType, LogType
<1> QED BY <1>1, LoopTypeStep, TaskTypeStep, EnvironmentTypeStep DEF Next

-----------------------------------------------------------------------------
(* The inductive invariant.                                                *)

\* What a step has to keep of the invariant beside the types and the names.
RowsInv == PositionInv /\ RetryBudget /\ AbsentInv /\ SnapshotInv /\ LockInv

\* Positions, case by case: the provers see no further into CASE.
LEMMA PositionFacts ==
    /\ Positions("absent") = {}
    /\ Positions("pending") = {"hist_requeued", "done", "error", "crashed"}
    /\ Positions("claimed") = {"queued", "hist_claimed", "image", "create",
                               "mark_running", "error", "crashed"}
    /\ Positions("running") = {"hist_running", "monitor", "mark_completed", "requeue",
                               "mark_failed", "mark_timeout", "error", "crashed"}
    /\ Positions("completed") = {"hist_completed", "outputs", "dag_completed",
                                 "done", "error", "crashed"}
    /\ Positions("failed") = {"hist_failed", "dag_failed", "hist_timeout",
                              "done", "error", "crashed"}
BY DEF Positions

\* A task may go from one position to the other without its row changing.
Follows(from, to) ==
    /\ from # "new"
    /\ \A s \in Statuses : from \in Positions(s) => to \in Positions(s)

\* The moves of the tasks that leave every row alone.
QuietMoves ==
    {<<"queued", "hist_claimed">>, <<"hist_claimed", "image">>, <<"image", "create">>,
     <<"create", "mark_running">>, <<"hist_running", "monitor">>,
     <<"monitor", "mark_completed">>, <<"monitor", "requeue">>,
     <<"monitor", "mark_failed">>, <<"monitor", "mark_timeout">>,
     <<"hist_completed", "outputs">>, <<"outputs", "dag_completed">>,
     <<"outputs", "done">>, <<"dag_completed", "done">>, <<"hist_requeued", "done">>,
     <<"hist_failed", "dag_failed">>, <<"hist_failed", "done">>,
     <<"dag_failed", "done">>, <<"hist_timeout", "done">>}

\* The moves of a task that does not write its row lead from a position to one
\* that the same status allows, and so does the end with an error.
LEMMA QuietMovesFollow ==
    /\ \A from, to : <<from, to>> \in QuietMoves => Follows(from, to)
    /\ \A from : from # "new" => Follows(from, "error")
<1>1. \A from, to : <<from, to>> \in QuietMoves => Follows(from, to)
    BY PositionFacts DEF QuietMoves, Follows, Statuses
<1>2. \A from : from # "new" => Follows(from, "error")
    BY PositionFacts DEF Follows, Statuses
<1> QED BY <1>1, <1>2

\* A step of a task that writes no row keeps what positions, rows and snapshots
\* say together.
LEMMA QuietStep ==
    ASSUME NEW j \in Jobs, NEW n \in ClaimNumbers, TypeOK, RowsInv,
           NEW from, NEW to, Move(j, n, from, to), Follows(from, to),
           to = "requeue" => ShouldRetry(j, n),
           UNCHANGED <<row, claim_vars>>
    PROVE  RowsInv'
<1> USE DEF RowsInv
<1>1. UNCHANGED <<status, retry_count, claimed_by, locked, claims, on, seen>>
    BY DEF row, claim_vars
<1>2. RetryBudget' /\ AbsentInv' /\ LockInv'
    BY <1>1 DEF RetryBudget, AbsentInv, LockInv
<1>3. PositionInv'
    <2> SUFFICES ASSUME NEW i \in Jobs, NEW m \in ClaimNumbers
                 PROVE  /\ m > claims[i] => pc'[i][m] = "new"
                        /\ m < claims[i] => pc'[i][m] \in Positions("pending")
                        /\ m = claims[i] => pc'[i][m] \in Positions(status[i])
        BY <1>1 DEF PositionInv
    <2>1. CASE i = j /\ m = n
        <3>1. pc'[i][m] = to /\ pc[i][m] = from
            BY <2>1 DEF Step, Move, TypeOK, PcType
        <3>2. status[i] \in Statuses /\ "pending" \in Statuses
            BY DEF TypeOK, RowType, Statuses
        <3> QED BY <2>1, <3>1, <3>2 DEF PositionInv, Follows
    <2>2. CASE ~(i = j /\ m = n)
        <3>1. pc'[i][m] = pc[i][m]
            BY <2>2 DEF Step, Move, TypeOK, PcType
        <3> QED BY <3>1 DEF PositionInv
    <2> QED BY <2>1, <2>2
<1>4. SnapshotInv'
    <2> SUFFICES ASSUME NEW i \in Jobs, NEW m \in ClaimNumbers,
                        pc'[i][m] = "requeue", pc[i][m] # "requeue"
                 PROVE  ShouldRetry(i, m)
        BY <1>1 DEF SnapshotInv, ShouldRetry
    <2>1. i = j /\ m = n /\ to = "requeue"
        BY DEF Step, Move, TypeOK, PcType
    <2> QED BY <2>1
<1> QED BY <1>2, <1>3, <1>4

\* A task that stands before a write of its row is the newest of the row, and
\* the row has the status the task expects.
LEMMA WriterIsNewest ==
    ASSUME NEW j \in Jobs, NEW n \in ClaimNumbers, TypeOK, PositionInv
    PROVE  /\ pc[j][n] = "mark_running" => n = claims[j] /\ status[j] = "claimed"
           /\ pc[j][n] \in Monitoring => n = claims[j] /\ status[j] = "running"
<1>1. status[j] \in Statuses /\ claims[j] \in Nat /\ n \in Nat
    BY ConstantsAssumption DEF TypeOK, RowType, ClaimType, ClaimNumbers
<1>2. pc[j][n] = "mark_running" \/ pc[j][n] \in Monitoring => n = claims[j]
    BY <1>1, PositionFacts DEF PositionInv, Monitoring
<1> QED BY <1>1, <1>2, PositionFacts DEF PositionInv, Monitoring, Statuses

\* update_job_status by the newest task of a claimed or running row.
LEMMA UpdateStep ==
    ASSUME NEW j \in Jobs, NEW n \in ClaimNumbers, TypeOK, RowsInv,
           NEW from, NEW to, Move(j, n, from, to),
           NEW s \in {"running", "completed", "failed"}, to \in Positions(s),
           to # "requeue", n = claims[j], status[j] \in {"claimed", "running"},
           status' = [status EXCEPT ![j] = s],
           UNCHANGED <<retry_count, claimed_by, claim_vars>>
    PROVE  RowsInv'
<1> USE DEF RowsInv
<1>1. UNCHANGED <<retry_count, claimed_by, locked, claims, on, seen>>
    BY DEF claim_vars
<1>2. \A i \in Jobs : status'[i] = IF i = j THEN s ELSE status[i]
    BY DEF TypeOK, RowType
<1>3. \A i \in Jobs, m \in ClaimNumbers :
          pc'[i][m] = IF i = j /\ m = n THEN to ELSE pc[i][m]
    BY DEF Step, Move, TypeOK, PcType
<1>4. RetryBudget' /\ AbsentInv' /\ LockInv'
    <2>1. RetryBudget'
        BY <1>1, <1>2 DEF RetryBudget
    <2>2. AbsentInv'
        BY <1>1, <1>2 DEF AbsentInv
    <2>3. LockInv'
        BY <1>1, <1>2 DEF LockInv, TypeOK, ClaimType
    <2> QED BY <2>1, <2>2, <2>3
<1>5. PositionInv'
    BY <1>1, <1>2, <1>3 DEF PositionInv, ClaimNumbers
<1>6. SnapshotInv'
    BY <1>1, <1>2, <1>3 DEF SnapshotInv, ShouldRetry
<1> QED BY <1>4, <1>5, <1>6

\* requeue_job by the newest task of a running row.
LEMMA RequeueStep ==
    ASSUME NEW j \in Jobs, NEW n \in ClaimNumbers, TypeOK, RowsInv,
           NEW to \in {"hist_requeued", "error"}, Move(j, n, "requeue", to),
           RequeueRow(j), UNCHANGED claim_vars
    PROVE  RowsInv'
<1> USE DEF RowsInv
<1>1. UNCHANGED <<locked, claims, on, seen>>
    BY DEF claim_vars
<1>2. n = claims[j] /\ status[j] = "running"
    BY WriterIsNewest DEF Step, Move, Monitoring
<1>3. \A i \in Jobs : /\ status'[i] = IF i = j THEN "pending" ELSE status[i]
                      /\ retry_count'[i] = IF i = j THEN retry_count[i] + 1 ELSE retry_count[i]
                      /\ i # j => claimed_by'[i] = claimed_by[i]
    BY DEF RequeueRow, TypeOK, RowType
<1>4. \A i \in Jobs, m \in ClaimNumbers :
          pc'[i][m] = IF i = j /\ m = n THEN to ELSE pc[i][m]
    BY DEF Step, Move, TypeOK, PcType
<1>5. retry_count[j] < MaxRetries[j]
    BY <1>2 DEF SnapshotInv, ShouldRetry, Step, Move
<1>6. RetryBudget'
    <2> SUFFICES ASSUME NEW i \in Jobs
                 PROVE  /\ retry_count'[i] <= MaxRetries[i]
                        /\ claims[i] = retry_count'[i]
                             + IF status'[i] \in {"absent", "pending"} THEN 0 ELSE 1
        BY <1>1 DEF RetryBudget
    <2>1. MaxRetries[i] \in Nat /\ retry_count[i] \in Nat
        BY ConstantsAssumption DEF TypeOK, RowType
    <2> QED BY <1>2, <1>3, <1>5, <2>1 DEF RetryBudget
<1>7. AbsentInv'
    BY <1>1, <1>3 DEF AbsentInv
<1>8. LockInv'
    BY <1>1, <1>3 DEF LockInv, TypeOK, ClaimType
<1>9. PositionInv'
    BY <1>1, <1>2, <1>3, <1>4, PositionFacts DEF PositionInv, ClaimNumbers
<1>10. SnapshotInv'
    BY <1>1, <1>3, <1>4 DEF SnapshotInv, ShouldRetry
<1> QED BY <1>6, <1>7, <1>8, <1>9, <1>10

\* The steps of a task keep what positions, rows and snapshots say together.
LEMMA TaskRowsStep ==
    ASSUME NEW j \in Jobs, NEW n \in ClaimNumbers, TypeOK, RowsInv, TaskStep(j, n)
    PROVE  RowsInv'
<1>quiet. ASSUME NEW from, NEW to, <<from, to>> \in QuietMoves, Call(j, n, from, to),
                 to = "requeue" => ShouldRetry(j, n), UNCHANGED <<row, claim_vars>>
          PROVE  RowsInv'
    <2>1. Follows(from, to) /\ Follows(from, "error")
        BY <1>quiet, QuietMovesFollow DEF Follows
    <2>2. CASE Step(j, n, from, to)
        BY <1>quiet, <2>1, <2>2, QuietStep DEF Step
    <2>3. CASE Step(j, n, from, "error")
        BY <1>quiet, <2>1, <2>3, QuietStep DEF Step
    <2> QED BY <1>quiet, <2>2, <2>3 DEF Call
<1>step. \A from, to : Step(j, n, from, to) => Call(j, n, from, to)
    BY DEF Call
<1>1. CASE Spawn(j, n)
    <2>1. Move(j, n, "queued", "hist_claimed") /\ UNCHANGED <<row, claim_vars>>
        BY <1>1 DEF Spawn
    <2>2. Follows("queued", "hist_claimed")
        BY QuietMovesFollow DEF QuietMoves
    <2> QED BY <2>1, <2>2, QuietStep
<1>2. CASE HistClaimed(j, n)
    BY <1>2, <1>quiet DEF HistClaimed, QuietMoves
<1>3. CASE GetImage(j, n)
    BY <1>3, <1>quiet, <1>step DEF GetImage, QuietMoves
<1>4. CASE CreateJob(j, n)
    BY <1>4, <1>quiet DEF CreateJob, QuietMoves
<1>5. CASE CreateConflict(j, n) \/ CallError(j, n)
    <2>1. PICK from : from # "new" /\ Move(j, n, from, "error")
        BY <1>5 DEF CreateConflict, CallError, Step, Fallible, Executing, Monitoring, Epilogue
    <2>2. UNCHANGED <<row, claim_vars>>
        BY <1>5 DEF CreateConflict, CallError
    <2> QED BY <2>1, <2>2, QuietMovesFollow, QuietStep
<1>6. CASE MarkRunning(j, n)
    <2>1. pc[j][n] = "mark_running"
        BY <1>6 DEF MarkRunning, Call, Step, Move
    <2>2. n = claims[j] /\ status[j] = "claimed"
        BY <2>1, WriterIsNewest DEF RowsInv
    <2>3. /\ status' = [status EXCEPT ![j] = "running"]
          /\ UNCHANGED <<retry_count, claimed_by, claim_vars>>
        BY <1>6 DEF MarkRunning, UpdateRunning
    <2>4. PICK to \in {"hist_running", "error"} : Move(j, n, "mark_running", to)
        BY <1>6 DEF MarkRunning, Call, Step
    <2> QED BY <2>2, <2>3, <2>4, PositionFacts, UpdateStep
<1>7. CASE HistRunning(j, n)
    BY <1>7, <1>quiet DEF HistRunning, QuietMoves
<1>8. CASE PollStatus(j, n)
    <2>1. PICK to \in {"mark_completed", "requeue", "mark_failed"} :
              /\ Step(j, n, "monitor", to)
              /\ to = "requeue" => ShouldRetry(j, n)
        BY <1>8 DEF PollStatus
    <2>2. UNCHANGED <<row, claim_vars>>
        BY <1>8 DEF PollStatus
    <2> QED BY <2>1, <2>2, <1>quiet, <1>step DEF QuietMoves
<1>9. CASE MonitorTimeout(j, n)
    BY <1>9, <1>quiet, <1>step DEF MonitorTimeout, QuietMoves
<1>10. CASE MarkCompleted(j, n) \/ MarkFailed(j, n) \/ MarkTimeout(j, n)
    <2>1. pc[j][n] \in Monitoring
        BY <1>10 DEF MarkCompleted, MarkFailed, MarkTimeout, Call, Step, Move, Monitoring
    <2>2. n = claims[j] /\ status[j] = "running"
        BY <2>1, WriterIsNewest DEF RowsInv
    <2>3. UNCHANGED <<retry_count, claimed_by, claim_vars>>
        BY <1>10 DEF MarkCompleted, MarkFailed, MarkTimeout, UpdateStatus
    <2>4. \E from : \E s \in {"completed", "failed"} :
            \E to \in Positions(s) \ {"requeue"} :
              /\ status' = [status EXCEPT ![j] = s]
              /\ Move(j, n, from, to)
        BY <1>10, PositionFacts DEF MarkCompleted, MarkFailed, MarkTimeout, UpdateStatus,
            Call, Step
    <2> QED BY <2>2, <2>3, <2>4, UpdateStep
<1>11. CASE HistCompleted(j, n)
    BY <1>11, <1>quiet DEF HistCompleted, QuietMoves
<1>12. CASE WaitForOutputs(j, n)
    BY <1>12, <1>quiet, <1>step DEF WaitForOutputs, QuietMoves
<1>13. CASE DagCompleted(j, n)
    BY <1>13, <1>quiet, <1>step DEF DagCompleted, CallDag, QuietMoves
<1>14. CASE Requeue(j, n)
    <2>1. PICK to \in {"hist_requeued", "error"} : Move(j, n, "requeue", to)
        BY <1>14 DEF Requeue, Call, Step
    <2> QED BY <1>14, <2>1, RequeueStep DEF Requeue
<1>15. CASE HistRequeued(j, n)
    BY <1>15, <1>quiet DEF HistRequeued, QuietMoves
<1>16. CASE HistFailed(j, n)
    BY <1>16, <1>quiet DEF HistFailed, QuietMoves
<1>17. CASE DagFailed(j, n)
    BY <1>17, <1>quiet, <1>step DEF DagFailed, CallDag, QuietMoves
<1>18. CASE HistTimeout(j, n)
    BY <1>18, <1>quiet DEF HistTimeout, QuietMoves
<1> QED BY <1>1, <1>2, <1>3, <1>4, <1>5, <1>6, <1>7, <1>8, <1>9, <1>10, <1>11, <1>12,
           <1>13, <1>14, <1>15, <1>16, <1>17, <1>18 DEF TaskStep

\* The commit of a claim statement: the new tasks are the newest of their rows
\* and remember them; no other executor holds a lock on these rows.
LEMMA ClaimStep ==
    ASSUME NEW e \in Executors, NEW p \in {"queued", "error"}, TypeOK, RowsInv,
           ClaimRows(e, locked[e], p), Unlock(e)
    PROVE  RowsInv'
<1> USE DEF RowsInv
<1> DEFINE S == locked[e]
<1>0. /\ S \subseteq Jobs
      /\ \A i \in Jobs : claims[i] \in Nat /\ retry_count[i] \in Nat /\ status[i] \in Statuses
    BY ConstantsAssumption DEF TypeOK, RowType, ClaimType
<1>1. \A i \in S : status[i] = "pending" /\ claims[i] < MaxClaims
    BY DEF LockInv
<1>2. \A i \in Jobs :
          /\ status'[i] = IF i \in S THEN "claimed" ELSE status[i]
          /\ claims'[i] = IF i \in S THEN claims[i] + 1 ELSE claims[i]
          /\ claimed_by'[i] = IF i \in S THEN e ELSE claimed_by[i]
          /\ retry_count'[i] = retry_count[i]
    BY DEF ClaimRows
<1>3. \A i \in Jobs, m \in ClaimNumbers :
          /\ pc'[i][m] = IF i \in S /\ m = claims[i] + 1 THEN p ELSE pc[i][m]
          /\ on'[i][m] = IF i \in S /\ m = claims[i] + 1 THEN e ELSE on[i][m]
          /\ seen'[i][m].retry_count = IF i \in S /\ m = claims[i] + 1
                                       THEN retry_count[i] ELSE seen[i][m].retry_count
    BY DEF ClaimRows, TypeOK, PcType, ClaimType
<1>4. \A f \in Executors : locked'[f] = IF f = e THEN {} ELSE locked[f]
    BY DEF Unlock, TypeOK, ClaimType
<1>5. PositionInv'
    <2> SUFFICES ASSUME NEW i \in Jobs, NEW m \in ClaimNumbers
                 PROVE  /\ m > claims'[i] => pc'[i][m] = "new"
                        /\ m < claims'[i] => pc'[i][m] \in Positions("pending")
                        /\ m = claims'[i] => pc'[i][m] \in Positions(status'[i])
        BY DEF PositionInv
    <2>1. CASE i \in S
        <3>1. m \in Nat
            BY DEF ClaimNumbers
        <3>2. p \in Positions("claimed")
            BY PositionFacts
        <3>3. /\ claims'[i] = claims[i] + 1 /\ claims[i] \in Nat
              /\ status'[i] = "claimed" /\ status[i] = "pending"
            BY <2>1, <1>0, <1>1, <1>2
        <3>4. CASE m = claims[i] + 1
            BY <2>1, <3>1, <3>2, <3>3, <3>4, <1>3
        <3>5. CASE m # claims[i] + 1
            <4>1. pc'[i][m] = pc[i][m]
                BY <3>5, <1>3
            <4> QED BY <3>1, <3>3, <3>5, <4>1 DEF PositionInv
        <3> QED BY <3>4, <3>5
    <2>2. CASE i \notin S
        BY <2>2, <1>2, <1>3 DEF PositionInv
    <2> QED BY <2>1, <2>2
<1>6. RetryBudget'
    BY <1>0, <1>1, <1>2 DEF RetryBudget
<1>7. AbsentInv'
    BY <1>0, <1>1, <1>2 DEF AbsentInv
<1>8. SnapshotInv'
    BY <1>0, <1>1, <1>2, <1>3 DEF SnapshotInv, ShouldRetry
<1>9. LockInv'
    <2> SUFFICES ASSUME NEW f \in Executors, NEW i \in locked'[f]
                 PROVE  /\ status'[i] = "pending"
                        /\ claims'[i] < MaxClaims
                        /\ \A g \in Executors : i \in locked'[g] => g = f
        BY DEF LockInv
    <2>1. f # e /\ i \in locked[f]
        BY <1>4
    <2>2. i \in Jobs /\ i \notin S
        BY <2>1 DEF LockInv, TypeOK, ClaimType
    <2>3. /\ status[i] = "pending" /\ claims[i] < MaxClaims
          /\ \A g \in Executors : i \in locked[g] => g = f
        BY <2>1 DEF LockInv
    <2> QED BY <2>2, <2>3, <1>2, <1>4
<1> QED BY <1>5, <1>6, <1>7, <1>8, <1>9

\* The claim loop, a crash and a restart keep what positions, rows, snapshots
\* and locks say together.
LEMMA LoopRowsStep ==
    ASSUME NEW e \in Executors, TypeOK, RowsInv, LoopStep(e) \/ Crash(e) \/ Restart(e)
    PROVE  RowsInv'
<1> USE DEF RowsInv
<1>1. CASE ReadTopics(e) \/ LoopDone(e) \/ Restart(e)
    <2>1. UNCHANGED <<row, locked, claims, on, seen, pc>>
        BY <1>1 DEF ReadTopics, LoopDone, Restart
    <2> QED BY <2>1 DEF row, PositionInv, RetryBudget, AbsentInv, SnapshotInv, ShouldRetry,
                    LockInv
<1>2. CASE ClaimLock(e)
    <2>1. UNCHANGED <<row, claims, on, seen, pc>>
        BY <1>2 DEF ClaimLock
    <2>2. PositionInv' /\ RetryBudget' /\ AbsentInv' /\ SnapshotInv'
        BY <2>1 DEF row, PositionInv, RetryBudget, AbsentInv, SnapshotInv, ShouldRetry
    <2>3. PICK S \in SUBSET Claimable(e) : locked' = [locked EXCEPT ![e] = S]
        BY <1>2 DEF ClaimLock, FirstRows
    <2>4. LockInv'
        BY <2>1, <2>3 DEF LockInv, Claimable, row, TypeOK, ClaimType
    <2> QED BY <2>2, <2>4
<1>3. CASE ClaimCommit(e) \/ ClaimLost(e)
    BY <1>3, ClaimStep DEF ClaimCommit, ClaimLost
<1>4. CASE ClaimAbort(e)
    <2>1. UNCHANGED <<row, claims, on, seen, pc>>
        BY <1>4 DEF ClaimAbort
    <2>2. PositionInv' /\ RetryBudget' /\ AbsentInv' /\ SnapshotInv'
        BY <2>1 DEF row, PositionInv, RetryBudget, AbsentInv, SnapshotInv, ShouldRetry
    <2>3. LockInv'
        BY <1>4, <2>1 DEF ClaimAbort, Unlock, LockInv, row, TypeOK, ClaimType
    <2> QED BY <2>2, <2>3
<1>5. CASE Crash(e)
    <2>1. UNCHANGED <<row, claims, on, seen>>
        BY <1>5 DEF Crash
    <2>2. RetryBudget' /\ AbsentInv'
        BY <2>1 DEF row, RetryBudget, AbsentInv
    <2>3. LockInv'
        BY <1>5, <2>1 DEF Crash, Unlock, LockInv, row, TypeOK, ClaimType
    <2>4. \A i \in Jobs, m \in ClaimNumbers :
              \/ pc'[i][m] = pc[i][m]
              \/ pc'[i][m] = "crashed" /\ pc[i][m] # "new"
        BY <1>5 DEF Crash, Live, Executing, Monitoring, Epilogue
    <2>5. PositionInv'
        BY <2>1, <2>4, PositionFacts DEF PositionInv, row, TypeOK, RowType, Statuses
    <2>6. SnapshotInv'
        BY <2>1, <2>4 DEF SnapshotInv, ShouldRetry, row
    <2> QED BY <2>2, <2>3, <2>5, <2>6
<1> QED BY <1>1, <1>2, <1>3, <1>4, <1>5 DEF LoopStep

\* So do a submission and the cluster's own steps.
LEMMA EnvironmentRowsStep ==
    ASSUME TypeOK, RowsInv,
           \/ \E S \in SUBSET Jobs : Enqueue(S)
           \/ \E j \in Jobs, n \in ClaimNumbers : ClusterStep(j, n)
           \/ \E name \in Names : Expire(name)
    PROVE  RowsInv'
<1> USE DEF RowsInv
<1>1. ASSUME NEW S \in SUBSET Jobs, Enqueue(S) PROVE RowsInv'
    <2>1. UNCHANGED <<retry_count, claimed_by, locked, claims, on, seen, pc>>
        BY <1>1 DEF Enqueue, claim_vars
    <2>2. /\ \A i \in S : status[i] = "absent"
          /\ \A i \in Jobs : status'[i] = IF i \in S THEN "pending" ELSE status[i]
        BY <1>1 DEF Enqueue, TypeOK, RowType
    <2>3. \A i \in S : claims[i] = 0
        BY <2>2 DEF AbsentInv
    <2>4. PositionInv'
        BY <2>1, <2>2, <2>3 DEF PositionInv, ClaimNumbers
    <2>5. RetryBudget' /\ AbsentInv' /\ LockInv'
        BY <2>1, <2>2 DEF RetryBudget, AbsentInv, LockInv, TypeOK, ClaimType
    <2>6. SnapshotInv'
        BY <2>1, <2>2 DEF SnapshotInv, ShouldRetry
    <2> QED BY <2>4, <2>5, <2>6
<1>2. ASSUME \/ \E j \in Jobs, n \in ClaimNumbers : ClusterStep(j, n)
             \/ \E name \in Names : Expire(name)
      PROVE  RowsInv'
    <2>1. UNCHANGED <<row, claim_vars, pc>>
        BY <1>2 DEF ClusterStep, RunSucceeds, PodFails, Expire
    <2> QED BY <2>1 DEF row, claim_vars, PositionInv, RetryBudget, AbsentInv, SnapshotInv,
                    ShouldRetry, LockInv
<1> QED BY <1>1, <1>2

\* Every step keeps what positions, rows, snapshots and locks say together.
LEMMA RowsStep == TypeOK /\ RowsInv /\ [Next]_vars => RowsInv'
<1> SUFFICES ASSUME TypeOK, RowsInv, [Next]_vars PROVE RowsInv'
    OBVIOUS
<1>1. CASE UNCHANGED vars
    BY <1>1 DEF vars, row, claim_vars, RowsInv, PositionInv, RetryBudget, AbsentInv,
                SnapshotInv, ShouldRetry, LockInv
<1> QED BY <1>1, LoopRowsStep, TaskRowsStep, EnvironmentRowsStep DEF Next

-----------------------------------------------------------------------------
(* Names.                                                                  *)

\* execute_job and monitor_job use the job's own name, before and after a retry.
LEMMA JobNameIsOwn ==
    ASSUME NEW j \in Jobs, NEW n \in ClaimNumbers, NameInv
    PROVE  JobName(j, n) = NameOf[j]
BY DEF NameInv, JobName

\* create_job only takes a free name and nothing frees the name of an active
\* run, so an active run keeps its job's name.
LEMMA NameStep == TypeOK /\ LockInv /\ NameInv /\ [Next]_vars => NameInv'
<1> SUFFICES ASSUME TypeOK, LockInv, NameInv, [Next]_vars PROVE NameInv'
    OBVIOUS
<1>names. ASSUME UNCHANGED <<k8s_job_name, seen, cluster, phase>> PROVE NameInv'
    BY <1>names DEF NameInv
<1>1. CASE UNCHANGED vars
    BY <1>1, <1>names DEF vars, row, claim_vars, cluster_vars
<1>2. ASSUME NEW e \in Executors, LoopStep(e) \/ Crash(e) \/ Restart(e) PROVE NameInv'
    <2>1. CASE ClaimCommit(e) \/ ClaimLost(e)
        <3>1. PICK p : ClaimRows(e, locked[e], p)
            BY <2>1 DEF ClaimCommit, ClaimLost
        <3>2. UNCHANGED <<k8s_job_name, cluster, phase>>
            BY <2>1, <3>1 DEF ClaimCommit, ClaimLost, ClaimRows, cluster_vars
        <3>3. \A i \in Jobs, m \in ClaimNumbers :
                  seen'[i][m].k8s_job_name \in {seen[i][m].k8s_job_name, k8s_job_name[i]}
            BY <3>1 DEF ClaimRows, TypeOK, ClaimType
        <3> QED BY <3>2, <3>3 DEF NameInv
    <2>2. CASE ~(ClaimCommit(e) \/ ClaimLost(e))
        <3>1. CASE ReadTopics(e) \/ ClaimLock(e) \/ ClaimAbort(e) \/ LoopDone(e)
            BY <3>1, <1>names DEF ReadTopics, ClaimLock, ClaimAbort, LoopDone, row,
                cluster_vars
        <3>2. CASE Crash(e) \/ Restart(e)
            BY <3>2, <1>names DEF Crash, Restart, row, cluster_vars
        <3> QED BY <1>2, <2>2, <3>1, <3>2 DEF LoopStep
    <2> QED BY <2>1, <2>2
<1>3. ASSUME NEW j \in Jobs, NEW n \in ClaimNumbers, TaskStep(j, n) PROVE NameInv'
    <2>1. CASE MarkRunning(j, n)
        <3>1. k8s_job_name' = [k8s_job_name EXCEPT ![j] = NameOf[j]]
            BY <2>1, JobNameIsOwn DEF MarkRunning, UpdateRunning
        <3>2. UNCHANGED <<seen, cluster, phase>>
            BY <2>1 DEF MarkRunning, claim_vars, cluster_vars
        <3> QED BY <3>1, <3>2 DEF NameInv, TypeOK, RowType
    <2>2. CASE CreateJob(j, n)
        <3>1. /\ cluster[NameOf[j]] = None
              /\ cluster' = [cluster EXCEPT ![NameOf[j]] = [job |-> j, claim |-> n]]
              /\ phase' = [phase EXCEPT ![j][n] = "active"]
              /\ UNCHANGED <<k8s_job_name, seen>>
            BY <2>2, JobNameIsOwn DEF CreateJob, row, claim_vars
        <3>2. ASSUME NEW i \in Jobs, NEW m \in ClaimNumbers, phase'[i][m] = "active"
              PROVE  cluster'[NameOf[i]] = [job |-> i, claim |-> m]
            <4>1. NameOf[i] \in Names /\ NameOf[j] \in Names
                BY DEF Names
            <4>2. CASE i = j /\ m = n
                BY <3>1, <4>1, <4>2 DEF TypeOK, ClusterType
            <4>3. CASE ~(i = j /\ m = n)
                <5>1. phase[i][m] = "active"
                    BY <3>1, <3>2, <4>3 DEF TypeOK, ClusterType
                <5>2. cluster[NameOf[i]] = [job |-> i, claim |-> m]
                    BY <5>1 DEF NameInv
                <5>3. [job |-> i, claim |-> m] \in Runs
                    BY DEF Runs
                <5>4. NameOf[i] # NameOf[j]
                    BY <3>1, <5>2, <5>3, ConstantsAssumption
                <5> QED BY <3>1, <4>1, <5>2, <5>4 DEF TypeOK, ClusterType
            <4> QED BY <4>2, <4>3
        <3> QED BY <3>1, <3>2 DEF NameInv
    <2>3. CASE ~(MarkRunning(j, n) \/ CreateJob(j, n))
        <3>1. UNCHANGED <<k8s_job_name, seen, cluster, phase>>
            <4>1. CASE Spawn(j, n) \/ GetImage(j, n) \/ CreateConflict(j, n)
                       \/ PollStatus(j, n) \/ MonitorTimeout(j, n)
                       \/ WaitForOutputs(j, n) \/ CallError(j, n)
                BY <4>1 DEF Spawn, GetImage, CreateConflict, PollStatus, MonitorTimeout,
                    WaitForOutputs, CallError, row, claim_vars, cluster_vars
            <4>2. CASE HistClaimed(j, n) \/ HistRunning(j, n) \/ HistCompleted(j, n)
                       \/ HistRequeued(j, n) \/ HistFailed(j, n) \/ HistTimeout(j, n)
                BY <4>2 DEF HistClaimed, HistRunning, HistCompleted, HistRequeued, HistFailed,
                    HistTimeout, row, claim_vars, cluster_vars
            <4>3. CASE DagCompleted(j, n) \/ DagFailed(j, n)
                BY <4>3 DEF DagCompleted, DagFailed, CallDag, row, claim_vars, cluster_vars
            <4>4. CASE MarkCompleted(j, n) \/ MarkFailed(j, n) \/ MarkTimeout(j, n)
                       \/ Requeue(j, n)
                BY <4>4 DEF MarkCompleted, MarkFailed, MarkTimeout, Requeue, UpdateStatus,
                    RequeueRow, claim_vars, cluster_vars
            <4> QED BY <1>3, <2>3, <4>1, <4>2, <4>3, <4>4 DEF TaskStep
        <3> QED BY <3>1, <1>names
    <2> QED BY <2>1, <2>2, <2>3
<1>4. ASSUME NEW S \in SUBSET Jobs, Enqueue(S) PROVE NameInv'
    BY <1>4, <1>names DEF Enqueue, claim_vars, cluster_vars
<1>5. ASSUME NEW j \in Jobs, NEW n \in ClaimNumbers, ClusterStep(j, n) PROVE NameInv'
    <2>1. /\ UNCHANGED <<k8s_job_name, seen, cluster>>
          /\ phase[j][n] = "active"
          /\ \E w : phase' = [phase EXCEPT ![j][n] = w]
        BY <1>5 DEF ClusterStep, RunSucceeds, PodFails, row, claim_vars
    <2>2. \A i \in Jobs, m \in ClaimNumbers : phase'[i][m] = "active" => phase[i][m] = "active"
        BY <2>1 DEF TypeOK, ClusterType
    <2> QED BY <2>1, <2>2 DEF NameInv
<1>6. ASSUME NEW name \in Names, Expire(name) PROVE NameInv'
    <2>1. /\ UNCHANGED <<k8s_job_name, seen, phase>>
          /\ phase[cluster[name].job][cluster[name].claim] # "active"
          /\ cluster' = [cluster EXCEPT ![name] = None]
        BY <1>6 DEF Expire, row, claim_vars
    <2>2. ASSUME NEW i \in Jobs, NEW m \in ClaimNumbers, phase[i][m] = "active"
          PROVE  cluster'[NameOf[i]] = [job |-> i, claim |-> m]
        <3>1. cluster[NameOf[i]] = [job |-> i, claim |-> m]
            BY <2>2 DEF NameInv
        <3>2. NameOf[i] # name
            BY <2>1, <2>2, <3>1
        <3> QED BY <2>1, <3>1, <3>2 DEF TypeOK, ClusterType
    <2> QED BY <2>1, <2>2 DEF NameInv
<1> QED BY <1>1, <1>2, <1>3, <1>4, <1>5, <1>6 DEF Next

-----------------------------------------------------------------------------
(* History, topics and the runs behind the rows.                           *)

\* What becomes of a row: it ends once, and it is claimed from pending alone.
LEMMA RowFuture ==
    ASSUME TypeOK, RowsInv, [Next]_vars, NEW j \in Jobs
    PROVE  /\ claims'[j] \in {claims[j], claims[j] + 1}
           /\ status[j] \in Terminal => status'[j] = status[j] /\ claims'[j] = claims[j]
           /\ status[j] = "pending" /\ claims'[j] = claims[j] => status'[j] = "pending"
           /\ claims'[j] # claims[j] => status[j] = "pending" /\ status'[j] = "claimed"
<1> DEFINE Goal == /\ claims'[j] \in {claims[j], claims[j] + 1}
                   /\ status[j] \in Terminal => status'[j] = status[j] /\ claims'[j] = claims[j]
                   /\ status[j] = "pending" /\ claims'[j] = claims[j] => status'[j] = "pending"
                   /\ claims'[j] # claims[j] =>
                          status[j] = "pending" /\ status'[j] = "claimed"
<1>same. UNCHANGED <<status, claims>> => Goal
    OBVIOUS
<1>1. CASE UNCHANGED vars
    BY <1>1, <1>same DEF vars, row, claim_vars
<1>2. ASSUME NEW e \in Executors, LoopStep(e) \/ Crash(e) \/ Restart(e) PROVE Goal
    <2>1. CASE ClaimCommit(e) \/ ClaimLost(e)
        <3>1. PICK p : ClaimRows(e, locked[e], p)
            BY <2>1 DEF ClaimCommit, ClaimLost
        <3>2. j \in locked[e] => status[j] = "pending"
            BY DEF RowsInv, LockInv
        <3>3. claims[j] \in Nat
            BY ConstantsAssumption DEF TypeOK, ClaimType
        <3> QED BY <3>1, <3>2, <3>3 DEF ClaimRows, Terminal
    <2>2. CASE ReadTopics(e) \/ ClaimLock(e) \/ ClaimAbort(e) \/ LoopDone(e)
        BY <2>2, <1>same DEF ReadTopics, ClaimLock, ClaimAbort, LoopDone, row
    <2>3. CASE Crash(e) \/ Restart(e)
        BY <2>3, <1>same DEF Crash, Restart, row
    <2> QED BY <1>2, <2>1, <2>2, <2>3 DEF LoopStep
<1>3. ASSUME NEW i \in Jobs, NEW n \in ClaimNumbers, TaskStep(i, n) PROVE Goal
    <2>1. CASE MarkRunning(i, n) \/ MarkCompleted(i, n) \/ MarkFailed(i, n)
               \/ MarkTimeout(i, n) \/ Requeue(i, n)
        <3>1. pc[i][n] = "mark_running" \/ pc[i][n] \in Monitoring
            BY <2>1 DEF MarkRunning, MarkCompleted, MarkFailed, MarkTimeout, Requeue, Call,
                Step, Move, Monitoring
        <3>2. status[i] \in {"claimed", "running"}
            BY <3>1, WriterIsNewest DEF RowsInv
        <3>3. UNCHANGED claims /\ \A k \in Jobs : k # i => status'[k] = status[k]
            <4>1. \E s : status' = [status EXCEPT ![i] = s]
                BY <2>1 DEF MarkRunning, MarkCompleted, MarkFailed, MarkTimeout, Requeue,
                    UpdateRunning, UpdateStatus, RequeueRow
            <4>2. UNCHANGED claims
                BY <2>1 DEF MarkRunning, MarkCompleted, MarkFailed, MarkTimeout, Requeue,
                    claim_vars
            <4> QED BY <4>1, <4>2 DEF TypeOK, RowType
        <3> QED BY <3>2, <3>3 DEF Terminal
    <2>2. CASE ~(MarkRunning(i, n) \/ MarkCompleted(i, n) \/ MarkFailed(i, n)
                  \/ MarkTimeout(i, n) \/ Requeue(i, n))
        <3>1. CASE Spawn(i, n) \/ GetImage(i, n) \/ CreateConflict(i, n)
                   \/ PollStatus(i, n) \/ MonitorTimeout(i, n)
                   \/ WaitForOutputs(i, n) \/ CallError(i, n)
            BY <3>1, <1>same DEF Spawn, GetImage, CreateConflict, PollStatus, MonitorTimeout,
                WaitForOutputs, CallError, row, claim_vars
        <3>2. CASE HistClaimed(i, n) \/ HistRunning(i, n) \/ HistCompleted(i, n)
                   \/ HistRequeued(i, n) \/ HistFailed(i, n) \/ HistTimeout(i, n)
            BY <3>2, <1>same DEF HistClaimed, HistRunning, HistCompleted, HistRequeued,
                HistFailed, HistTimeout, row, claim_vars
        <3>3. CASE CreateJob(i, n) \/ DagCompleted(i, n) \/ DagFailed(i, n)
            BY <3>3, <1>same DEF CreateJob, DagCompleted, DagFailed, CallDag, row, claim_vars
        <3> QED BY <1>3, <2>2, <3>1, <3>2, <3>3 DEF TaskStep
    <2> QED BY <2>1, <2>2
<1>4. ASSUME NEW S \in SUBSET Jobs, Enqueue(S) PROVE Goal
    BY <1>4 DEF Enqueue, claim_vars, Terminal
<1>5. CASE \/ \E i \in Jobs, n \in ClaimNumbers : ClusterStep(i, n)
           \/ \E name \in Names : Expire(name)
    BY <1>5, <1>same DEF ClusterStep, RunSucceeds, PodFails, Expire, row, claim_vars
<1> QED BY <1>1, <1>2, <1>3, <1>4, <1>5 DEF Next

\* What becomes of the cluster's runs: a run is made by create_job, and once it
\* has ended nothing happens to it.
LEMMA RunFuture ==
    ASSUME TypeOK, [Next]_vars, NEW j \in Jobs, NEW n \in ClaimNumbers
    PROVE  \/ phase'[j][n] = phase[j][n]
           \/ CreateJob(j, n) /\ pc[j][n] = "create" /\ phase'[j][n] = "active"
           \/ phase[j][n] = "active" /\ phase'[j][n] # "none"
<1> DEFINE Goal == \/ phase'[j][n] = phase[j][n]
                   \/ CreateJob(j, n) /\ pc[j][n] = "create" /\ phase'[j][n] = "active"
                   \/ phase[j][n] = "active" /\ phase'[j][n] # "none"
<1>same. UNCHANGED phase => Goal
    OBVIOUS
<1>1. CASE UNCHANGED vars
    BY <1>1, <1>same DEF vars, cluster_vars
<1>2. ASSUME NEW e \in Executors, LoopStep(e) \/ Crash(e) \/ Restart(e) PROVE Goal
    <2>1. CASE ReadTopics(e) \/ ClaimLock(e) \/ ClaimAbort(e) \/ LoopDone(e)
        BY <2>1, <1>same DEF ReadTopics, ClaimLock, ClaimAbort, LoopDone, cluster_vars
    <2>2. CASE ClaimCommit(e) \/ ClaimLost(e)
        BY <2>2, <1>same DEF ClaimCommit, ClaimLost, cluster_vars
    <2>3. CASE Crash(e) \/ Restart(e)
        BY <2>3, <1>same DEF Crash, Restart, cluster_vars
    <2> QED BY <1>2, <2>1, <2>2, <2>3 DEF LoopStep
<1>3. ASSUME NEW i \in Jobs, NEW m \in ClaimNumbers, TaskStep(i, m) PROVE Goal
    <2>1. CASE CreateJob(i, m)
        <3>1. pc[i][m] = "create" /\ phase' = [phase EXCEPT ![i][m] = "active"]
            BY <2>1 DEF CreateJob, Call, Step, Move
        <3> QED BY <2>1, <3>1 DEF TypeOK, ClusterType
    <2>2. CASE Spawn(i, m) \/ GetImage(i, m) \/ CreateConflict(i, m) \/ PollStatus(i, m)
               \/ MonitorTimeout(i, m) \/ WaitForOutputs(i, m) \/ CallError(i, m)
        BY <2>2, <1>same DEF Spawn, GetImage, CreateConflict, PollStatus, MonitorTimeout,
            WaitForOutputs, CallError, cluster_vars
    <2>3. CASE HistClaimed(i, m) \/ HistRunning(i, m) \/ HistCompleted(i, m)
               \/ HistRequeued(i, m) \/ HistFailed(i, m) \/ HistTimeout(i, m)
        BY <2>3, <1>same DEF HistClaimed, HistRunning, HistCompleted, HistRequeued,
            HistFailed, HistTimeout, cluster_vars
    <2>4. CASE DagCompleted(i, m) \/ DagFailed(i, m)
        BY <2>4, <1>same DEF DagCompleted, DagFailed, CallDag, cluster_vars
    <2>5. CASE MarkRunning(i, m) \/ MarkCompleted(i, m) \/ MarkFailed(i, m)
               \/ MarkTimeout(i, m) \/ Requeue(i, m)
        BY <2>5, <1>same DEF MarkRunning, MarkCompleted, MarkFailed, MarkTimeout, Requeue,
            cluster_vars
    <2> QED BY <1>3, <2>1, <2>2, <2>3, <2>4, <2>5 DEF TaskStep
<1>4. CASE (\E S \in SUBSET Jobs : Enqueue(S)) \/ \E name \in Names : Expire(name)
    BY <1>4, <1>same DEF Enqueue, Expire, cluster_vars
<1>5. ASSUME NEW i \in Jobs, NEW m \in ClaimNumbers, ClusterStep(i, m) PROVE Goal
    <2>1. phase[i][m] = "active"
          /\ \E w \in {"succeeded", "failed", "active"} : phase' = [phase EXCEPT ![i][m] = w]
        BY <1>5 DEF ClusterStep, RunSucceeds, PodFails
    <2> QED BY <2>1 DEF TypeOK, ClusterType
<1> QED BY <1>1, <1>2, <1>3, <1>4, <1>5 DEF Next

\* A call moves its own task and no other.
LEMMA CallMoves ==
    ASSUME TypeOK, NEW i \in Jobs, NEW m \in ClaimNumbers, NEW from, NEW to,
           Call(i, m, from, to), NEW j \in Jobs, NEW n \in ClaimNumbers
    PROVE  \/ pc'[j][n] = pc[j][n]
           \/ i = j /\ m = n /\ pc[j][n] = from /\ pc'[j][n] \in {to, "error"}
BY DEF Call, Step, Move, TypeOK, PcType

\* The positions that tell something of the task's run.
Telling == {"mark_running", "hist_running", "monitor", "mark_completed", "requeue",
            "mark_failed", "hist_failed", "dag_failed"}

\* How a task comes to them.
LEMMA PcMoves ==
    ASSUME TypeOK, [Next]_vars, NEW j \in Jobs, NEW n \in ClaimNumbers
    PROVE  \/ pc'[j][n] = pc[j][n]
           \/ pc'[j][n] = "mark_running" /\ CreateJob(j, n)
           \/ pc'[j][n] = "hist_running" /\ pc[j][n] = "mark_running"
           \/ pc'[j][n] = "monitor" /\ pc[j][n] = "hist_running"
           \/ pc'[j][n] \in {"mark_completed", "requeue", "mark_failed"} /\ PollStatus(j, n)
           \/ pc'[j][n] = "hist_failed" /\ pc[j][n] = "mark_failed"
           \/ pc'[j][n] = "dag_failed" /\ pc[j][n] = "hist_failed"
           \/ pc'[j][n] \notin Telling
<1> DEFINE Goal == \/ pc'[j][n] = pc[j][n]
                   \/ pc'[j][n] = "mark_running" /\ CreateJob(j, n)
                   \/ pc'[j][n] = "hist_running" /\ pc[j][n] = "mark_running"
                   \/ pc'[j][n] = "monitor" /\ pc[j][n] = "hist_running"
                   \/ /\ pc'[j][n] \in {"mark_completed", "requeue", "mark_failed"}
                      /\ PollStatus(j, n)
                   \/ pc'[j][n] = "hist_failed" /\ pc[j][n] = "mark_failed"
                   \/ pc'[j][n] = "dag_failed" /\ pc[j][n] = "hist_failed"
                   \/ pc'[j][n] \notin Telling
<1> USE DEF Telling
<1>1. CASE UNCHANGED pc
    BY <1>1
<1>2. ASSUME NEW e \in Executors, LoopStep(e) \/ Crash(e) \/ Restart(e) PROVE Goal
    <2>1. CASE ReadTopics(e) \/ ClaimLock(e) \/ ClaimAbort(e) \/ LoopDone(e) \/ Restart(e)
        BY <2>1 DEF ReadTopics, ClaimLock, ClaimAbort, LoopDone, Restart
    <2>2. CASE ClaimCommit(e) \/ ClaimLost(e)
        <3>1. PICK p \in {"queued", "error"} : ClaimRows(e, locked[e], p)
            BY <2>2 DEF ClaimCommit, ClaimLost
        <3>2. pc'[j][n] \in {pc[j][n], p}
            BY <3>1 DEF ClaimRows, TypeOK, PcType
        <3> QED BY <3>1, <3>2
    <2>3. CASE Crash(e)
        BY <2>3 DEF Crash
    <2> QED BY <1>2, <2>1, <2>2, <2>3 DEF LoopStep
<1>3. ASSUME NEW i \in Jobs, NEW m \in ClaimNumbers, TaskStep(i, m) PROVE Goal
    <2>call. ASSUME NEW from, NEW to, Call(i, m, from, to),
                    to \notin Telling
             PROVE  Goal
        <3>1. \/ pc'[j][n] = pc[j][n]
              \/ pc'[j][n] \in {to, "error"}
            BY <2>call, CallMoves
        <3> QED BY <3>1, <2>call
    <2>step. \A from, to : Step(i, m, from, to) => Call(i, m, from, to)
        BY DEF Call
    <2>1. CASE CreateJob(i, m)
        <3>1. Call(i, m, "create", "mark_running")
            BY <2>1 DEF CreateJob
        <3>2. \/ pc'[j][n] = pc[j][n]
              \/ i = j /\ m = n /\ pc[j][n] = "create" /\ pc'[j][n] \in {"mark_running", "error"}
            BY <3>1, CallMoves
        <3> QED BY <2>1, <3>2
    <2>2. CASE MarkRunning(i, m)
        <3>1. Call(i, m, "mark_running", "hist_running")
            BY <2>2 DEF MarkRunning
        <3>2. \/ pc'[j][n] = pc[j][n]
              \/ pc[j][n] = "mark_running" /\ pc'[j][n] \in {"hist_running", "error"}
            BY <3>1, CallMoves
        <3> QED BY <3>2
    <2>3. CASE HistRunning(i, m)
        <3>1. Call(i, m, "hist_running", "monitor")
            BY <2>3 DEF HistRunning
        <3>2. \/ pc'[j][n] = pc[j][n]
              \/ pc[j][n] = "hist_running" /\ pc'[j][n] \in {"monitor", "error"}
            BY <3>1, CallMoves
        <3> QED BY <3>2
    <2>4. CASE PollStatus(i, m)
        <3>1. PICK to \in {"mark_completed", "requeue", "mark_failed"} :
                  Call(i, m, "monitor", to)
            BY <2>4, <2>step DEF PollStatus
        <3>2. \/ pc'[j][n] = pc[j][n]
              \/ i = j /\ m = n /\ pc'[j][n] \in {to, "error"}
            BY <3>1, CallMoves
        <3> QED BY <2>4, <3>1, <3>2
    <2>5. CASE Spawn(i, m)
        BY <2>5, <2>call, <2>step DEF Spawn, Step, Move
    <2>6. CASE GetImage(i, m) \/ CreateConflict(i, m) \/ MonitorTimeout(i, m)
               \/ DagCompleted(i, m) \/ DagFailed(i, m)
        <3>1. PICK from, to : /\ Step(i, m, from, to)
                              /\ to \notin Telling
            BY <2>6 DEF GetImage, CreateConflict, MonitorTimeout, DagCompleted, DagFailed,
                CallDag
        <3> QED BY <3>1, <2>call, <2>step
    <2>7. CASE WaitForOutputs(i, m)
        BY <2>7, <2>call, <2>step DEF WaitForOutputs
    <2>8. CASE CallError(i, m)
        BY <2>8 DEF CallError, Step, Move, TypeOK, PcType
    <2>9. CASE HistClaimed(i, m) \/ HistCompleted(i, m) \/ HistRequeued(i, m)
               \/ HistTimeout(i, m)
        <3>1. PICK from, to : /\ Call(i, m, from, to)
                              /\ to \notin Telling
            BY <2>9 DEF HistClaimed, HistCompleted, HistRequeued, HistTimeout
        <3> QED BY <3>1, <2>call
    <2>10. CASE MarkCompleted(i, m) \/ MarkTimeout(i, m) \/ Requeue(i, m)
        <3>1. PICK from, to : /\ Call(i, m, from, to)
                              /\ to \notin Telling
            BY <2>10 DEF MarkCompleted, MarkTimeout, Requeue
        <3> QED BY <3>1, <2>call
    <2>11. CASE MarkFailed(i, m)
        <3>1. Call(i, m, "mark_failed", "hist_failed")
            BY <2>11 DEF MarkFailed
        <3>2. \/ pc'[j][n] = pc[j][n]
              \/ pc[j][n] = "mark_failed" /\ pc'[j][n] \in {"hist_failed", "error"}
            BY <3>1, CallMoves
        <3> QED BY <3>2
    <2>12. CASE HistFailed(i, m)
        <3>1. PICK to \in {"dag_failed", "done"} : Call(i, m, "hist_failed", to)
            BY <2>12 DEF HistFailed
        <3>2. \/ pc'[j][n] = pc[j][n]
              \/ pc[j][n] = "hist_failed" /\ pc'[j][n] \in {to, "error"}
            BY <3>1, CallMoves
        <3> QED BY <3>1, <3>2
    <2> QED BY <1>3, <2>1, <2>2, <2>3, <2>4, <2>5, <2>6, <2>7, <2>8, <2>9, <2>10, <2>11, <2>12
           DEF TaskStep
<1>4. CASE \/ \E S \in SUBSET Jobs : Enqueue(S)
           \/ \E name \in Names : Expire(name)
           \/ \E i \in Jobs, m \in ClaimNumbers : ClusterStep(i, m)
    BY <1>4, <1>1 DEF Enqueue, Expire, ClusterStep, RunSucceeds, PodFails
<1> QED BY <1>1, <1>2, <1>3, <1>4 DEF Next, vars

\* A new entry of the history tells what has just been done to the row, and so
\* does a new call of the DAG orchestrator.
LEMMA NewEntries ==
    ASSUME TypeOK, RowsInv, HistoryInv, [Next]_vars, NEW j \in Jobs
    PROVE  /\ \A h \in history'[j] \ history[j] :
                  /\ UNCHANGED <<status, claims, phase>>
                  /\ h.claim \in ClaimNumbers /\ h.claim <= claims[j]
                  /\ h.status = "running" => phase[j][h.claim] # "none"
                  /\ h.status = "completed" =>
                         status[j] = "completed" /\ h.claim = claims[j]
                  /\ h.status = "failed" =>
                         h.claim < claims[j] \/ status[j] \in {"pending", "failed"}
           /\ \A c \in dag_calls'[j] \ dag_calls[j] :
                  /\ UNCHANGED status
                  /\ c = "completion" => status[j] = "completed"
                  /\ c = "failure" =>
                         /\ status[j] = "failed"
                         /\ \E n \in ClaimNumbers : pc[j][n] = "dag_failed"
<1> DEFINE NoEntries == UNCHANGED history
           NoCalls == UNCHANGED dag_calls
           Entries == \A h \in history'[j] \ history[j] :
                  /\ UNCHANGED <<status, claims, phase>>
                  /\ h.claim \in ClaimNumbers /\ h.claim <= claims[j]
                  /\ h.status = "running" => phase[j][h.claim] # "none"
                  /\ h.status = "completed" =>
                         status[j] = "completed" /\ h.claim = claims[j]
                  /\ h.status = "failed" =>
                         h.claim < claims[j] \/ status[j] \in {"pending", "failed"}
           Calls == \A c \in dag_calls'[j] \ dag_calls[j] :
                  /\ UNCHANGED status
                  /\ c = "completion" => status[j] = "completed"
                  /\ c = "failure" =>
                         /\ status[j] = "failed"
                         /\ \E n \in ClaimNumbers : pc[j][n] = "dag_failed"
<1>1. CASE UNCHANGED vars
    BY <1>1 DEF vars
<1>2. ASSUME NEW e \in Executors, LoopStep(e) \/ Crash(e) \/ Restart(e)
      PROVE  NoEntries /\ NoCalls
    BY <1>2 DEF LoopStep, ReadTopics, ClaimLock, ClaimAbort, LoopDone, ClaimCommit, ClaimLost,
        Crash, Restart
<1>3. CASE \/ \E S \in SUBSET Jobs : Enqueue(S)
           \/ \E name \in Names : Expire(name)
           \/ \E i \in Jobs, m \in ClaimNumbers : ClusterStep(i, m)
    BY <1>3 DEF Enqueue, Expire, ClusterStep, RunSucceeds, PodFails
<1>4. ASSUME NEW i \in Jobs, NEW m \in ClaimNumbers, TaskStep(i, m)
      PROVE  Entries /\ Calls
    <2>st. status[i] \in Statuses /\ claims[i] \in Nat /\ m \in Nat
        BY ConstantsAssumption DEF TypeOK, RowType, ClaimType, ClaimNumbers
    <2>pos. /\ pc[i][m] \notin {"new"} => m <= claims[i]
            /\ pc[i][m] = "hist_completed" => m = claims[i] /\ status[i] = "completed"
            /\ pc[i][m] = "dag_completed" => status[i] = "completed"
            /\ pc[i][m] \in {"hist_failed", "hist_timeout"} => m = claims[i] /\ status[i] = "failed"
            /\ pc[i][m] = "dag_failed" => status[i] = "failed"
            /\ pc[i][m] = "hist_requeued" => m < claims[i] \/ status[i] = "pending"
        <3>1. pc[i][m] # "new" => m <= claims[i]
            BY <2>st DEF RowsInv, PositionInv
        <3>2. m < claims[i] => pc[i][m] \in Positions("pending")
            BY DEF RowsInv, PositionInv
        <3>3. m = claims[i] => pc[i][m] \in Positions(status[i])
            BY DEF RowsInv, PositionInv
        <3> QED BY <3>1, <3>2, <3>3, <2>st, PositionFacts DEF Statuses
    <2>rec. ASSUME NEW s, Record(i, m, s), m <= claims[i], UNCHANGED <<status, claims, phase>>,
                   s = "running" => phase[i][m] # "none",
                   s = "completed" => status[i] = "completed" /\ m = claims[i],
                   s = "failed" => m < claims[i] \/ status[i] \in {"pending", "failed"}
            PROVE  Entries
        BY <2>rec DEF Record, TypeOK, LogType
    <2>1. CASE HistClaimed(i, m)
        BY <2>1, <2>rec, <2>pos DEF HistClaimed, Call, Step, Move, row, claim_vars, cluster_vars
    <2>2. CASE HistRunning(i, m)
        <3>1. pc[i][m] = "hist_running"
            BY <2>2 DEF HistRunning, Call, Step, Move
        <3>2. phase[i][m] # "none"
            BY <3>1 DEF HistoryInv
        <3> QED BY <2>2, <3>1, <3>2, <2>rec, <2>pos DEF HistRunning, row, claim_vars, cluster_vars
    <2>3. CASE HistCompleted(i, m)
        BY <2>3, <2>rec, <2>pos DEF HistCompleted, Call, Step, Move, row, claim_vars, cluster_vars
    <2>4. CASE HistRequeued(i, m)
        BY <2>4, <2>rec, <2>pos DEF HistRequeued, Call, Step, Move, row, claim_vars, cluster_vars
    <2>5. CASE HistFailed(i, m)
        BY <2>5, <2>rec, <2>pos DEF HistFailed, Call, Step, Move, row, claim_vars, cluster_vars
    <2>6. CASE HistTimeout(i, m)
        BY <2>6, <2>rec, <2>pos DEF HistTimeout, Call, Step, Move, row, claim_vars, cluster_vars
    <2>7. CASE DagCompleted(i, m)
        BY <2>7, <2>pos DEF DagCompleted, CallDag, Step, Move, row, TypeOK, LogType
    <2>8. CASE DagFailed(i, m)
        BY <2>8, <2>pos DEF DagFailed, CallDag, Step, Move, row, TypeOK, LogType
    <2>9. CASE ~\/ HistClaimed(i, m) \/ HistRunning(i, m) \/ HistCompleted(i, m)
                \/ HistRequeued(i, m) \/ HistFailed(i, m) \/ HistTimeout(i, m)
                \/ DagCompleted(i, m) \/ DagFailed(i, m)
        <3>1. NoEntries /\ NoCalls
            <4>1. CASE Spawn(i, m) \/ GetImage(i, m) \/ CreateConflict(i, m)
                       \/ PollStatus(i, m) \/ MonitorTimeout(i, m)
                       \/ WaitForOutputs(i, m) \/ CallError(i, m) \/ CreateJob(i, m)
                BY <4>1 DEF Spawn, GetImage, CreateConflict, PollStatus, MonitorTimeout,
                    WaitForOutputs, CallError, CreateJob
            <4>2. CASE MarkRunning(i, m) \/ MarkCompleted(i, m) \/ MarkFailed(i, m)
                       \/ MarkTimeout(i, m) \/ Requeue(i, m)
                BY <4>2 DEF MarkRunning, MarkCompleted, MarkFailed, MarkTimeout, Requeue
            <4> QED BY <1>4, <2>9, <4>1, <4>2 DEF TaskStep
        <3> QED BY <3>1
    <2>10. /\ HistClaimed(i, m) \/ HistRunning(i, m) \/ HistCompleted(i, m)
              \/ HistRequeued(i, m) \/ HistFailed(i, m) \/ HistTimeout(i, m) => NoCalls
           /\ DagCompleted(i, m) \/ DagFailed(i, m) => NoEntries
        BY DEF HistClaimed, HistRunning, HistCompleted, HistRequeued, HistFailed, HistTimeout,
            DagCompleted, DagFailed, CallDag
    <2> QED BY <2>1, <2>2, <2>3, <2>4, <2>5, <2>6, <2>7, <2>8, <2>9, <2>10
<1> QED BY <1>1, <1>2, <1>3, <1>4 DEF Next

\* A call of the DAG orchestrator is never taken back.
LEMMA CallsKept ==
    ASSUME TypeOK, [Next]_vars, NEW j \in Jobs
    PROVE  dag_calls[j] \subseteq dag_calls'[j]
<1> DEFINE NoCalls == UNCHANGED dag_calls
<1>1. CASE UNCHANGED vars
    BY <1>1 DEF vars
<1>2. ASSUME NEW e \in Executors, LoopStep(e) \/ Crash(e) \/ Restart(e) PROVE NoCalls
    BY <1>2 DEF LoopStep, ReadTopics, ClaimLock, ClaimAbort, LoopDone, ClaimCommit, ClaimLost,
        Crash, Restart
<1>3. CASE \/ \E S \in SUBSET Jobs : Enqueue(S)
           \/ \E name \in Names : Expire(name)
           \/ \E i \in Jobs, m \in ClaimNumbers : ClusterStep(i, m)
    BY <1>3 DEF Enqueue, Expire, ClusterStep, RunSucceeds, PodFails
<1>4. ASSUME NEW i \in Jobs, NEW m \in ClaimNumbers, TaskStep(i, m)
      PROVE  dag_calls[j] \subseteq dag_calls'[j]
    <2>1. CASE DagCompleted(i, m) \/ DagFailed(i, m)
        BY <2>1 DEF DagCompleted, DagFailed, CallDag, TypeOK, LogType
    <2>2. CASE \/ Spawn(i, m) \/ GetImage(i, m) \/ CreateConflict(i, m)
               \/ PollStatus(i, m) \/ MonitorTimeout(i, m)
               \/ WaitForOutputs(i, m) \/ CallError(i, m) \/ CreateJob(i, m)
        BY <2>2 DEF Spawn, GetImage, CreateConflict, PollStatus, MonitorTimeout,
            WaitForOutputs, CallError, CreateJob
    <2>3. CASE \/ MarkRunning(i, m) \/ MarkCompleted(i, m) \/ MarkFailed(i, m)
               \/ MarkTimeout(i, m) \/ Requeue(i, m)
        BY <2>3 DEF MarkRunning, MarkCompleted, MarkFailed, MarkTimeout, Requeue
    <2>4. CASE \/ HistClaimed(i, m) \/ HistRunning(i, m) \/ HistCompleted(i, m)
               \/ HistRequeued(i, m) \/ HistFailed(i, m) \/ HistTimeout(i, m)
        BY <2>4 DEF HistClaimed, HistRunning, HistCompleted, HistRequeued, HistFailed,
            HistTimeout
    <2> QED BY <1>4, <2>1, <2>2, <2>3, <2>4 DEF TaskStep
<1> QED BY <1>1, <1>2, <1>3, <1>4 DEF Next

\* Only monitor_job completes a row.
LEMMA CompletedBy ==
    ASSUME TypeOK, [Next]_vars, NEW j \in Jobs, status'[j] = "completed",
           status[j] # "completed"
    PROVE  \E n \in ClaimNumbers : MarkCompleted(j, n)
<1>1. status' # status
    OBVIOUS
<1>2. ASSUME NEW e \in Executors, LoopStep(e) \/ Crash(e) \/ Restart(e) PROVE FALSE
    <2>1. CASE ClaimCommit(e) \/ ClaimLost(e)
        BY <2>1 DEF ClaimCommit, ClaimLost, ClaimRows
    <2>2. CASE ReadTopics(e) \/ ClaimLock(e) \/ ClaimAbort(e) \/ LoopDone(e) \/ Crash(e)
               \/ Restart(e)
        BY <1>1, <2>2 DEF ReadTopics, ClaimLock, ClaimAbort, LoopDone, Crash, Restart, row
    <2> QED BY <1>2, <2>1, <2>2 DEF LoopStep
<1>3. ASSUME NEW i \in Jobs, NEW n \in ClaimNumbers, TaskStep(i, n)
      PROVE  i = j /\ MarkCompleted(i, n)
    <2>1. CASE MarkCompleted(i, n)
        BY <2>1 DEF MarkCompleted, UpdateStatus, TypeOK, RowType
    <2>2. CASE MarkRunning(i, n) \/ MarkFailed(i, n) \/ MarkTimeout(i, n) \/ Requeue(i, n)
        BY <2>2 DEF MarkRunning, MarkFailed, MarkTimeout, Requeue, UpdateRunning, UpdateStatus,
            RequeueRow, TypeOK, RowType
    <2>3. CASE Spawn(i, n) \/ GetImage(i, n) \/ CreateConflict(i, n) \/ PollStatus(i, n)
               \/ MonitorTimeout(i, n) \/ WaitForOutputs(i, n) \/ CallError(i, n)
               \/ CreateJob(i, n)
        BY <1>1, <2>3 DEF Spawn, GetImage, CreateConflict, PollStatus, MonitorTimeout,
            WaitForOutputs, CallError, CreateJob, row
    <2>4. CASE HistClaimed(i, n) \/ HistRunning(i, n) \/ HistCompleted(i, n)
               \/ HistRequeued(i, n) \/ HistFailed(i, n) \/ HistTimeout(i, n)
               \/ DagCompleted(i, n) \/ DagFailed(i, n)
        BY <1>1, <2>4 DEF HistClaimed, HistRunning, HistCompleted, HistRequeued, HistFailed,
            HistTimeout, DagCompleted, DagFailed, CallDag, row
    <2> QED BY <1>3, <2>1, <2>2, <2>3, <2>4 DEF TaskStep
<1>4. ASSUME \/ \E S \in SUBSET Jobs : Enqueue(S)
             \/ \E name \in Names : Expire(name)
             \/ \E i \in Jobs, m \in ClaimNumbers : ClusterStep(i, m)
      PROVE  FALSE
    BY <1>1, <1>4 DEF Enqueue, Expire, ClusterStep, RunSucceeds, PodFails, row
<1> QED BY <1>1, <1>2, <1>3, <1>4 DEF Next, vars, row

\* How a task comes to its end without an error.
LEMMA DoneBy ==
    ASSUME TypeOK, [Next]_vars, NEW j \in Jobs, NEW n \in ClaimNumbers,
           pc[j][n] # "done", pc'[j][n] = "done"
    PROVE  \/ WaitForOutputs(j, n) /\ j \notin DagJobs
           \/ DagCompleted(j, n)
           \/ pc[j][n] \in {"dag_failed", "hist_requeued", "hist_failed", "hist_timeout"}
<1> DEFINE Goal == \/ WaitForOutputs(j, n) /\ j \notin DagJobs
                   \/ DagCompleted(j, n)
                   \/ pc[j][n] \in {"dag_failed", "hist_requeued", "hist_failed", "hist_timeout"}
<1>1. CASE UNCHANGED pc
    BY <1>1
<1>2. ASSUME NEW e \in Executors, LoopStep(e) \/ Crash(e) \/ Restart(e) PROVE FALSE
    <2>1. CASE ReadTopics(e) \/ ClaimLock(e) \/ ClaimAbort(e) \/ LoopDone(e) \/ Restart(e)
        BY <2>1 DEF ReadTopics, ClaimLock, ClaimAbort, LoopDone, Restart
    <2>2. CASE ClaimCommit(e) \/ ClaimLost(e)
        <3>1. PICK p \in {"queued", "error"} : ClaimRows(e, locked[e], p)
            BY <2>2 DEF ClaimCommit, ClaimLost
        <3>2. pc'[j][n] \in {pc[j][n], p}
            BY <3>1 DEF ClaimRows, TypeOK, PcType
        <3> QED BY <3>1, <3>2
    <2>3. CASE Crash(e)
        BY <2>3 DEF Crash
    <2> QED BY <1>2, <2>1, <2>2, <2>3 DEF LoopStep
<1>3. ASSUME NEW i \in Jobs, NEW m \in ClaimNumbers, TaskStep(i, m) PROVE Goal
    <2>call. ASSUME NEW from, NEW to, Call(i, m, from, to)
             PROVE  i = j /\ m = n /\ pc[j][n] = from /\ to = "done"
        BY <2>call, CallMoves
    <2>step. \A from, to : Step(i, m, from, to) => Call(i, m, from, to)
        BY DEF Call
    <2>1. CASE Spawn(i, m) \/ GetImage(i, m) \/ CreateConflict(i, m) \/ MonitorTimeout(i, m)
        <3>1. CASE Spawn(i, m)
            BY <3>1 DEF Spawn, Move, TypeOK, PcType
        <3>2. CASE GetImage(i, m)
            BY <3>2, <2>call, <2>step DEF GetImage
        <3>3. CASE CreateConflict(i, m)
            BY <3>3, <2>call, <2>step DEF CreateConflict
        <3>4. CASE MonitorTimeout(i, m)
            BY <3>4, <2>call, <2>step DEF MonitorTimeout
        <3> QED BY <2>1, <3>1, <3>2, <3>3, <3>4
    <2>2. CASE \/ HistClaimed(i, m) \/ CreateJob(i, m) \/ MarkRunning(i, m) \/ HistRunning(i, m)
               \/ MarkCompleted(i, m) \/ HistCompleted(i, m) \/ Requeue(i, m)
               \/ MarkFailed(i, m) \/ MarkTimeout(i, m)
        <3>1. \E from, to : Call(i, m, from, to) /\ to # "done"
            BY <2>2 DEF HistClaimed, CreateJob, MarkRunning, HistRunning, MarkCompleted,
                HistCompleted, Requeue, MarkFailed, MarkTimeout
        <3> QED BY <3>1, <2>call
    <2>3. CASE PollStatus(i, m)
        <3>1. \E to \in {"mark_completed", "requeue", "mark_failed"} : Step(i, m, "monitor", to)
            BY <2>3 DEF PollStatus
        <3> QED BY <3>1, <2>call, <2>step
    <2>4. CASE WaitForOutputs(i, m)
        <3>1. Step(i, m, "outputs", IF i \in DagJobs THEN "dag_completed" ELSE "done")
            BY <2>4 DEF WaitForOutputs
        <3>2. i = j /\ m = n /\ i \notin DagJobs
            BY <3>1, <2>call, <2>step
        <3> QED BY <2>4, <3>2
    <2>5. CASE DagCompleted(i, m)
        <3>1. Step(i, m, "dag_completed", "done")
            BY <2>5 DEF DagCompleted, CallDag
        <3> QED BY <2>5, <3>1, <2>call, <2>step
    <2>6. CASE DagFailed(i, m)
        <3>1. Step(i, m, "dag_failed", "done")
            BY <2>6 DEF DagFailed, CallDag
        <3> QED BY <3>1, <2>call, <2>step
    <2>7. CASE HistRequeued(i, m) \/ HistFailed(i, m) \/ HistTimeout(i, m)
        <3>1. \E to : \E from \in {"hist_requeued", "hist_failed", "hist_timeout"} :
                  Call(i, m, from, to)
            BY <2>7 DEF HistRequeued, HistFailed, HistTimeout
        <3> QED BY <3>1, <2>call
    <2>8. CASE CallError(i, m)
        BY <2>8 DEF CallError, Step, Move, TypeOK, PcType
    <2> QED BY <1>3, <2>1, <2>2, <2>3, <2>4, <2>5, <2>6, <2>7, <2>8 DEF TaskStep
<1>4. CASE \/ \E S \in SUBSET Jobs : Enqueue(S)
           \/ \E name \in Names : Expire(name)
           \/ \E i \in Jobs, m \in ClaimNumbers : ClusterStep(i, m)
    BY <1>4, <1>1 DEF Enqueue, Expire, ClusterStep, RunSucceeds, PodFails
<1> QED BY <1>1, <1>2, <1>3, <1>4 DEF Next, vars

\* Every step keeps what the history and the DAG orchestrator have been told.
LEMMA HistoryStep ==
    ASSUME TypeOK, RowsInv, HistoryInv, HistoryNotAhead, DagHearsTheOutcome, [Next]_vars
    PROVE  HistoryInv' /\ HistoryNotAhead' /\ DagHearsTheOutcome'
<1>types. \A j \in Jobs : /\ claims[j] \in Nat
                          /\ \A h \in history[j] : h.claim \in ClaimNumbers /\ h.claim \in Nat
    BY ConstantsAssumption DEF TypeOK, ClaimType, LogType, ClaimNumbers
<1>phase. \A j \in Jobs, n \in ClaimNumbers : phase[j][n] # "none" => phase'[j][n] # "none"
    BY RunFuture
<1>1. HistoryInv'
    <2>1. ASSUME NEW j \in Jobs, NEW h \in history'[j] PROVE h.claim <= claims'[j]
        <3>1. CASE h \in history[j]
            <4>1. h.claim <= claims[j] /\ claims'[j] \in {claims[j], claims[j] + 1}
                BY <3>1, RowFuture DEF HistoryInv
            <4> QED BY <4>1, <3>1, <1>types
        <3>2. CASE h \notin history[j]
            <4>1. h.claim <= claims[j] /\ UNCHANGED claims
                BY <3>2, NewEntries
            <4> QED BY <4>1
        <3> QED BY <3>1, <3>2
    <2>2. ASSUME NEW j \in Jobs, NEW n \in ClaimNumbers,
                 pc'[j][n] \in {"mark_running", "hist_running"}
          PROVE  phase'[j][n] # "none"
        <3>1. CASE pc[j][n] \in {"mark_running", "hist_running"}
            BY <3>1, <1>phase DEF HistoryInv
        <3>2. CASE pc[j][n] \notin {"mark_running", "hist_running"}
            <4>1. CreateJob(j, n)
                BY <2>2, <3>2, PcMoves DEF Telling
            <4> QED BY <4>1 DEF CreateJob, TypeOK, ClusterType
        <3> QED BY <3>1, <3>2
    <2> QED BY <2>1, <2>2 DEF HistoryInv
<1>2. HistoryNotAhead'
    <2> SUFFICES ASSUME NEW j \in Jobs, NEW h \in history'[j]
                 PROVE  /\ h.status = "running" => phase'[j][h.claim] # "none"
                        /\ h.status = "completed" =>
                               status'[j] = "completed" /\ h.claim = claims'[j]
                        /\ h.status = "failed" =>
                               h.claim < claims'[j] \/ status'[j] \in {"pending", "failed"}
        BY DEF HistoryNotAhead
    <2>1. CASE h \in history[j]
        <3>1. h.status = "running" => phase'[j][h.claim] # "none"
            BY <2>1, <1>types, <1>phase DEF HistoryNotAhead
        <3>2. h.status = "completed" => status'[j] = "completed" /\ h.claim = claims'[j]
            BY <2>1, RowFuture DEF HistoryNotAhead, Terminal
        <3>3. h.status = "failed" =>
                  h.claim < claims'[j] \/ status'[j] \in {"pending", "failed"}
            <4> SUFFICES ASSUME h.status = "failed"
                         PROVE  h.claim < claims'[j] \/ status'[j] \in {"pending", "failed"}
                OBVIOUS
            <4>1. h.claim <= claims[j] /\ claims'[j] \in {claims[j], claims[j] + 1}
                BY <2>1, RowFuture DEF HistoryInv
            <4>2. CASE h.claim < claims[j]
                BY <4>1, <4>2, <2>1, <1>types
            <4>3. CASE status[j] = "pending"
                <5>1. claims'[j] = claims[j] => status'[j] = "pending"
                    BY <4>3, RowFuture
                <5> QED BY <4>1, <5>1, <2>1, <1>types
            <4>4. CASE status[j] = "failed"
                BY <4>4, RowFuture DEF Terminal
            <4> QED BY <2>1, <4>2, <4>3, <4>4 DEF HistoryNotAhead
        <3> QED BY <3>1, <3>2, <3>3
    <2>2. CASE h \notin history[j]
        BY <2>2, NewEntries
    <2> QED BY <2>1, <2>2
<1>3. DagHearsTheOutcome'
    <2>1. ASSUME NEW j \in Jobs, NEW c \in dag_calls'[j]
          PROVE  /\ c = "completion" => status'[j] = "completed"
                 /\ c = "failure" => status'[j] = "failed"
        <3>1. CASE c \in dag_calls[j]
            BY <3>1, RowFuture DEF DagHearsTheOutcome, Terminal
        <3>2. CASE c \notin dag_calls[j]
            BY <3>2, NewEntries
        <3> QED BY <3>1, <3>2
    <2>2. ASSUME NEW j \in DagJobs, NEW n \in ClaimNumbers, status'[j] = "completed",
                 n = claims'[j], pc'[j][n] = "done"
          PROVE  "completion" \in dag_calls'[j]
        <3>0. j \in Jobs
            BY ConstantsAssumption
        <3>1. status[j] = "completed"
            <4> SUFFICES ASSUME status[j] # "completed" PROVE FALSE
                OBVIOUS
            <4>1. PICK m \in ClaimNumbers : MarkCompleted(j, m)
                BY <2>2, <3>0, CompletedBy
            <4>2. pc[j][m] = "mark_completed" /\ claims' = claims /\ pc'[j][m] # "done"
                BY <3>0, <4>1 DEF MarkCompleted, Call, Step, Move, claim_vars, TypeOK, PcType
            <4>3. m = claims[j]
                BY <3>0, <4>2, WriterIsNewest DEF RowWriting, Monitoring, RowsInv
            <4> QED BY <2>2, <4>2, <4>3
        <3>2. n = claims[j]
            BY <2>2, <3>0, <3>1, RowFuture DEF Terminal
        <3>3. CASE pc[j][n] = "done"
            BY <3>0, <3>1, <3>2, <3>3, CallsKept DEF DagHearsTheOutcome
        <3>4. CASE pc[j][n] # "done"
            <4>1. pc[j][n] \in Positions("completed")
                BY <3>0, <3>1, <3>2 DEF RowsInv, PositionInv
            <4>2. DagCompleted(j, n)
                BY <2>2, <3>0, <3>4, <4>1, DoneBy, PositionFacts
            <4> QED BY <3>0, <4>2 DEF DagCompleted, CallDag, TypeOK, LogType
        <3> QED BY <3>3, <3>4
    <2> QED BY <2>1, <2>2 DEF DagHearsTheOutcome
<1> QED BY <1>1, <1>2, <1>3

\* Every step keeps the loops and their locks within the filters: the statement
\* locks rows of the topics that were read, and these were read from the filter.
LEMMA TopicStep ==
    ASSUME TypeOK, TopicInv, [Next]_vars
    PROVE  TopicInv'
<1>same. UNCHANGED <<topics, locked>> => TopicInv'
    BY DEF TopicInv
<1>1. CASE UNCHANGED vars
    BY <1>1, <1>same DEF vars, claim_vars
<1>2. ASSUME NEW e \in Executors, LoopStep(e) \/ Crash(e) \/ Restart(e) PROVE TopicInv'
    <2>1. CASE ReadTopics(e)
        <3>1. TopicFilter[e] # All => EffectiveTopics(e) = TopicFilter[e]
            BY DEF EffectiveTopics
        <3>2. topics' = [topics EXCEPT ![e] = EffectiveTopics(e)] /\ UNCHANGED locked
            BY <2>1 DEF ReadTopics
        <3> QED BY <3>1, <3>2 DEF TopicInv, TypeOK, LoopType
    <2>2. CASE ClaimLock(e)
        <3>1. PICK S \in SUBSET Claimable(e) : locked' = [locked EXCEPT ![e] = S]
            BY <2>2 DEF ClaimLock, FirstRows
        <3>2. \A j \in S : TopicOf[j] \in topics[e]
            BY DEF Claimable
        <3>3. UNCHANGED topics
            BY <2>2 DEF ClaimLock
        <3> QED BY <3>1, <3>2, <3>3 DEF TopicInv, TypeOK, ClaimType
    <2>3. CASE ClaimCommit(e) \/ ClaimLost(e) \/ ClaimAbort(e) \/ Crash(e)
        <3>1. locked' = [locked EXCEPT ![e] = {}] /\ UNCHANGED topics
            BY <2>3 DEF ClaimCommit, ClaimLost, ClaimAbort, Crash, Unlock
        <3> QED BY <3>1 DEF TopicInv, TypeOK, ClaimType
    <2>4. CASE LoopDone(e) \/ Restart(e)
        BY <2>4, <1>same DEF LoopDone, Restart
    <2> QED BY <1>2, <2>1, <2>2, <2>3, <2>4 DEF LoopStep
<1>3. ASSUME NEW j \in Jobs, NEW n \in ClaimNumbers, TaskStep(j, n) PROVE TopicInv'
    <2>1. UNCHANGED claim_vars
        <3>1. CASE Spawn(j, n) \/ GetImage(j, n) \/ CreateConflict(j, n)
                   \/ PollStatus(j, n) \/ MonitorTimeout(j, n)
                   \/ WaitForOutputs(j, n) \/ CallError(j, n) \/ CreateJob(j, n)
            BY <3>1 DEF Spawn, GetImage, CreateConflict, PollStatus, MonitorTimeout,
                WaitForOutputs, CallError, CreateJob
        <3>2. CASE HistClaimed(j, n) \/ HistRunning(j, n) \/ HistCompleted(j, n)
                   \/ HistRequeued(j, n) \/ HistFailed(j, n) \/ HistTimeout(j, n)
                   \/ DagCompleted(j, n) \/ DagFailed(j, n)
            BY <3>2 DEF HistClaimed, HistRunning, HistCompleted, HistRequeued, HistFailed,
                HistTimeout, DagCompleted, DagFailed, CallDag
        <3>3. CASE MarkRunning(j, n) \/ MarkCompleted(j, n) \/ MarkFailed(j, n)
                   \/ MarkTimeout(j, n) \/ Requeue(j, n)
            BY <3>3 DEF MarkRunning, MarkCompleted, MarkFailed, MarkTimeout, Requeue
        <3> QED BY <1>3, <3>1, <3>2, <3>3 DEF TaskStep
    <2> QED BY <2>1, <1>same DEF claim_vars
<1>4. CASE \/ \E S \in SUBSET Jobs : Enqueue(S)
           \/ \E name \in Names : Expire(name)
           \/ \E i \in Jobs, m \in ClaimNumbers : ClusterStep(i, m)
    BY <1>4, <1>same DEF Enqueue, Expire, ClusterStep, RunSucceeds, PodFails, claim_vars
<1> QED BY <1>1, <1>2, <1>3, <1>4 DEF Next

\* A name is given to a run by create_job and taken back by the ttl, and by
\* nothing else.
LEMMA NameFuture ==
    ASSUME TypeOK, NameInv, [Next]_vars, NEW name \in Names
    PROVE  \/ cluster'[name] \in {cluster[name], None}
           \/ \E j \in Jobs, n \in ClaimNumbers :
                  /\ CreateJob(j, n)
                  /\ NameOf[j] = name /\ cluster'[name] = [job |-> j, claim |-> n]
<1> DEFINE Goal == \/ cluster'[name] \in {cluster[name], None}
                   \/ \E j \in Jobs, n \in ClaimNumbers :
                          /\ CreateJob(j, n)
                          /\ NameOf[j] = name /\ cluster'[name] = [job |-> j, claim |-> n]
<1>same. UNCHANGED cluster => Goal
    OBVIOUS
<1>1. CASE UNCHANGED vars
    BY <1>1, <1>same DEF vars, cluster_vars
<1>2. ASSUME NEW e \in Executors, LoopStep(e) \/ Crash(e) \/ Restart(e) PROVE Goal
    BY <1>2, <1>same DEF LoopStep, ReadTopics, ClaimLock, ClaimAbort, LoopDone, ClaimCommit,
        ClaimLost, Crash, Restart, cluster_vars
<1>3. ASSUME NEW i \in Jobs, NEW m \in ClaimNumbers, TaskStep(i, m) PROVE Goal
    <2>1. CASE CreateJob(i, m)
        <3>1. cluster' = [cluster EXCEPT ![NameOf[i]] = [job |-> i, claim |-> m]]
            BY <2>1, JobNameIsOwn DEF CreateJob
        <3> QED BY <2>1, <3>1 DEF TypeOK, ClusterType
    <2>2. CASE Spawn(i, m) \/ GetImage(i, m) \/ CreateConflict(i, m) \/ PollStatus(i, m)
               \/ MonitorTimeout(i, m) \/ WaitForOutputs(i, m) \/ CallError(i, m)
        BY <2>2, <1>same DEF Spawn, GetImage, CreateConflict, PollStatus, MonitorTimeout,
            WaitForOutputs, CallError, cluster_vars
    <2>3. CASE HistClaimed(i, m) \/ HistRunning(i, m) \/ HistCompleted(i, m)
               \/ HistRequeued(i, m) \/ HistFailed(i, m) \/ HistTimeout(i, m)
        BY <2>3, <1>same DEF HistClaimed, HistRunning, HistCompleted, HistRequeued,
            HistFailed, HistTimeout, cluster_vars
    <2>4. CASE \/ DagCompleted(i, m) \/ DagFailed(i, m) \/ MarkRunning(i, m)
               \/ MarkCompleted(i, m) \/ MarkFailed(i, m) \/ MarkTimeout(i, m) \/ Requeue(i, m)
        BY <2>4, <1>same DEF DagCompleted, DagFailed, CallDag, MarkRunning, MarkCompleted,
            MarkFailed, MarkTimeout, Requeue, cluster_vars
    <2> QED BY <1>3, <2>1, <2>2, <2>3, <2>4 DEF TaskStep
<1>4. CASE \/ \E S \in SUBSET Jobs : Enqueue(S)
           \/ \E i \in Jobs, m \in ClaimNumbers : ClusterStep(i, m)
    BY <1>4, <1>same DEF Enqueue, ClusterStep, RunSucceeds, PodFails, cluster_vars
<1>5. ASSUME NEW freed \in Names, Expire(freed) PROVE Goal
    BY <1>5 DEF Expire, TypeOK, ClusterType
<1> QED BY <1>1, <1>2, <1>3, <1>4, <1>5 DEF Next

\* With distinct names, what the newest task finds under its name is its own run.
LEMMA RunStep ==
    ASSUME NamesDistinct, TypeOK, RowsInv, NameInv, RunInv, CompletedRunSucceeded, [Next]_vars
    PROVE  RunInv' /\ CompletedRunSucceeded'
<1>types. \A j \in Jobs : claims[j] \in Nat /\ NameOf[j] \in Names
    BY ConstantsAssumption DEF TypeOK, ClaimType, Names
<1>newest. \A j \in Jobs, n \in ClaimNumbers :
               pc[j][n] \in {"create", "mark_running", "hist_running", "monitor"} => n = claims[j]
    <2> SUFFICES ASSUME NEW j \in Jobs, NEW n \in ClaimNumbers,
                        pc[j][n] \in {"create", "mark_running", "hist_running", "monitor"}
                 PROVE  n = claims[j]
        OBVIOUS
    <2>1. n \in Nat /\ pc[j][n] # "new" /\ pc[j][n] \notin Positions("pending")
        BY PositionFacts DEF ClaimNumbers
    <2> QED BY <2>1, <1>types DEF RowsInv, PositionInv
<1>kept. ASSUME NEW j \in Jobs, NEW n \in ClaimNumbers,
                cluster[NameOf[j]] \in {None, [job |-> j, claim |-> n]},
                pc[j][n] \in {"mark_running", "hist_running", "monitor"}
         PROVE  cluster'[NameOf[j]] \in {None, [job |-> j, claim |-> n]}
    <2>1. ASSUME NEW i \in Jobs, NEW m \in ClaimNumbers, CreateJob(i, m),
                 NameOf[i] = NameOf[j]
          PROVE  FALSE
        <3>1. i = j /\ pc[i][m] = "create"
            BY <2>1 DEF NamesDistinct, CreateJob, Call, Step, Move
        <3>2. m = n
            BY <3>1, <1>kept, <1>newest
        <3> QED BY <3>1, <3>2, <1>kept
    <2> QED BY <2>1, <1>kept, <1>types, NameFuture
<1>succeeded. ASSUME NEW j \in Jobs, NEW n \in ClaimNumbers, phase[j][n] = "succeeded",
                     pc[j][n] # "create"
              PROVE  phase'[j][n] = "succeeded"
    BY <1>succeeded, RunFuture
<1>1. RunInv'
    <2> SUFFICES ASSUME NEW j \in Jobs, NEW n \in ClaimNumbers
                 PROVE  /\ pc'[j][n] \in {"mark_running", "hist_running", "monitor"} =>
                               cluster'[NameOf[j]] \in {None, [job |-> j, claim |-> n]}
                        /\ pc'[j][n] = "mark_completed" => phase'[j][n] = "succeeded"
        BY DEF RunInv
    <2>1. ASSUME pc'[j][n] \in {"mark_running", "hist_running", "monitor"}
          PROVE  cluster'[NameOf[j]] \in {None, [job |-> j, claim |-> n]}
        <3>1. CASE pc[j][n] \in {"mark_running", "hist_running", "monitor"}
            BY <3>1, <1>kept DEF RunInv
        <3>2. CASE pc[j][n] \notin {"mark_running", "hist_running", "monitor"}
            <4>1. CreateJob(j, n)
                BY <2>1, <3>2, PcMoves DEF Telling
            <4>2. cluster' = [cluster EXCEPT ![NameOf[j]] = [job |-> j, claim |-> n]]
                BY <4>1, JobNameIsOwn DEF CreateJob
            <4> QED BY <4>2, <1>types DEF TypeOK, ClusterType
        <3> QED BY <3>1, <3>2
    <2>2. ASSUME pc'[j][n] = "mark_completed" PROVE phase'[j][n] = "succeeded"
        <3>1. CASE pc[j][n] = "mark_completed"
            BY <3>1, <1>succeeded DEF RunInv
        <3>2. CASE pc[j][n] # "mark_completed"
            <4>1. PollStatus(j, n)
                BY <2>2, <3>2, PcMoves DEF Telling
            <4>2. pc[j][n] = "monitor" /\ cluster[NameOf[j]] # None
                BY <4>1, JobNameIsOwn DEF PollStatus, Step, Move
            <4>3. cluster[NameOf[j]] = [job |-> j, claim |-> n]
                BY <4>2 DEF RunInv
            <4>4. phase[j][n] = "succeeded"
                <5> DEFINE r == cluster[JobName(j, n)]
                <5>1. r = [job |-> j, claim |-> n]
                    BY <4>3, JobNameIsOwn
                <5>2. ~Step(j, n, "monitor", IF ShouldRetry(j, n) THEN "requeue" ELSE "mark_failed")
                    BY <2>2 DEF Step, Move, TypeOK, PcType
                <5>3. phase[r.job][r.claim] = "succeeded"
                    BY <4>1, <5>2 DEF PollStatus
                <5> QED BY <5>1, <5>3
            <4> QED BY <4>2, <4>4, <1>succeeded
        <3> QED BY <3>1, <3>2
    <2> QED BY <2>1, <2>2
<1>2. CompletedRunSucceeded'
    <2> SUFFICES ASSUME NEW j \in Jobs, status'[j] = "completed"
                 PROVE  \E n \in ClaimNumbers : n = claims'[j] /\ phase'[j][n] = "succeeded"
        BY DEF CompletedRunSucceeded
    <2>1. CASE status[j] = "completed"
        <3>1. PICK n \in ClaimNumbers : n = claims[j] /\ phase[j][n] = "succeeded"
            BY <2>1 DEF CompletedRunSucceeded
        <3>2. pc[j][n] # "create"
            BY <2>1, <3>1, PositionFacts DEF RowsInv, PositionInv
        <3>3. claims'[j] = claims[j]
            BY <2>1, RowFuture DEF Terminal
        <3> QED BY <3>1, <3>2, <3>3, <1>succeeded
    <2>2. CASE status[j] # "completed"
        <3>1. PICK n \in ClaimNumbers : MarkCompleted(j, n)
            BY <2>2, CompletedBy
        <3>2. pc[j][n] = "mark_completed"
            BY <3>1 DEF MarkCompleted, Call, Step, Move
        <3>3. n = claims[j] /\ UNCHANGED claims
            BY <3>1, <3>2, WriterIsNewest DEF RowsInv, Monitoring, MarkCompleted, claim_vars
        <3> QED BY <3>2, <3>3, <1>succeeded DEF RunInv
    <2> QED BY <2>1, <2>2
<1> QED BY <1>1, <1>2

\* A task that has not created its run yet has not done so before.
LEMMA UnstartedMoves ==
    ASSUME TypeOK, PositionInv, LockInv, [Next]_vars, NEW j \in Jobs, NEW n \in ClaimNumbers,
           pc'[j][n] \in Unstarted
    PROVE  pc[j][n] \in Unstarted /\ ~CreateJob(j, n)
<1>created. ~CreateJob(j, n)
    BY DEF CreateJob, Call, Step, Move, TypeOK, PcType, Unstarted
<1>1. CASE UNCHANGED pc
    BY <1>1, <1>created
<1>2. ASSUME NEW e \in Executors, LoopStep(e) \/ Crash(e) \/ Restart(e)
      PROVE  pc[j][n] \in Unstarted
    <2>1. CASE ReadTopics(e) \/ ClaimLock(e) \/ ClaimAbort(e) \/ LoopDone(e) \/ Restart(e)
        BY <2>1 DEF ReadTopics, ClaimLock, ClaimAbort, LoopDone, Restart
    <2>2. CASE ClaimCommit(e) \/ ClaimLost(e)
        <3>1. PICK p \in {"queued", "error"} : ClaimRows(e, locked[e], p)
            BY <2>2 DEF ClaimCommit, ClaimLost
        <3>2. \/ pc'[j][n] = pc[j][n]
              \/ n = claims[j] + 1
            BY <3>1 DEF ClaimRows, TypeOK, PcType
        <3>3. claims[j] \in Nat
            BY ConstantsAssumption DEF TypeOK, ClaimType
        <3>4. n = claims[j] + 1 => pc[j][n] = "new"
            BY <3>3 DEF PositionInv
        <3> QED BY <3>2, <3>4 DEF Unstarted
    <2>3. CASE Crash(e)
        BY <2>3 DEF Crash, Unstarted
    <2> QED BY <1>2, <2>1, <2>2, <2>3 DEF LoopStep
<1>3. ASSUME NEW i \in Jobs, NEW m \in ClaimNumbers, TaskStep(i, m)
      PROVE  pc[j][n] \in Unstarted
    <2>call. ASSUME NEW from, NEW to, Call(i, m, from, to),
                    from \in Unstarted \/ to \notin Unstarted
             PROVE  pc[j][n] \in Unstarted
        BY <2>call, CallMoves DEF Unstarted
    <2>step. \A from, to : Step(i, m, from, to) => Call(i, m, from, to)
        BY DEF Call
    <2>0. CASE Spawn(i, m)
        BY <2>0 DEF Spawn, Move, TypeOK, PcType, Unstarted
    <2>1. CASE \/ GetImage(i, m) \/ CreateConflict(i, m)
               \/ MonitorTimeout(i, m) \/ DagCompleted(i, m) \/ DagFailed(i, m)
        <3>1. PICK from, to : /\ Step(i, m, from, to)
                              /\ from \in Unstarted \/ to \notin Unstarted
            BY <2>1 DEF GetImage, CreateConflict, MonitorTimeout, DagCompleted,
                DagFailed, CallDag, Unstarted
        <3> QED BY <3>1, <2>call, <2>step
    <2>2. CASE PollStatus(i, m)
        <3>1. PICK to \in {"mark_completed", "requeue", "mark_failed"} :
                  Call(i, m, "monitor", to)
            BY <2>2, <2>step DEF PollStatus
        <3> QED BY <3>1, <2>call DEF Unstarted
    <2>3. CASE WaitForOutputs(i, m)
        <3>1. PICK to \in {"dag_completed", "done"} : Call(i, m, "outputs", to)
            BY <2>3, <2>step DEF WaitForOutputs
        <3> QED BY <3>1, <2>call DEF Unstarted
    <2>4. CASE CallError(i, m)
        BY <2>4 DEF CallError, Step, Move, TypeOK, PcType, Unstarted
    <2>5. CASE HistClaimed(i, m) \/ HistRunning(i, m) \/ HistCompleted(i, m)
               \/ HistRequeued(i, m) \/ HistFailed(i, m) \/ HistTimeout(i, m)
        <3>1. PICK from, to : /\ Call(i, m, from, to)
                              /\ from \in Unstarted \/ to \notin Unstarted
            <4>1. CASE HistFailed(i, m)
                <5>1. PICK to \in {"dag_failed", "done"} : Call(i, m, "hist_failed", to)
                    BY <4>1 DEF HistFailed
                <5> QED BY <5>1 DEF Unstarted
            <4>2. CASE ~HistFailed(i, m)
                BY <2>5, <4>2 DEF HistClaimed, HistRunning, HistCompleted, HistRequeued,
                    HistTimeout, Unstarted
            <4> QED BY <4>1, <4>2
        <3> QED BY <3>1, <2>call
    <2>6. CASE CreateJob(i, m) \/ MarkRunning(i, m) \/ MarkCompleted(i, m)
               \/ MarkFailed(i, m) \/ MarkTimeout(i, m) \/ Requeue(i, m)
        <3>1. PICK from, to : /\ Call(i, m, from, to)
                              /\ to \notin Unstarted
            BY <2>6 DEF CreateJob, MarkRunning, MarkCompleted, MarkFailed, MarkTimeout,
                Requeue, Unstarted
        <3> QED BY <3>1, <2>call
    <2> QED BY <1>3, <2>0, <2>1, <2>2, <2>3, <2>4, <2>5, <2>6 DEF TaskStep
<1>4. CASE \/ \E S \in SUBSET Jobs : Enqueue(S)
           \/ \E name \in Names : Expire(name)
           \/ \E i \in Jobs, m \in ClaimNumbers : ClusterStep(i, m)
    BY <1>1, <1>4 DEF Enqueue, Expire, ClusterStep, RunSucceeds, PodFails
<1> QED BY <1>created, <1>1, <1>2, <1>3, <1>4 DEF Next, vars

\* A run's pod failures are counted, and without a backoffLimit the failure of a pod
\* is that of the run.
LEMMA PodFuture ==
    ASSUME TypeOK, [Next]_vars, NEW j \in Jobs, NEW n \in ClaimNumbers
    PROVE  \/ pod_failures'[j][n] = pod_failures[j][n]
           \/ /\ pod_failures'[j][n] = pod_failures[j][n] + 1
              /\ BackoffLimit = 0 => phase'[j][n] = "failed"
<1> DEFINE Goal == \/ pod_failures'[j][n] = pod_failures[j][n]
                   \/ /\ pod_failures'[j][n] = pod_failures[j][n] + 1
                      /\ BackoffLimit = 0 => phase'[j][n] = "failed"
<1>same. UNCHANGED pod_failures => Goal
    OBVIOUS
<1>1. CASE UNCHANGED vars
    BY <1>1, <1>same DEF vars, cluster_vars
<1>2. ASSUME NEW e \in Executors, LoopStep(e) \/ Crash(e) \/ Restart(e) PROVE Goal
    BY <1>2, <1>same DEF LoopStep, ReadTopics, ClaimLock, ClaimAbort, LoopDone, ClaimCommit,
        ClaimLost, Crash, Restart, cluster_vars
<1>3. ASSUME NEW i \in Jobs, NEW m \in ClaimNumbers, TaskStep(i, m) PROVE Goal
    <2>1. CASE CreateJob(i, m) \/ Spawn(i, m) \/ GetImage(i, m) \/ CreateConflict(i, m)
               \/ PollStatus(i, m) \/ MonitorTimeout(i, m) \/ WaitForOutputs(i, m)
               \/ CallError(i, m)
        BY <2>1, <1>same DEF CreateJob, Spawn, GetImage, CreateConflict, PollStatus,
            MonitorTimeout, WaitForOutputs, CallError, cluster_vars
    <2>2. CASE HistClaimed(i, m) \/ HistRunning(i, m) \/ HistCompleted(i, m)
               \/ HistRequeued(i, m) \/ HistFailed(i, m) \/ HistTimeout(i, m)
        BY <2>2, <1>same DEF HistClaimed, HistRunning, HistCompleted, HistRequeued,
            HistFailed, HistTimeout, cluster_vars
    <2>3. CASE \/ DagCompleted(i, m) \/ DagFailed(i, m) \/ MarkRunning(i, m)
               \/ MarkCompleted(i, m) \/ MarkFailed(i, m) \/ MarkTimeout(i, m) \/ Requeue(i, m)
        BY <2>3, <1>same DEF DagCompleted, DagFailed, CallDag, MarkRunning, MarkCompleted,
            MarkFailed, MarkTimeout, Requeue, cluster_vars
    <2> QED BY <1>3, <2>1, <2>2, <2>3 DEF TaskStep
<1>4. CASE (\E S \in SUBSET Jobs : Enqueue(S)) \/ \E name \in Names : Expire(name)
    BY <1>4, <1>same DEF Enqueue, Expire, cluster_vars
<1>5. ASSUME NEW i \in Jobs, NEW m \in ClaimNumbers, ClusterStep(i, m) PROVE Goal
    <2>1. CASE RunSucceeds(i, m)
        BY <2>1, <1>same DEF RunSucceeds
    <2>2. CASE PodFails(i, m)
        <3>1. pod_failures[i][m] >= 0
            BY DEF TypeOK, ClusterType
        <3>2. /\ pod_failures' = [pod_failures EXCEPT ![i][m] = @ + 1]
              /\ BackoffLimit = 0 => phase' = [phase EXCEPT ![i][m] = "failed"]
            BY <2>2, <3>1 DEF PodFails
        <3> QED BY <3>2 DEF TypeOK, ClusterType
    <2> QED BY <1>5, <2>1, <2>2 DEF ClusterStep
<1> QED BY <1>1, <1>2, <1>3, <1>4, <1>5 DEF Next

\* A row becomes pending when it is inserted or requeued.
LEMMA PendingBy ==
    ASSUME TypeOK, [Next]_vars, NEW j \in Jobs, status'[j] = "pending",
           status[j] \notin {"absent", "pending"}
    PROVE  \E n \in ClaimNumbers : Requeue(j, n)
<1>1. status' # status
    OBVIOUS
<1>2. ASSUME NEW e \in Executors, LoopStep(e) \/ Crash(e) \/ Restart(e) PROVE FALSE
    <2>1. CASE ClaimCommit(e) \/ ClaimLost(e)
        BY <2>1 DEF ClaimCommit, ClaimLost, ClaimRows
    <2>2. CASE ReadTopics(e) \/ ClaimLock(e) \/ ClaimAbort(e) \/ LoopDone(e) \/ Crash(e)
               \/ Restart(e)
        BY <1>1, <2>2 DEF ReadTopics, ClaimLock, ClaimAbort, LoopDone, Crash, Restart, row
    <2> QED BY <1>2, <2>1, <2>2 DEF LoopStep
<1>3. ASSUME NEW i \in Jobs, NEW n \in ClaimNumbers, TaskStep(i, n)
      PROVE  i = j /\ Requeue(i, n)
    <2>1. CASE Requeue(i, n)
        BY <2>1 DEF Requeue, RequeueRow, TypeOK, RowType
    <2>2. CASE MarkRunning(i, n) \/ MarkFailed(i, n) \/ MarkTimeout(i, n) \/ MarkCompleted(i, n)
        BY <2>2 DEF MarkRunning, MarkFailed, MarkTimeout, MarkCompleted, UpdateRunning,
            UpdateStatus, TypeOK, RowType
    <2>3. CASE Spawn(i, n) \/ GetImage(i, n) \/ CreateConflict(i, n) \/ PollStatus(i, n)
               \/ MonitorTimeout(i, n) \/ WaitForOutputs(i, n) \/ CallError(i, n)
               \/ CreateJob(i, n)
        BY <1>1, <2>3 DEF Spawn, GetImage, CreateConflict, PollStatus, MonitorTimeout,
            WaitForOutputs, CallError, CreateJob, row
    <2>4. CASE HistClaimed(i, n) \/ HistRunning(i, n) \/ HistCompleted(i, n)
               \/ HistRequeued(i, n) \/ HistFailed(i, n) \/ HistTimeout(i, n)
               \/ DagCompleted(i, n) \/ DagFailed(i, n)
        BY <1>1, <2>4 DEF HistClaimed, HistRunning, HistCompleted, HistRequeued, HistFailed,
            HistTimeout, DagCompleted, DagFailed, CallDag, row
    <2> QED BY <1>3, <2>1, <2>2, <2>3, <2>4 DEF TaskStep
<1>4. ASSUME NEW S \in SUBSET Jobs, Enqueue(S) PROVE FALSE
    BY <1>4 DEF Enqueue
<1>5. ASSUME \/ \E name \in Names : Expire(name)
             \/ \E i \in Jobs, m \in ClaimNumbers : ClusterStep(i, m)
      PROVE  FALSE
    BY <1>1, <1>5 DEF Expire, ClusterStep, RunSucceeds, PodFails, row
<1> QED BY <1>1, <1>2, <1>3, <1>4, <1>5 DEF Next, vars, row

\* A task has no run before it creates it.
LEMMA StartedStep ==
    ASSUME TypeOK, RowsInv, StartedInv, [Next]_vars
    PROVE  StartedInv'
<1> SUFFICES ASSUME NEW j \in Jobs, NEW n \in ClaimNumbers, pc'[j][n] \in Unstarted
             PROVE  phase'[j][n] = "none"
    BY DEF StartedInv
<1>1. pc[j][n] \in Unstarted /\ phase[j][n] = "none"
    BY UnstartedMoves DEF RowsInv, StartedInv
<1>2. ~CreateJob(j, n)
    BY UnstartedMoves DEF RowsInv
<1> QED BY <1>1, <1>2, RunFuture

\* With distinct names and no backoffLimit, what a retry leaves behind has failed.
LEMMA RetryStep ==
    ASSUME NamesDistinct, BackoffLimit = 0, TypeOK, RowsInv, NameInv, StartedInv, RunInv,
           RetryInv, [Next]_vars
    PROVE  RetryInv'
<1> SUFFICES ASSUME NEW j \in Jobs, NEW n \in ClaimNumbers
             PROVE  /\ pod_failures'[j][n] > 0 => phase'[j][n] = "failed"
                    /\ pc'[j][n] = "requeue" => phase'[j][n] = "failed"
                    /\ n < claims'[j] \/ (n = claims'[j] /\ status'[j] = "pending") =>
                           phase'[j][n] = "failed"
    BY DEF RetryInv
<1>types. claims[j] \in Nat /\ n \in Nat \ {0}
    BY ConstantsAssumption DEF TypeOK, ClaimType, ClaimNumbers
<1>failed. ASSUME phase[j][n] = "failed" PROVE phase'[j][n] = "failed"
    BY <1>failed, RunFuture DEF StartedInv, Unstarted
<1>1. ASSUME pod_failures'[j][n] > 0 PROVE phase'[j][n] = "failed"
    BY <1>1, <1>failed, PodFuture DEF RetryInv
<1>2. ASSUME pc'[j][n] = "requeue" PROVE phase'[j][n] = "failed"
    <2>1. CASE pc[j][n] = "requeue"
        BY <2>1, <1>failed DEF RetryInv
    <2>2. CASE pc[j][n] # "requeue"
        <3>1. PollStatus(j, n)
            BY <1>2, <2>2, PcMoves DEF Telling
        <3>2. pc[j][n] = "monitor" /\ cluster[NameOf[j]] # None
            BY <3>1, JobNameIsOwn DEF PollStatus, Step, Move
        <3>3. cluster[JobName(j, n)] = [job |-> j, claim |-> n]
            BY <3>2, JobNameIsOwn DEF RunInv
        <3>4. ~Step(j, n, "monitor", "mark_completed")
            BY <1>2 DEF Step, Move, TypeOK, PcType
        <3>5. pod_failures[j][n] > 0
            <4> DEFINE r == cluster[JobName(j, n)]
            <4>1. pod_failures[r.job][r.claim] > 0
                BY <3>1, <3>4 DEF PollStatus
            <4> QED BY <3>3, <4>1
        <3> QED BY <3>5, <1>failed DEF RetryInv
    <2> QED BY <2>1, <2>2
<1>3. ASSUME n < claims'[j] \/ (n = claims'[j] /\ status'[j] = "pending")
      PROVE  phase'[j][n] = "failed"
    <2>1. CASE claims'[j] = claims[j]
        <3>1. CASE n < claims[j] \/ status[j] = "pending"
            BY <1>3, <2>1, <3>1, <1>failed DEF RetryInv
        <3>2. CASE ~(n < claims[j]) /\ status[j] # "pending"
            <4>1. n = claims[j] /\ status'[j] = "pending" /\ status[j] # "absent"
                BY <1>3, <2>1, <3>2, <1>types DEF RowsInv, AbsentInv
            <4>2. PICK m \in ClaimNumbers : Requeue(j, m)
                BY <3>2, <4>1, PendingBy
            <4>3. pc[j][m] = "requeue"
                BY <4>2 DEF Requeue, Call, Step, Move
            <4>4. m = claims[j]
                BY <4>3, WriterIsNewest DEF Monitoring, RowsInv
            <4> QED BY <4>1, <4>3, <4>4, <1>failed DEF RetryInv
        <3> QED BY <3>1, <3>2
    <2>2. CASE claims'[j] # claims[j]
        <3>1. claims'[j] = claims[j] + 1 /\ status[j] = "pending" /\ status'[j] = "claimed"
            BY <2>2, RowFuture
        <3>2. n < claims[j] \/ n = claims[j]
            BY <1>3, <1>types, <3>1
        <3> QED BY <3>1, <3>2, <1>failed DEF RetryInv
    <2> QED BY <2>1, <2>2
<1> QED BY <1>1, <1>2, <1>3

\* Only a requeue counts.
LEMMA CountedBy ==
    ASSUME TypeOK, [Next]_vars, NEW j \in Jobs, retry_count'[j] # retry_count[j]
    PROVE  \E n \in ClaimNumbers : Requeue(j, n)
<1>1. ~UNCHANGED retry_count
    OBVIOUS
<1>2. ASSUME NEW e \in Executors, LoopStep(e) \/ Crash(e) \/ Restart(e) PROVE FALSE
    BY <1>1, <1>2 DEF LoopStep, ReadTopics, ClaimLock, ClaimCommit, ClaimLost, ClaimAbort,
        LoopDone, Crash, Restart, ClaimRows, row
<1>3. ASSUME NEW i \in Jobs, NEW n \in ClaimNumbers, TaskStep(i, n)
      PROVE  i = j /\ Requeue(i, n)
    <2>1. CASE Requeue(i, n)
        BY <2>1 DEF Requeue, RequeueRow, TypeOK, RowType
    <2>2. CASE MarkRunning(i, n) \/ MarkFailed(i, n) \/ MarkTimeout(i, n) \/ MarkCompleted(i, n)
        BY <1>1, <2>2 DEF MarkRunning, MarkFailed, MarkTimeout, MarkCompleted, UpdateRunning,
            UpdateStatus
    <2>3. CASE Spawn(i, n) \/ GetImage(i, n) \/ CreateConflict(i, n) \/ PollStatus(i, n)
               \/ MonitorTimeout(i, n) \/ WaitForOutputs(i, n) \/ CallError(i, n)
               \/ CreateJob(i, n)
        BY <1>1, <2>3 DEF Spawn, GetImage, CreateConflict, PollStatus, MonitorTimeout,
            WaitForOutputs, CallError, CreateJob, row
    <2>4. CASE HistClaimed(i, n) \/ HistRunning(i, n) \/ HistCompleted(i, n)
               \/ HistRequeued(i, n) \/ HistFailed(i, n) \/ HistTimeout(i, n)
               \/ DagCompleted(i, n) \/ DagFailed(i, n)
        BY <1>1, <2>4 DEF HistClaimed, HistRunning, HistCompleted, HistRequeued, HistFailed,
            HistTimeout, DagCompleted, DagFailed, CallDag, row
    <2> QED BY <1>3, <2>1, <2>2, <2>3, <2>4 DEF TaskStep
<1>4. ASSUME \/ \E S \in SUBSET Jobs : Enqueue(S)
             \/ \E name \in Names : Expire(name)
             \/ \E i \in Jobs, m \in ClaimNumbers : ClusterStep(i, m)
      PROVE  FALSE
    BY <1>1, <1>4 DEF Enqueue, Expire, ClusterStep, RunSucceeds, PodFails, row
<1> QED BY <1>1, <1>2, <1>3, <1>4 DEF Next, vars, row

\* What a task that polls finds: with distinct names a failed pod is of its own run,
\* and no retry is left when the job is given up.
LEMMA PollFacts ==
    ASSUME TypeOK, RowsInv, NameInv, RunInv,
           NEW j \in Jobs, NEW n \in ClaimNumbers, PollStatus(j, n),
           pc'[j][n] \in {"requeue", "mark_failed"}
    PROVE  /\ pod_failures[j][n] > 0
           /\ UNCHANGED <<retry_count, pod_failures>>
           /\ pc'[j][n] = "mark_failed" => retry_count[j] = MaxRetries[j]
<1>1. pc[j][n] = "monitor" /\ cluster[NameOf[j]] # None
    BY JobNameIsOwn DEF PollStatus, Step, Move
<1>2. cluster[JobName(j, n)] = [job |-> j, claim |-> n]
    BY <1>1, JobNameIsOwn DEF RunInv
<1>3. ~Step(j, n, "monitor", "mark_completed")
    BY DEF Step, Move, TypeOK, PcType
<1>4. Step(j, n, "monitor", IF ShouldRetry(j, n) THEN "requeue" ELSE "mark_failed")
    BY <1>3 DEF PollStatus
<1>5. pod_failures[j][n] > 0
    <2> DEFINE r == cluster[JobName(j, n)]
    <2>1. pod_failures[r.job][r.claim] > 0
        BY <1>3 DEF PollStatus
    <2> QED BY <1>2, <2>1
<1>6. ASSUME pc'[j][n] = "mark_failed" PROVE retry_count[j] = MaxRetries[j]
    <2>1. ~ShouldRetry(j, n)
        BY <1>4, <1>6 DEF Step, Move, TypeOK, PcType
    <2>2. n = claims[j] /\ status[j] = "running"
        BY <1>1, WriterIsNewest DEF RowsInv, Monitoring
    <2>3. seen[j][n].retry_count = retry_count[j] /\ retry_count[j] <= MaxRetries[j]
        BY <2>2 DEF RowsInv, SnapshotInv, RetryBudget
    <2>4. retry_count[j] \in Nat /\ MaxRetries[j] \in Nat
        BY ConstantsAssumption DEF TypeOK, RowType
    <2> QED BY <2>1, <2>3, <2>4 DEF ShouldRetry
<1> QED BY <1>5, <1>6 DEF PollStatus, row, cluster_vars

\* With distinct names no attempt is given up, retried or reported for nothing.
LEMMA FailureStep ==
    ASSUME TypeOK, RowsInv, NameInv, HistoryInv, DagHearsTheOutcome, RunInv, FailureInv,
           FailuresAreReal, [Next]_vars
    PROVE  FailureInv' /\ FailuresAreReal'
<1>types. /\ \A j \in Jobs : claims[j] \in Nat /\ status[j] \in Statuses
          /\ \A n \in ClaimNumbers : n \in Nat \ {0}
          /\ \A j \in Jobs, n \in ClaimNumbers : pod_failures[j][n] \in Nat
    BY ConstantsAssumption DEF TypeOK, RowType, ClaimType, ClusterType, ClaimNumbers
<1>pods. ASSUME NEW j \in Jobs, NEW n \in ClaimNumbers, pod_failures[j][n] > 0
         PROVE  pod_failures'[j][n] > 0
    BY <1>pods, <1>types, PodFuture
<1>requeue. ASSUME NEW j \in Jobs, NEW m \in ClaimNumbers, Requeue(j, m)
            PROVE  pc[j][m] = "requeue" /\ m = claims[j] /\ status[j] = "running"
    <2>1. pc[j][m] = "requeue"
        BY <1>requeue DEF Requeue, Call, Step, Move
    <2> QED BY <2>1, WriterIsNewest DEF RowsInv, Monitoring
<1>count. ASSUME NEW j \in Jobs, NEW n \in ClaimNumbers,
                 pc[j][n] \in {"mark_failed", "hist_failed", "dag_failed"}
          PROVE  retry_count'[j] = retry_count[j]
    <2> SUFFICES ASSUME retry_count'[j] # retry_count[j] PROVE FALSE
        OBVIOUS
    <2>1. PICK m \in ClaimNumbers : Requeue(j, m)
        BY CountedBy
    <2>2. n = claims[j] /\ pc[j][n] \in Positions(status[j])
        BY <1>count, <1>types, PositionFacts DEF RowsInv, PositionInv
    <2>3. pc[j][n] \in {"hist_failed", "dag_failed"} => status[j] # "running"
        BY <2>2, PositionFacts
    <2> QED BY <1>count, <1>requeue, <2>1, <2>2, <2>3
<1>1. FailureInv'
    <2> SUFFICES ASSUME NEW j \in Jobs, NEW n \in ClaimNumbers,
                        pc'[j][n] \in {"requeue", "mark_failed", "hist_failed", "dag_failed"}
                 PROVE  /\ pod_failures'[j][n] > 0
                        /\ pc'[j][n] # "requeue" => retry_count'[j] = MaxRetries[j]
        BY DEF FailureInv
    <2>1. CASE PollStatus(j, n) /\ pc'[j][n] \in {"requeue", "mark_failed"}
        BY <2>1, PollFacts
    <2>2. CASE pc'[j][n] = pc[j][n]
        BY <2>2, <1>pods, <1>count DEF FailureInv
    <2>3. CASE \/ pc'[j][n] = "hist_failed" /\ pc[j][n] = "mark_failed"
               \/ pc'[j][n] = "dag_failed" /\ pc[j][n] = "hist_failed"
        BY <2>3, <1>pods, <1>count DEF FailureInv
    <2> QED BY <2>1, <2>2, <2>3, PcMoves DEF Telling
<1>2. ASSUME NEW j \in Jobs, NEW n \in ClaimNumbers,
             n < claims'[j] \/ (n = claims'[j] /\ status'[j] = "pending")
      PROVE  pod_failures'[j][n] > 0
    <2>1. CASE claims'[j] = claims[j]
        <3>1. CASE n < claims[j] \/ status[j] = "pending"
            BY <1>2, <2>1, <3>1, <1>pods DEF FailuresAreReal
        <3>2. CASE ~(n < claims[j]) /\ status[j] # "pending"
            <4>1. n = claims[j] /\ status'[j] = "pending" /\ status[j] # "absent"
                BY <1>2, <2>1, <3>2, <1>types DEF RowsInv, AbsentInv
            <4>2. PICK m \in ClaimNumbers : Requeue(j, m)
                BY <3>2, <4>1, PendingBy
            <4> QED BY <1>requeue, <4>1, <4>2, <1>pods DEF FailureInv
        <3> QED BY <3>1, <3>2
    <2>2. CASE claims'[j] # claims[j]
        <3>1. claims'[j] = claims[j] + 1 /\ status[j] = "pending" /\ status'[j] = "claimed"
            BY <2>2, RowFuture
        <3>2. n < claims[j] \/ n = claims[j]
            BY <1>2, <1>types, <3>1
        <3> QED BY <3>1, <3>2, <1>pods DEF FailuresAreReal
    <2> QED BY <2>1, <2>2
<1>3. ASSUME NEW j \in Jobs, "failure" \in dag_calls'[j]
      PROVE  /\ retry_count'[j] = MaxRetries[j]
             /\ \E n \in ClaimNumbers : n = claims'[j] /\ pod_failures'[j][n] > 0
    <2>1. /\ status[j] = "failed" /\ retry_count[j] = MaxRetries[j]
          /\ \E n \in ClaimNumbers : n = claims[j] /\ pod_failures[j][n] > 0
        <3>1. CASE "failure" \in dag_calls[j]
            BY <3>1 DEF DagHearsTheOutcome, FailuresAreReal
        <3>2. CASE "failure" \notin dag_calls[j]
            <4>1. PICK n \in ClaimNumbers : pc[j][n] = "dag_failed"
                BY <1>3, <3>2, NewEntries
            <4>2. status[j] = "failed"
                BY <1>3, <3>2, NewEntries
            <4>3. n = claims[j]
                BY <4>1, <1>types, PositionFacts DEF RowsInv, PositionInv
            <4> QED BY <4>1, <4>2, <4>3 DEF FailureInv
        <3> QED BY <3>1, <3>2
    <2>2. claims'[j] = claims[j]
        BY <2>1, RowFuture DEF Terminal
    <2>3. retry_count'[j] = retry_count[j]
        BY <2>1, <1>requeue, CountedBy
    <2> QED BY <2>1, <2>2, <2>3, <1>pods
<1> QED BY <1>1, <1>2, <1>3 DEF FailuresAreReal

\* A row gets an owner only from a claim statement that has locked it.
LEMMA ClaimedBy ==
    ASSUME TypeOK, [Next]_vars, NEW j \in Jobs, claimed_by'[j] # None,
           claimed_by'[j] # claimed_by[j]
    PROVE  \E e \in Executors : j \in locked[e] /\ claimed_by'[j] = e
<1>1. claimed_by' # claimed_by
    OBVIOUS
<1>2. ASSUME NEW e \in Executors, LoopStep(e) \/ Crash(e) \/ Restart(e)
      PROVE  j \in locked[e] /\ claimed_by'[j] = e
    <2>1. CASE ClaimCommit(e) \/ ClaimLost(e)
        BY <2>1 DEF ClaimCommit, ClaimLost, ClaimRows
    <2>2. CASE ReadTopics(e) \/ ClaimLock(e) \/ ClaimAbort(e) \/ LoopDone(e) \/ Crash(e)
               \/ Restart(e)
        BY <1>1, <2>2 DEF ReadTopics, ClaimLock, ClaimAbort, LoopDone, Crash, Restart, row
    <2> QED BY <1>2, <2>1, <2>2 DEF LoopStep
<1>3. ASSUME NEW i \in Jobs, NEW n \in ClaimNumbers, TaskStep(i, n) PROVE FALSE
    <2>1. CASE Requeue(i, n)
        BY <2>1 DEF Requeue, RequeueRow, TypeOK, RowType
    <2>2. CASE MarkRunning(i, n) \/ MarkCompleted(i, n) \/ MarkFailed(i, n)
               \/ MarkTimeout(i, n)
        BY <1>1, <2>2 DEF MarkRunning, MarkCompleted, MarkFailed, MarkTimeout, UpdateRunning,
            UpdateStatus
    <2>3. CASE Spawn(i, n) \/ GetImage(i, n) \/ CreateConflict(i, n) \/ PollStatus(i, n)
               \/ MonitorTimeout(i, n) \/ WaitForOutputs(i, n) \/ CallError(i, n)
               \/ CreateJob(i, n)
        BY <1>1, <2>3 DEF Spawn, GetImage, CreateConflict, PollStatus, MonitorTimeout,
            WaitForOutputs, CallError, CreateJob, row
    <2>4. CASE HistClaimed(i, n) \/ HistRunning(i, n) \/ HistCompleted(i, n)
               \/ HistRequeued(i, n) \/ HistFailed(i, n) \/ HistTimeout(i, n)
               \/ DagCompleted(i, n) \/ DagFailed(i, n)
        BY <1>1, <2>4 DEF HistClaimed, HistRunning, HistCompleted, HistRequeued, HistFailed,
            HistTimeout, DagCompleted, DagFailed, CallDag, row
    <2> QED BY <1>3, <2>1, <2>2, <2>3, <2>4 DEF TaskStep
<1>4. ASSUME \/ \E S \in SUBSET Jobs : Enqueue(S)
             \/ \E name \in Names : Expire(name)
             \/ \E i \in Jobs, m \in ClaimNumbers : ClusterStep(i, m)
      PROVE  FALSE
    BY <1>1, <1>4 DEF Enqueue, Expire, ClusterStep, RunSucceeds, PodFails, row
<1> QED BY <1>1, <1>2, <1>3, <1>4 DEF Next, vars, row

\* A task that is spawned takes a permit; every other step of a task returns the
\* permit when it leaves execute_job, and none leads into it.
LEMMA TaskPermits ==
    ASSUME NEW i \in Jobs, NEW m \in ClaimNumbers, TaskStep(i, m)
    PROVE  /\ UNCHANGED on
           /\ \/ Spawn(i, m)
              \/ \E from, to : Step(i, m, from, to) /\ (from \in Executing \/ to \notin Executing)
<1> DEFINE Leaves == \E from, to : /\ Step(i, m, from, to)
                                   /\ from \in Executing \/ to \notin Executing
<1> USE DEF Executing
<1>call. ASSUME NEW from, NEW to, Call(i, m, from, to), from \in Executing \/ to \notin Executing
         PROVE  Leaves
    BY <1>call DEF Call
<1>1. CASE Spawn(i, m)
    BY <1>1 DEF Spawn, claim_vars
<1>2. CASE CallError(i, m)
    BY <1>2 DEF CallError, claim_vars
<1>3. CASE PollStatus(i, m)
    <2>1. \E to \in {"mark_completed", "requeue", "mark_failed"} : Step(i, m, "monitor", to)
        BY <1>3 DEF PollStatus
    <2> QED BY <1>3, <2>1 DEF PollStatus, claim_vars
<1>4. CASE GetImage(i, m) \/ CreateConflict(i, m) \/ MonitorTimeout(i, m)
           \/ DagCompleted(i, m) \/ DagFailed(i, m)
    <2>1. Leaves
        BY <1>4 DEF GetImage, CreateConflict, MonitorTimeout, DagCompleted, DagFailed, CallDag
    <2> QED BY <1>4, <2>1 DEF GetImage, CreateConflict, MonitorTimeout, DagCompleted,
            DagFailed, CallDag, claim_vars
<1>5. CASE WaitForOutputs(i, m)
    <2>1. \E to \in {"dag_completed", "done"} : Step(i, m, "outputs", to)
        BY <1>5 DEF WaitForOutputs
    <2> QED BY <1>5, <2>1 DEF WaitForOutputs, claim_vars
<1>6. CASE HistClaimed(i, m) \/ HistRunning(i, m) \/ HistCompleted(i, m)
           \/ HistRequeued(i, m) \/ HistFailed(i, m) \/ HistTimeout(i, m)
    <2>1. PICK from, to : Call(i, m, from, to) /\ (from \in Executing \/ to \notin Executing)
        BY <1>6 DEF HistClaimed, HistRunning, HistCompleted, HistRequeued, HistFailed,
            HistTimeout
    <2> QED BY <1>6, <2>1, <1>call DEF HistClaimed, HistRunning, HistCompleted, HistRequeued,
            HistFailed, HistTimeout, claim_vars
<1>7. CASE CreateJob(i, m) \/ MarkRunning(i, m) \/ MarkCompleted(i, m)
           \/ MarkFailed(i, m) \/ MarkTimeout(i, m) \/ Requeue(i, m)
    <2>1. PICK from, to : Call(i, m, from, to) /\ (from \in Executing \/ to \notin Executing)
        BY <1>7 DEF CreateJob, MarkRunning, MarkCompleted, MarkFailed, MarkTimeout, Requeue
    <2> QED BY <1>7, <2>1, <1>call DEF CreateJob, MarkRunning, MarkCompleted, MarkFailed,
            MarkTimeout, Requeue, claim_vars
<1> QED BY <1>1, <1>2, <1>3, <1>4, <1>5, <1>6, <1>7 DEF TaskStep

\* The permits of one executor add up.
Balanced(e) ==
    /\ IsFiniteSet(TasksAt(e, Executing))
    /\ permits[e] + Cardinality(TasksAt(e, Executing)) = Permits

\* They still do when no task goes in or out of execute_job.
LEMMA BalanceKept ==
    ASSUME NEW e \in Executors, Balanced(e), permits'[e] = permits[e],
           \A j \in Jobs, n \in ClaimNumbers :
               pc[j][n] \in Executing \/ pc'[j][n] \in Executing =>
                   pc[j][n] \in Executing /\ pc'[j][n] \in Executing /\ on'[j][n] = on[j][n]
    PROVE  Balanced(e)'
<1>1. TasksAt(e, Executing)' = TasksAt(e, Executing)
    BY DEF TasksAt
<1> QED BY <1>1 DEF Balanced

\* A task that is spawned has taken its permit.
LEMMA BalanceSpawn ==
    ASSUME TypeOK, EventDriven, NEW e \in Executors, Balanced(e),
           NEW i \in Jobs, NEW m \in ClaimNumbers, Spawn(i, m), UNCHANGED on
    PROVE  Balanced(e)'
<1> DEFINE T == TasksAt(e, Executing)
           t == <<i, m>>
<1> USE DEF TypeOK, PcType
<1>1. \A j \in Jobs, n \in ClaimNumbers :
          pc'[j][n] = IF j = i /\ n = m THEN "hist_claimed" ELSE pc[j][n]
    BY DEF Spawn, Move
<1>2. pc[i][m] = "queued" /\ permits' = [permits EXCEPT ![on[i][m]] = @ - 1]
    BY DEF Spawn, Move
<1>3. CASE on[i][m] = e
    <2>1. t \notin T
        BY <1>2 DEF TasksAt, Executing
    <2>2. T' = T \cup {t}
        BY <1>1, <1>3 DEF TasksAt, Executing
    <2>3. IsFiniteSet(T') /\ Cardinality(T') = Cardinality(T) + 1 /\ Cardinality(T) \in Nat
        BY <2>1, <2>2, FS_AddElement, FS_CardinalityType DEF Balanced
    <2>4. permits[e] \in Nat /\ permits'[e] = permits[e] - 1
        BY <1>2, <1>3
    <2> QED BY <2>3, <2>4, ConstantsAssumption DEF Balanced
<1>4. CASE on[i][m] # e
    <2>1. T' = T
        BY <1>1, <1>2, <1>4 DEF TasksAt, Executing
    <2>2. permits'[e] = permits[e]
        BY <1>2, <1>4
    <2> QED BY <2>1, <2>2 DEF Balanced
<1> QED BY <1>3, <1>4

\* A task that leaves execute_job, however, has given its permit back.
LEMMA BalanceStep ==
    ASSUME TypeOK, EventDriven, NEW e \in Executors, Balanced(e),
           NEW i \in Jobs, NEW m \in ClaimNumbers, NEW from, NEW to,
           Step(i, m, from, to), from \in Executing \/ to \notin Executing, UNCHANGED on
    PROVE  Balanced(e)'
<1> DEFINE T == TasksAt(e, Executing)
           t == <<i, m>>
<1> USE DEF TypeOK, PcType
<1>1. \A j \in Jobs, n \in ClaimNumbers :
          pc'[j][n] = IF j = i /\ n = m THEN to ELSE pc[j][n]
    BY DEF Step, Move
<1>2. pc[i][m] = from /\ Release(i, m, to)
    BY DEF Step, Move
<1>3. CASE on[i][m] = e /\ from \in Executing /\ to \notin Executing
    <2>1. t \in T
        BY <1>2, <1>3 DEF TasksAt
    <2>2. T' = T \ {t}
        BY <1>1, <1>3 DEF TasksAt
    <2>3. /\ IsFiniteSet(T') /\ Cardinality(T') = Cardinality(T) - 1
          /\ Cardinality(T) \in Nat
        BY <2>1, <2>2, FS_RemoveElement, FS_CardinalityType DEF Balanced
    <2>4. permits[e] \in Nat /\ permits'[e] = permits[e] + 1
        BY <1>2, <1>3 DEF Release
    <2> QED BY <2>3, <2>4, ConstantsAssumption DEF Balanced
<1>4. CASE on[i][m] # e \/ from \notin Executing \/ to \in Executing
    <2>1. T' = T
        BY <1>1, <1>2, <1>4 DEF TasksAt
    <2>2. permits'[e] = permits[e]
        BY <1>2, <1>4 DEF Release
    <2> QED BY <2>1, <2>2 DEF Balanced
<1> QED BY <1>3, <1>4

\* Every step keeps the balance: a claim makes tasks that do not execute yet, and a
\* process that dies takes its semaphore and its tasks with it.
LEMMA PermitStep == IInv /\ PermitsAccounted /\ [Next]_vars => PermitsAccounted'
<1> SUFFICES ASSUME IInv, PermitsAccounted, [Next]_vars, EventDriven, NEW e \in Executors
             PROVE  Balanced(e)'
    BY DEF PermitsAccounted, Balanced
<1>bal. Balanced(e)
    BY DEF PermitsAccounted, Balanced
<1>inv. TypeOK /\ PositionInv
    BY DEF IInv
<1>1. CASE UNCHANGED <<pc, on, permits>>
    BY <1>1, <1>bal, BalanceKept
<1>2. ASSUME NEW f \in Executors, LoopStep(f) \/ Crash(f) \/ Restart(f) PROVE Balanced(e)'
    <2>1. CASE ReadTopics(f) \/ ClaimLock(f) \/ ClaimAbort(f) \/ LoopDone(f) \/ Restart(f)
        BY <2>1, <1>1 DEF ReadTopics, ClaimLock, ClaimAbort, LoopDone, Restart
    <2>2. CASE ClaimCommit(f) \/ ClaimLost(f)
        <3>1. PICK p \in {"queued", "error"} : ClaimRows(f, locked[f], p) /\ permits' = permits
            BY <2>2 DEF ClaimCommit, ClaimLost
        <3>2. ASSUME NEW j \in Jobs, NEW n \in ClaimNumbers
              PROVE  \/ pc'[j][n] = pc[j][n] /\ on'[j][n] = on[j][n]
                     \/ pc[j][n] = "new" /\ pc'[j][n] = p
            <4>1. CASE j \in locked[f] /\ n = claims[j] + 1
                <5>1. claims[j] \in Nat /\ n > claims[j]
                    BY <1>inv, <4>1, ConstantsAssumption DEF TypeOK, ClaimType
                <5>2. pc[j][n] = "new"
                    BY <1>inv, <5>1 DEF PositionInv
                <5>3. pc'[j][n] = p
                    BY <1>inv, <3>1, <4>1 DEF ClaimRows, TypeOK, PcType
                <5> QED BY <5>2, <5>3
            <4>2. CASE ~(j \in locked[f] /\ n = claims[j] + 1)
                BY <1>inv, <3>1, <4>2 DEF ClaimRows, TypeOK, PcType, ClaimType
            <4> QED BY <4>1, <4>2
        <3> QED BY <3>1, <3>2, <1>bal, BalanceKept DEF Executing
    <2>3. CASE Crash(f)
        <3>1. /\ permits' = [permits EXCEPT ![f] = Permits] /\ UNCHANGED on
              /\ \A j \in Jobs, n \in ClaimNumbers :
                     pc'[j][n] = IF on[j][n] = f /\ pc[j][n] \in Live THEN "crashed"
                                 ELSE pc[j][n]
            BY <2>3 DEF Crash
        <3>2. CASE f = e
            <4>1. TasksAt(e, Executing)' = {}
                BY <3>1, <3>2 DEF TasksAt, Live, Executing
            <4>2. permits'[e] = Permits
                BY <1>inv, <3>1, <3>2 DEF TypeOK, PcType
            <4> QED BY <4>1, <4>2, FS_EmptySet, ConstantsAssumption DEF Balanced
        <3>3. CASE f # e
            <4>1. TasksAt(e, Executing)' = TasksAt(e, Executing)
                BY <3>1, <3>3 DEF TasksAt, Executing
            <4>2. permits'[e] = permits[e]
                BY <1>inv, <3>1, <3>3 DEF TypeOK, PcType
            <4> QED BY <4>1, <4>2, <1>bal DEF Balanced
        <3> QED BY <3>2, <3>3
    <2> QED BY <1>2, <2>1, <2>2, <2>3 DEF LoopStep
<1>3. ASSUME NEW i \in Jobs, NEW m \in ClaimNumbers, TaskStep(i, m) PROVE Balanced(e)'
    BY <1>3, <1>bal, <1>inv, TaskPermits, BalanceSpawn, BalanceStep
<1>4. CASE \/ \E S \in SUBSET Jobs : Enqueue(S)
           \/ \E name \in Names : Expire(name)
           \/ \E i \in Jobs, m \in ClaimNumbers : ClusterStep(i, m)
    BY <1>4, <1>1 DEF Enqueue, Expire, ClusterStep, RunSucceeds, PodFails, claim_vars
<1> QED BY <1>1, <1>2, <1>3, <1>4 DEF Next, vars, claim_vars

-----------------------------------------------------------------------------
(* The theorems.                                                           *)

\* The empty table satisfies the invariant.
LEMMA IInvInit == Init => IInv
<1> SUFFICES ASSUME Init PROVE IInv
    OBVIOUS
<1>1. RowType /\ LoopType /\ LogType
    BY DEF Init, RowType, LoopType, LogType, Statuses
<1>2. ClaimType /\ PcType /\ ClusterType
    BY ConstantsAssumption DEF Init, ClaimType, PcType, PCs, ClusterType
<1>3. PositionInv /\ AbsentInv /\ SnapshotInv /\ LockInv
    BY DEF Init, PositionInv, AbsentInv, SnapshotInv, LockInv, ClaimNumbers
<1>4. RetryBudget
    BY ConstantsAssumption DEF Init, RetryBudget
<1>5. NameInv
    BY DEF Init, NameInv
<1>6. TopicInv /\ HistoryInv /\ HistoryNotAhead /\ DagHearsTheOutcome
    BY DEF Init, TopicInv, HistoryInv, HistoryNotAhead, DagHearsTheOutcome
<1>7. RunInv /\ CompletedRunSucceeded /\ StartedInv
    BY DEF Init, RunInv, CompletedRunSucceeded, StartedInv
<1>8. RetryInv /\ FailureInv /\ FailuresAreReal
    BY ConstantsAssumption DEF Init, RetryInv, FailureInv, FailuresAreReal, ClaimNumbers
<1> QED BY <1>1, <1>2, <1>3, <1>4, <1>5, <1>6, <1>7, <1>8 DEF IInv, TypeOK

\* Every reachable state satisfies the inductive invariant: rows, tasks, claim
\* locks, cluster names and records agree, whatever fails or crashes.
THEOREM Invariance == Spec => []IInv
<1>1. IInv /\ [Next]_vars => IInv'
    <2> SUFFICES ASSUME IInv, [Next]_vars PROVE IInv'
        OBVIOUS
    <2>1. TypeOK' /\ RowsInv' /\ NameInv'
        BY TypeStep, RowsStep, NameStep DEF IInv, RowsInv
    <2>2. HistoryInv' /\ HistoryNotAhead' /\ DagHearsTheOutcome'
        BY HistoryStep DEF IInv, RowsInv
    <2>3. TopicInv'
        BY TopicStep DEF IInv
    <2>4. StartedInv'
        BY StartedStep DEF IInv, RowsInv
    <2>5. NamesDistinct => RunInv' /\ CompletedRunSucceeded'
        BY RunStep DEF IInv, RowsInv
    <2>6. NamesDistinct => FailureInv' /\ FailuresAreReal'
        BY FailureStep DEF IInv, RowsInv
    <2>7. NamesDistinct /\ BackoffLimit = 0 => RetryInv'
        BY RetryStep DEF IInv, RowsInv
    <2>8. NamesDistinct <=> NamesDistinct'
        BY DEF NamesDistinct
    <2> QED BY <2>1, <2>2, <2>3, <2>4, <2>5, <2>6, <2>7, <2>8 DEF IInv, RowsInv
<1> QED BY IInvInit, <1>1, PTL DEF Spec

\* Every variable keeps its type.
THEOREM TypeCorrect == Spec => []TypeOK
BY Invariance, PTL DEF IInv

\* No two tasks may ever write the same row: the unguarded updates of
\* update_job_status and requeue_job never meet a second writer.
THEOREM SingleWriterHolds == Spec => []SingleWriter
<1>1. IInv => SingleWriter
    <2> SUFFICES ASSUME IInv, NEW j \in Jobs, NEW m \in ClaimNumbers, NEW n \in ClaimNumbers,
                        pc[j][m] \in RowWriting, pc[j][n] \in RowWriting
                 PROVE  m = n
        BY DEF SingleWriter
    <2>1. \A k \in ClaimNumbers : pc[j][k] \in RowWriting => k = claims[j]
        <3> SUFFICES ASSUME NEW k \in ClaimNumbers, pc[j][k] \in RowWriting
                     PROVE  k = claims[j]
            OBVIOUS
        <3>1. PositionInv /\ claims[j] \in Nat /\ k \in Nat
            BY ConstantsAssumption DEF IInv, TypeOK, ClaimType, ClaimNumbers
        <3>2. pc[j][k] # "new" /\ pc[j][k] \notin Positions("pending")
            BY PositionFacts DEF RowWriting, Monitoring
        <3> QED BY <3>1, <3>2 DEF PositionInv
    <2> QED BY <2>1
<1> QED BY Invariance, <1>1, PTL

\* A job is retried at most max_retries times and claimed at most once more
\* than it is retried.
THEOREM RetryBudgetHolds == Spec => []RetryBudget
BY Invariance, PTL DEF IInv

\* A claimed or running row belongs to its newest task, which runs on the
\* executor in claimed_by or has ended with an error or with its executor.
THEOREM OwnedOrLostHolds == Spec => []OwnedOrLost
<1>1. IInv => OwnedOrLost
    <2> SUFFICES ASSUME IInv, NEW j \in Jobs, status[j] \in {"claimed", "running"}
                 PROVE  \E n \in ClaimNumbers :
                            /\ n = claims[j]
                            /\ on[j][n] = claimed_by[j]
                            /\ pc[j][n] \in RowWriting \cup {"error", "crashed"}
        BY DEF OwnedOrLost
    <2>1. claims[j] \in ClaimNumbers
        <3>1. claims[j] \in 0..MaxClaims /\ retry_count[j] \in Nat
            BY DEF IInv, TypeOK, RowType, ClaimType
        <3>2. claims[j] = retry_count[j] + 1
            BY DEF IInv, RetryBudget
        <3> QED BY <3>1, <3>2, ConstantsAssumption DEF ClaimNumbers
    <2>2. on[j][claims[j]] = claimed_by[j]
        BY <2>1 DEF IInv, SnapshotInv
    <2>3. pc[j][claims[j]] \in RowWriting \cup {"error", "crashed"}
        BY <2>1, PositionFacts DEF IInv, PositionInv, RowWriting, Monitoring
    <2> QED BY <2>1, <2>2, <2>3
<1> QED BY Invariance, <1>1, PTL

\* The cluster never runs two Jobs for one row at a time.
THEOREM OneRunPerJobHolds == Spec => []OneRunPerJob
<1>1. IInv => OneRunPerJob
    <2> SUFFICES ASSUME NameInv, NEW j \in Jobs, NEW m \in ClaimNumbers,
                        NEW n \in ClaimNumbers, phase[j][m] = "active", phase[j][n] = "active"
                 PROVE  m = n
        BY DEF IInv, OneRunPerJob
    <2>1. [job |-> j, claim |-> m] = [job |-> j, claim |-> n]
        BY DEF NameInv
    <2> QED BY <2>1
<1> QED BY Invariance, <1>1, PTL

\* The execution history never tells more than happened, although its entries
\* are written after the rows and by tasks that may by then be old.
THEOREM HistoryNotAheadHolds == Spec => []HistoryNotAhead
BY Invariance, PTL DEF IInv

\* The DAG orchestrator is told of the one outcome a row keeps.
THEOREM DagHearsTheOutcomeHolds == Spec => []DagHearsTheOutcome
BY Invariance, PTL DEF IInv

\* A row is claimed only by an executor whose filter has its topic.
THEOREM TopicIsolationHolds == Spec => []TopicIsolation
<1>1. Init => TopicIsolation
    BY DEF Init, TopicIsolation
<1>2. IInv /\ TopicIsolation /\ [Next]_vars => TopicIsolation'
    <2> SUFFICES ASSUME IInv, TopicIsolation, [Next]_vars, NEW j \in Jobs,
                        claimed_by'[j] # None, claimed_by'[j] # claimed_by[j]
                 PROVE  \/ TopicFilter[claimed_by'[j]] = All
                        \/ TopicOf[j] \in TopicFilter[claimed_by'[j]]
        BY DEF TopicIsolation
    <2>1. PICK e \in Executors : j \in locked[e] /\ claimed_by'[j] = e
        BY ClaimedBy DEF IInv
    <2> QED BY <2>1 DEF IInv, TopicInv
<1> QED BY Invariance, <1>1, <1>2, PTL DEF Spec

\* PermitsAccounted: the free permits of an event-driven executor and those of its
\* tasks inside execute_job are all the permits there are, for any number of jobs,
\* executors and permits, whatever fails, returns early or dies.
THEOREM PermitsAccountedHolds == Spec => []PermitsAccounted
<1>1. Init => PermitsAccounted
    <2> SUFFICES ASSUME Init, NEW e \in Executors PROVE Balanced(e)
        BY DEF PermitsAccounted, Balanced
    <2>1. TasksAt(e, Executing) = {}
        BY DEF TasksAt, Init, Executing
    <2> QED BY <2>1, FS_EmptySet, ConstantsAssumption DEF Balanced, Init
<1> QED BY <1>1, PermitStep, Invariance, PTL DEF Spec

\* When no two rows share a name, a row is completed only if the run of its last
\* claim succeeded.
THEOREM CompletedRunSucceededHolds == NamesDistinct => (Spec => []CompletedRunSucceeded)
<1>1. NamesDistinct /\ IInv => CompletedRunSucceeded
    BY DEF IInv
<1>2. NamesDistinct /\ [Next]_vars => NamesDistinct'
    BY DEF NamesDistinct
<1> QED BY Invariance, <1>1, <1>2, PTL DEF Spec

\* When no two rows share a name, an attempt is retried only after a pod of its own
\* run failed, and the orchestrator hears of a failure only when that was the last
\* attempt the job had.
THEOREM FailuresAreRealHolds == NamesDistinct => (Spec => []FailuresAreReal)
<1>1. NamesDistinct /\ IInv => FailuresAreReal
    BY DEF IInv
<1>2. NamesDistinct /\ [Next]_vars => NamesDistinct'
    BY DEF NamesDistinct
<1> QED BY Invariance, <1>1, <1>2, PTL DEF Spec

-----------------------------------------------------------------------------
(* The rows implement JobLifecycle.                                        *)

\* The step of a task on its row is a step of the abstract row, or none.
LEMMA TaskLifecycle ==
    ASSUME NEW j \in Jobs, NEW n \in ClaimNumbers, IInv, TaskStep(j, n)
    PROVE  Lifecycle!Next \/ UNCHANGED Lifecycle!vars
<1> USE DEF Lifecycle!Next, Lifecycle!vars
<1>inv. TypeOK /\ PositionInv /\ RetryBudget /\ SnapshotInv
    BY DEF IInv
<1>1. CASE MarkRunning(j, n)
    <2>1. status[j] = "claimed"
        BY <1>1, <1>inv, WriterIsNewest DEF MarkRunning, Call, Step, Move
    <2> QED BY <1>1, <2>1 DEF MarkRunning, UpdateRunning, Lifecycle!Run
<1>2. CASE MarkCompleted(j, n) \/ MarkFailed(j, n) \/ MarkTimeout(j, n)
    <2>1. pc[j][n] \in Monitoring
        BY <1>2 DEF MarkCompleted, MarkFailed, MarkTimeout, Call, Step, Move, Monitoring
    <2>2. status[j] = "running"
        BY <2>1, <1>inv, WriterIsNewest
    <2>3. UpdateStatus(j, "completed") \/ UpdateStatus(j, "failed")
        BY <1>2 DEF MarkCompleted, MarkFailed, MarkTimeout
    <2> QED BY <2>2, <2>3 DEF UpdateStatus, Lifecycle!Finish
<1>3. CASE Requeue(j, n)
    <2>1. pc[j][n] = "requeue" /\ RequeueRow(j)
        BY <1>3 DEF Requeue, Call, Step, Move
    <2>2. n = claims[j] /\ status[j] = "running"
        BY <2>1, <1>inv, WriterIsNewest DEF Monitoring
    <2>3. retry_count[j] < MaxRetries[j]
        BY <2>1, <2>2, <1>inv DEF SnapshotInv, ShouldRetry
    <2> QED BY <2>1, <2>2, <2>3 DEF RequeueRow, Lifecycle!Retry
<1>4. CASE ~(MarkRunning(j, n) \/ MarkCompleted(j, n) \/ MarkFailed(j, n)
              \/ MarkTimeout(j, n) \/ Requeue(j, n))
    <2>1. UNCHANGED row
        <3>1. CASE Spawn(j, n) \/ GetImage(j, n) \/ CreateConflict(j, n) \/ PollStatus(j, n)
                   \/ MonitorTimeout(j, n) \/ WaitForOutputs(j, n) \/ CallError(j, n)
            BY <3>1 DEF Spawn, GetImage, CreateConflict, PollStatus, MonitorTimeout,
                WaitForOutputs, CallError
        <3>2. CASE HistClaimed(j, n) \/ HistRunning(j, n) \/ HistCompleted(j, n)
                   \/ HistRequeued(j, n) \/ HistFailed(j, n) \/ HistTimeout(j, n)
            BY <3>2 DEF HistClaimed, HistRunning, HistCompleted, HistRequeued, HistFailed,
                HistTimeout
        <3>3. CASE CreateJob(j, n) \/ DagCompleted(j, n) \/ DagFailed(j, n)
            BY <3>3 DEF CreateJob, DagCompleted, DagFailed, CallDag
        <3> QED BY <1>4, <3>1, <3>2, <3>3 DEF TaskStep
    <2> QED BY <2>1 DEF row
<1> QED BY <1>1, <1>2, <1>3, <1>4

\* So is the commit of a claim statement: one abstract claim of all its rows.
LEMMA LoopLifecycle ==
    ASSUME NEW e \in Executors, IInv, LoopStep(e) \/ Crash(e) \/ Restart(e)
    PROVE  Lifecycle!Next \/ UNCHANGED Lifecycle!vars
<1> USE DEF Lifecycle!Next, Lifecycle!vars
<1>1. CASE ClaimCommit(e) \/ ClaimLost(e)
    <2>1. PICK p : ClaimRows(e, locked[e], p)
        BY <1>1 DEF ClaimCommit, ClaimLost
    <2>2. locked[e] \in SUBSET Jobs /\ \A j \in locked[e] : status[j] = "pending"
        BY DEF IInv, TypeOK, ClaimType, LockInv
    <2>3. Lifecycle!Claim(e, locked[e])
        BY <2>1, <2>2 DEF ClaimRows, Lifecycle!Claim
    <2> QED BY <2>2, <2>3
<1>2. CASE ~(ClaimCommit(e) \/ ClaimLost(e))
    <2>1. UNCHANGED row
        <3>1. CASE ReadTopics(e) \/ ClaimLock(e) \/ ClaimAbort(e) \/ LoopDone(e)
            BY <3>1 DEF ReadTopics, ClaimLock, ClaimAbort, LoopDone
        <3>2. CASE Crash(e) \/ Restart(e)
            BY <3>2 DEF Crash, Restart
        <3> QED BY <1>2, <3>1, <3>2 DEF LoopStep
    <2> QED BY <2>1 DEF row
<1> QED BY <1>1, <1>2

\* The code implements the promise of JobLifecycle: exclusive claims, running
\* only after a claim, an end or a paid retry only after running, no change
\* after the end.
THEOREM LifecycleImplemented == Spec => ImplementsLifecycle
<1>1. Init => Lifecycle!Init
    BY DEF Init, Lifecycle!Init
<1>2. IInv /\ [Next]_vars => [Lifecycle!Next]_(Lifecycle!vars)
    <2> SUFFICES ASSUME IInv, [Next]_vars
                 PROVE  Lifecycle!Next \/ UNCHANGED Lifecycle!vars
        OBVIOUS
    <2>1. CASE UNCHANGED vars
        BY <2>1 DEF vars, row, Lifecycle!vars
    <2>2. ASSUME NEW S \in SUBSET Jobs, Enqueue(S) PROVE Lifecycle!Next
        BY <2>2 DEF Enqueue, Lifecycle!Next, Lifecycle!Submit
    <2>3. CASE \/ \E j \in Jobs, n \in ClaimNumbers : ClusterStep(j, n)
               \/ \E name \in Names : Expire(name)
        BY <2>3 DEF ClusterStep, RunSucceeds, PodFails, Expire, row, Lifecycle!vars
    <2> QED BY <2>1, <2>2, <2>3, TaskLifecycle, LoopLifecycle DEF Next
<1> QED BY Invariance, <1>1, <1>2, PTL DEF Spec, ImplementsLifecycle, Lifecycle!Spec

=============================================================================
