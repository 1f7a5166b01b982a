----------------------- MODULE DAGOrchestratorProofs -----------------------
(***************************************************************************)
(* Proofs about DAGOrchestrator, for every forest, every set of execution  *)
(* modes and every pattern of failing calls.                               *)
(***************************************************************************)
EXTENDS DAGOrchestrator, SequenceTheorems, TLAPS

\* A handler's step moves it to a position or, if the call's answer is lost, to
\* "error".
LEMMA CallMoves ==
    ASSUME NEW n \in Nodes, NEW from, NEW to, Call(n, from, to),
           pc \in [Nodes -> PCs]
    PROVE  /\ pc[n] = from
           /\ \/ pc' = [pc EXCEPT ![n] = to]
              \/ CallsMayFail /\ pc' = [pc EXCEPT ![n] = "error"]
  BY DEF Call, Step

\* The children of a node that a handler visits first are among those it visits.
LEMMA FirstIsMember == \A S : First(S) \subseteq S
  BY DEF First

\* Among siblings the first is unique.
LEMMA FirstIsUnique ==
    ASSUME NEW S \in SUBSET Nodes,
           \A x, y \in S : ParentOf[x] = ParentOf[y],
           NEW x \in First(S), NEW y \in First(S)
    PROVE  x = y
  BY DAGAssumption DEF First

\* A call keeps the type of the positions.
LEMMA CallType ==
    ASSUME pc \in [Nodes -> PCs], NEW n \in Nodes, NEW from, NEW to \in PCs,
           Call(n, from, to)
    PROVE  pc' \in [Nodes -> PCs]
  BY DEF Call, Step, PCs

\* A handler's step keeps the types.
LEMMA HandlerTypeStep ==
    ASSUME TypeOK, NEW n \in Nodes, HandlerStep(n)
    PROVE  TypeOK'
  <1>. USE DEF TypeOK
  <1>a. "none" \in PCs /\ "done" \in PCs /\ "error" \in PCs
        /\ Completing \subseteq PCs /\ Failing \subseteq PCs
    BY DEF PCs
  <1>1. CASE CompleteNode(n)
    BY <1>1, <1>a, CallType DEF CompleteNode, UpdateNode, Completing, Settled
  <1>2. CASE StartChildren(n)
    <2>1. Children(n) \in SUBSET Nodes
      BY DEF Children
    <2>2. \A x \in First(Children(n)) : Mode[x] \in {"parallel", "sequential", "limited"}
      BY <2>1, DAGAssumption DEF First
    <2>3. pc' \in [Nodes -> PCs]
      BY <1>2, <2>2, <1>a DEF StartChildren, Step, Completing
    <2>. QED
      BY <1>2, <2>1, <2>3 DEF StartChildren, tables
  <1>3. CASE EnqueueBatch(n)
    BY <1>3, <1>a, CallType DEF EnqueueBatch, Enqueue, Completing
  <1>4. CASE MarkReady(n)
    <2>1. PICK c \in First(todo[n]) :
            /\ Call(n, "mark_ready", IF todo[n] = {c} THEN "stats" ELSE "mark_ready")
            /\ UpdateNode(c, "ready")
            /\ todo' = [todo EXCEPT ![n] = @ \ {c}]
            /\ announced' = IF EventDriven /\ pc'[n] = "stats"
                            THEN announced \cup Children(n)
                            ELSE announced
            /\ UNCHANGED stack
      BY <1>4 DEF MarkReady
    <2>2. pc' \in [Nodes -> PCs]
      BY <2>1, <1>a, CallType DEF Completing
    <2>3. c \in Nodes /\ Children(n) \subseteq Nodes
      BY <2>1 DEF First, Children
    <2>. QED
      BY <2>1, <2>2, <2>3 DEF UpdateNode, AtWork
  <1>5. CASE CreateJob(n)
    BY <1>5, <1>a, CallType DEF CreateJob, Enqueue, Completing
  <1>6. CASE MarkOne(n)
    <2>1. PICK c \in First(todo[n]) :
            /\ Call(n, "mark_one", IF todo[n] = {c} THEN "stats" ELSE "create")
            /\ UpdateNode(c, "ready")
            /\ todo' = [todo EXCEPT ![n] = @ \ {c}]
            /\ UNCHANGED <<announced, stack>>
      BY <1>6 DEF MarkOne
    <2>2. pc' \in [Nodes -> PCs]
      BY <2>1, <1>a, CallType DEF Completing
    <2>3. c \in Nodes
      BY <2>1 DEF First
    <2>. QED
      BY <2>1, <2>2, <2>3 DEF UpdateNode, AtWork
  <1>7. CASE ReadStats(n)
    BY <1>7, <1>a DEF ReadStats, Step, Verdict, tables, Completing
  <1>8. CASE WriteVerdict(n)
    BY <1>8, <1>a, CallType DEF WriteVerdict, UpdateDAG
  <1>9. CASE GetExecution(n)
    BY <1>9, <1>a DEF GetExecution, Step, tables, Completing
  <1>10. CASE WriteRunning(n)
    BY <1>10, <1>a, CallType DEF WriteRunning, UpdateDAG
  <1>11. CASE FailNode(n)
    BY <1>11, <1>a, CallType DEF FailNode, UpdateNode, Failing, Settled
  <1>12. CASE FailDAG(n)
    <2>1. pc' \in [Nodes -> PCs]
      BY <1>12, <1>a, CallType DEF FailDAG, Failing
    <2>2. <<n>> \in Seq(Nodes)
      OBVIOUS
    <2>3. stack' \in [Nodes -> Seq(Nodes)]
      BY <1>12, <2>2 DEF FailDAG
    <2>. QED
      BY <1>12, <2>1, <2>3 DEF FailDAG, UpdateDAG
  <1>13. CASE SkipPop(n)
    <2>1. pc' \in [Nodes -> PCs]
      BY <1>13, <1>a DEF SkipPop, Step, Failing
    <2>2. CASE stack[n] = <<>>
      BY <1>13, <2>1, <2>2 DEF SkipPop, tables
    <2>3. CASE stack[n] # <<>>
      <3>1. Tail(stack[n]) \in Seq(Nodes)
        BY <2>3
      <3>5. todo' = [todo EXCEPT ![n] = Children(Head(stack[n]))]
        BY <1>13, <2>3 DEF SkipPop
      <3>6. Children(Head(stack[n])) \in SUBSET Nodes
        BY DEF Children
      <3>2. stack' = [stack EXCEPT ![n] = Tail(stack[n])]
        BY <1>13, <2>3 DEF SkipPop
      <3>3. stack' \in [Nodes -> Seq(Nodes)]
        BY <3>1, <3>2
      <3>4. todo' \in [Nodes -> SUBSET Nodes]
        BY <3>5, <3>6
      <3>. QED
        BY <1>13, <2>1, <3>3, <3>4 DEF SkipPop, tables
    <2>. QED
      BY <2>2, <2>3
  <1>14. CASE SkipRead(n)
    <2>1. pc' \in [Nodes -> PCs]
      BY <1>14, <1>a DEF SkipRead, Step, Failing
    <2>2. todo' \in [Nodes -> SUBSET Nodes]
      BY <1>14 DEF SkipRead
    <2>. QED
      BY <1>14, <2>1, <2>2 DEF SkipRead, tables
  <1>15. CASE SkipWrite(n)
    <2>1. PICK c \in First(todo[n]) :
            /\ Call(n, "skip_write", "skip")
            /\ UpdateNode(c, "skipped")
            /\ todo' = [todo EXCEPT ![n] = @ \ {c}]
            /\ stack' = [stack EXCEPT ![n] = <<c>> \o @]
            /\ UNCHANGED announced
      BY <1>15 DEF SkipWrite
    <2>2. c \in Nodes
      BY <2>1 DEF First
    <2>3. <<c>> \o stack[n] \in Seq(Nodes)
      BY <2>2
    <2>4. stack' \in [Nodes -> Seq(Nodes)]
      BY <2>1, <2>3
    <2>5. pc' \in [Nodes -> PCs]
      BY <2>1, <1>a, CallType DEF Failing
    <2>. QED
      BY <2>1, <2>2, <2>4, <2>5 DEF UpdateNode, Settled
  <1>. QED
    BY <1>1, <1>2, <1>3, <1>4, <1>5, <1>6, <1>7, <1>8, <1>9, <1>10, <1>11,
       <1>12, <1>13, <1>14, <1>15 DEF HandlerStep

\* Every step keeps the types.
LEMMA TypeStep == TypeOK /\ [Next]_vars => TypeOK'
  <1>. SUFFICES ASSUME TypeOK, [Next]_vars PROVE TypeOK'
    OBVIOUS
  <1>1. CASE UNCHANGED vars
    BY <1>1 DEF vars, tables, TypeOK
  <1>2. ASSUME NEW n \in Nodes, JobSucceeds(n) \/ JobFails(n) PROVE TypeOK'
    BY <1>2 DEF JobSucceeds, JobFails, JobEnds, TypeOK, PCs, Completing, Failing
  <1>3. ASSUME NEW n \in Nodes, HandlerDies(n) PROVE TypeOK'
    BY <1>3 DEF HandlerDies, tables, TypeOK, PCs
  <1>. QED
    BY <1>1, <1>2, <1>3, HandlerTypeStep DEF Next

\* TypeOK is an invariant: every reachable state of the tables and of the
\* handlers is one the code's types allow.
THEOREM DagTypeCorrect == Spec => []TypeOK
  <1>1. Init => TypeOK
    BY DAGAssumption DEF Init, TypeOK, PCs, Roots, Children, Idle, AtWork
  <1>. QED
    BY <1>1, TypeStep, PTL DEF Spec

-----------------------------------------------------------------------------
(* What a handler's step does to the handlers, the jobs and the nodes.      *)

\* The positions of the two handlers are different, and none is a handler's end.
LEMMA PositionsDiffer ==
    /\ Completing \cap Failing = {}
    /\ "none" \notin Completing \cup Failing
    /\ "done" \notin Completing \cup Failing
    /\ "error" \notin Completing \cup Failing
  BY DEF Completing, Failing

\* The move of one handler: within its own handler, or to the handler's end.
Moves(n) ==
    /\ pc[n] \in Completing \cup Failing
    /\ pc[n] \in Completing =>
           pc'[n] \in (Completing \ {"complete_node"}) \cup {"done", "error"}
    /\ pc[n] \in Failing =>
           pc'[n] \in (Failing \ {"fail_node"}) \cup {"done", "error"}
    /\ \A m \in Nodes \ {n} : pc'[m] = pc[m]

LEMMA CallIsMove ==
    ASSUME TypeOK, NEW n \in Nodes, NEW from, NEW to, Call(n, from, to),
           \/ from \in Completing /\ to \in (Completing \ {"complete_node"}) \cup {"done"}
           \/ from \in Failing /\ to \in (Failing \ {"fail_node"}) \cup {"done"}
    PROVE  Moves(n)
  <1>1. pc \in [Nodes -> PCs]
    BY DEF TypeOK
  <1>. QED
    BY <1>1, CallMoves, PositionsDiffer DEF Moves

\* A handler's step moves that handler alone, and never back to its first await.
LEMMA HandlerFrame ==
    ASSUME TypeOK, NEW n \in Nodes, HandlerStep(n)
    PROVE  /\ Moves(n)
           /\ \A m \in Nodes \ {n} : todo'[m] = todo[m] /\ stack'[m] = stack[m]
  <1>t. /\ pc \in [Nodes -> PCs]
        /\ todo \in [Nodes -> SUBSET Nodes]
        /\ stack \in [Nodes -> Seq(Nodes)]
    BY DEF TypeOK
  <1>1. CASE CompleteNode(n)
    BY <1>1, CallIsMove DEF CompleteNode, Completing
  <1>2. CASE StartChildren(n)
    <2>1. \A x \in First(Children(n)) : Mode[x] \in {"parallel", "sequential", "limited"}
      BY DAGAssumption DEF First, Children
    <2>2. pc[n] = "children" /\ \E to \in {"stats", "enqueue_batch", "create", "error"} :
                                    pc' = [pc EXCEPT ![n] = to]
      BY <1>2, <2>1 DEF StartChildren, Step
    <2>. QED
      BY <1>2, <1>t, <2>2 DEF StartChildren, Moves, Completing, Failing
  <1>3. CASE EnqueueBatch(n)
    BY <1>3, CallIsMove DEF EnqueueBatch, Completing
  <1>4. CASE MarkReady(n)
    <2>1. PICK to \in {"stats", "mark_ready"} : Call(n, "mark_ready", to)
      BY <1>4 DEF MarkReady
    <2>. QED
      BY <1>4, <1>t, <2>1, CallIsMove DEF MarkReady, Completing
  <1>5. CASE CreateJob(n)
    BY <1>5, CallIsMove DEF CreateJob, Completing
  <1>6. CASE MarkOne(n)
    <2>1. PICK to \in {"stats", "create"} : Call(n, "mark_one", to)
      BY <1>6 DEF MarkOne
    <2>. QED
      BY <1>6, <1>t, <2>1, CallIsMove DEF MarkOne, Completing
  <1>7. CASE ReadStats(n)
    <2>1. Verdict \in {"write_failed", "write_completed", "get_execution", "done"}
      BY DEF Verdict
    <2>. QED
      BY <1>7, <2>1, CallIsMove DEF ReadStats, Call, Completing
  <1>8. CASE WriteVerdict(n)
    BY <1>8, CallIsMove DEF WriteVerdict, Completing
  <1>9. CASE GetExecution(n)
    BY <1>9, CallIsMove DEF GetExecution, Call, Completing
  <1>10. CASE WriteRunning(n)
    BY <1>10, CallIsMove DEF WriteRunning, Completing
  <1>11. CASE FailNode(n)
    BY <1>11, CallIsMove DEF FailNode, Failing
  <1>12. CASE FailDAG(n)
    BY <1>12, <1>t, CallIsMove DEF FailDAG, Failing
  <1>13. CASE SkipPop(n)
    <2>1. PICK to \in {"skip", "done"} : Call(n, "skip", to)
      BY <1>13 DEF SkipPop, Call
    <2>. QED
      BY <1>13, <1>t, <2>1, CallIsMove DEF SkipPop, Failing
  <1>14. CASE SkipRead(n)
    <2>1. PICK to \in {"skip", "skip_write"} : Call(n, "skip", to)
      BY <1>14 DEF SkipRead, Call
    <2>. QED
      BY <1>14, <1>t, <2>1, CallIsMove DEF SkipRead, Failing
  <1>15. CASE SkipWrite(n)
    <2>1. Call(n, "skip_write", "skip")
      BY <1>15 DEF SkipWrite
    <2>. QED
      BY <1>15, <1>t, <2>1, CallIsMove DEF SkipWrite, Failing
  <1>. QED
    BY <1>1, <1>2, <1>3, <1>4, <1>5, <1>6, <1>7, <1>8, <1>9, <1>10, <1>11,
       <1>12, <1>13, <1>14, <1>15 DEF HandlerStep

\* Which actions write jobs, and which write nodes.
LEMMA QuietActions ==
    ASSUME NEW n \in Nodes, HandlerStep(n)
    PROVE  /\ EnqueueBatch(n) \/ CreateJob(n) \/ job' = job
           /\ \/ CompleteNode(n) \/ FailNode(n)
              \/ MarkReady(n) \/ MarkOne(n) \/ SkipWrite(n)
              \/ node_status' = node_status
  BY DEF HandlerStep, CompleteNode, StartChildren, EnqueueBatch, MarkReady,
         CreateJob, MarkOne, ReadStats, WriteVerdict, GetExecution, WriteRunning,
         FailNode, FailDAG, SkipPop, SkipRead, SkipWrite, UpdateNode, UpdateDAG,
         Enqueue, tables

\* Jobs are only ever added by a handler: for children of its node, from the two
\* awaits that enqueue, and never for a child that has one.
Enqueues(n) ==
    \A m \in Nodes :
        \/ job'[m] = job[m]
        \/ /\ m \in Children(n) /\ job[m] = "none" /\ job'[m] = "queued"
           /\ pc[n] \in {"enqueue_batch", "create"}

LEMMA HandlerEnqueues ==
    ASSUME TypeOK, ChildInv, TodoInv, NEW n \in Nodes, HandlerStep(n)
    PROVE  Enqueues(n)
  <1>t. job \in [Nodes -> {"none", "queued", "succeeded", "failed"}]
    BY DEF TypeOK
  <1>1. CASE EnqueueBatch(n)
    <2>1. pc[n] = "enqueue_batch"
      BY <1>1 DEF EnqueueBatch, Call, Step
    <2>2. todo[n] = Children(n)
      BY <2>1 DEF TodoInv
    <2>3. \A c \in Children(n) : job[c] = "none"
      BY <2>1 DEF ChildInv, Before
    <2>. QED
      BY <1>1, <1>t, <2>1, <2>2, <2>3 DEF EnqueueBatch, Enqueue, Enqueues
  <1>2. CASE CreateJob(n)
    <2>1. PICK c \in First(todo[n]) : Call(n, "create", "mark_one") /\ Enqueue({c})
      BY <1>2 DEF CreateJob
    <2>2. pc[n] = "create"
      BY <2>1 DEF Call, Step
    <2>3. todo[n] \subseteq Children(n)
      BY <2>2 DEF TodoInv, Visiting
    <2>4. c \in Children(n) /\ job[c] = "none"
      BY <2>2, <2>3, FirstIsMember DEF ChildInv
    <2>. QED
      BY <1>t, <2>1, <2>2, <2>4 DEF Enqueue, Enqueues
  <1>. QED
    BY <1>1, <1>2, QuietActions DEF Enqueues

\* A node is written by the handler of its own job, by that of its parent's job
\* once it has a job, or by a failure handler that finds it below a doomed node.
Writes(n) ==
    \A m \in Nodes :
        \/ node_status'[m] = node_status[m]
        \/ m = n /\ pc[n] = "complete_node" /\ node_status'[m] = "completed"
        \/ m = n /\ pc[n] = "fail_node" /\ node_status'[m] = "failed"
        \/ /\ m \in Children(n) /\ m \in First(todo[n]) /\ job[m] # "none"
           /\ pc[n] \in {"mark_ready", "mark_one"} /\ node_status'[m] = "ready"
        \/ /\ pc[n] = "skip_write" /\ m \in First(todo[n]) /\ job[m] = "none"
           /\ ParentOf[m] \in Nodes /\ Doomed(ParentOf[m])
           /\ node_status'[m] = "skipped"

\* A child of a doomed node has no job.
LEMMA DoomedHasNoJobBelow ==
    ASSUME JobInv, NodeInv, NEW c \in Nodes, ParentOf[c] \in Nodes,
           Doomed(ParentOf[c])
    PROVE  job[c] = "none"
  <1>1. c \notin Roots
    BY DAGAssumption DEF Roots, Children
  <1>2. job[ParentOf[c]] # "succeeded"
    BY DEF NodeInv, Doomed
  <1>. QED
    BY <1>1, <1>2 DEF JobInv

LEMMA HandlerWrites ==
    ASSUME IInv, NEW n \in Nodes, HandlerStep(n)
    PROVE  Writes(n) /\ (job' # job => node_status' = node_status)
  <1>. USE DEF IInv
  <1>t. node_status \in [Nodes -> Idle \cup AtWork \cup Settled]
    BY DEF TypeOK
  <1>1. CASE CompleteNode(n)
    BY <1>1, <1>t DEF CompleteNode, Call, Step, UpdateNode, Writes
  <1>2. CASE FailNode(n)
    BY <1>2, <1>t DEF FailNode, Call, Step, UpdateNode, Writes
  <1>3. CASE MarkReady(n)
    <2>1. PICK c \in First(todo[n]) : pc[n] = "mark_ready" /\ UpdateNode(c, "ready")
      BY <1>3 DEF MarkReady, Call, Step
    <2>2. c \in Children(n)
      BY <2>1, FirstIsMember DEF TodoInv, Visiting
    <2>3. job[c] # "none"
      BY <2>1, <2>2 DEF ChildInv
    <2>. QED
      BY <1>t, <2>1, <2>2, <2>3 DEF UpdateNode, Writes
  <1>4. CASE MarkOne(n)
    <2>1. PICK c \in First(todo[n]) : pc[n] = "mark_one" /\ UpdateNode(c, "ready")
      BY <1>4 DEF MarkOne, Call, Step
    <2>2. c \in Children(n) /\ c \in todo[n]
      BY <2>1, FirstIsMember DEF TodoInv, Visiting
    <2>3. job[c] # "none"
      BY <2>1, <2>2 DEF ChildInv
    <2>. QED
      BY <1>t, <2>1, <2>2, <2>3 DEF UpdateNode, Writes
  <1>5. CASE SkipWrite(n)
    <2>1. PICK c \in First(todo[n]) : pc[n] = "skip_write" /\ UpdateNode(c, "skipped")
      BY <1>5 DEF SkipWrite, Call, Step
    <2>2. c \in todo[n] /\ c \in Nodes
      BY <2>1, FirstIsMember DEF TypeOK
    <2>3. ParentOf[c] \in Nodes /\ Doomed(ParentOf[c])
      BY <2>1, <2>2 DEF TodoInv
    <2>4. job[c] = "none"
      BY <2>2, <2>3, DoomedHasNoJobBelow
    <2>. QED
      BY <1>t, <2>1, <2>3, <2>4 DEF UpdateNode, Writes
  <1>6. CASE EnqueueBatch(n) \/ CreateJob(n)
    BY <1>6 DEF EnqueueBatch, CreateJob, Enqueue, Writes
  <1>. QED
    BY <1>1, <1>2, <1>3, <1>4, <1>5, <1>6, QuietActions DEF Writes

\* What the executor and a handler's death do.
LEMMA ExecutorSteps ==
    ASSUME TypeOK, NEW n \in Nodes
    PROVE  /\ JobSucceeds(n) \/ JobFails(n) =>
                  /\ job[n] = "queued" /\ job'[n] \in {"succeeded", "failed"}
                  /\ \/ pc'[n] = pc[n]
                     \/ pc'[n] = "complete_node" /\ job'[n] = "succeeded"
                     \/ pc'[n] = "fail_node" /\ job'[n] = "failed"
                  /\ pc'[n] # pc[n] => HasContext(n)
                  /\ \A m \in Nodes \ {n} : job'[m] = job[m] /\ pc'[m] = pc[m]
                  /\ UNCHANGED <<node_status, dag_status, announced, todo, stack>>
           /\ HandlerDies(n) =>
                  /\ pc[n] \in Completing \cup Failing /\ pc'[n] = "error"
                  /\ \A m \in Nodes \ {n} : pc'[m] = pc[m]
                  /\ UNCHANGED <<tables, todo, stack>>
  <1>1. /\ job \in [Nodes -> {"none", "queued", "succeeded", "failed"}]
        /\ pc \in [Nodes -> PCs]
    BY DEF TypeOK
  <1>2. JobSucceeds(n) => pc'[n] \in {pc[n], "complete_node"} /\ job'[n] = "succeeded"
    BY <1>1 DEF JobSucceeds, JobEnds
  <1>3. JobFails(n) => pc'[n] \in {pc[n], "fail_node"} /\ job'[n] = "failed"
    BY <1>1 DEF JobFails, JobEnds
  <1>. QED
    BY <1>1, <1>2, <1>3 DEF JobSucceeds, JobFails, JobEnds, HandlerDies, tables

\* Every step is one of a handler, of the executor, a death, or none.
LEMMA StepCases ==
    ASSUME [Next]_vars
    PROVE  \/ \E n \in Nodes : HandlerStep(n)
           \/ \E n \in Nodes : JobSucceeds(n) \/ JobFails(n)
           \/ \E n \in Nodes : HandlerDies(n)
           \/ UNCHANGED vars
  BY DEF Next

\* The failure of the job has reached the orchestrator's tables, or its handler
\* ended early.
Reported(m) == job[m] = "failed" /\ pc[m] \notin {"none", "fail_node"}

\* The end of a job, its report, a skip and a start are for good.
Monotone ==
    \A m \in Nodes :
        /\ job[m] # "none" => job'[m] # "none"
        /\ job[m] \in {"succeeded", "failed"} => job'[m] = job[m]
        /\ node_status[m] = "skipped" => node_status'[m] = "skipped"
        /\ node_status[m] \notin Idle => node_status'[m] \notin Idle
        /\ Doomed(m) => Doomed(m)'
        /\ Reported(m) => Reported(m)'

LEMMA StepIsMonotone == IInv /\ [Next]_vars => Monotone
  <1>. SUFFICES ASSUME IInv, [Next]_vars PROVE Monotone
    OBVIOUS
  <1>. USE DEF IInv
  <1>1. ASSUME NEW n \in Nodes, HandlerStep(n) PROVE Monotone
    <2>1. Enqueues(n) /\ Writes(n) /\ Moves(n)
      BY <1>1, HandlerEnqueues, HandlerWrites, HandlerFrame
    <2>2. \A m \in Nodes : /\ job[m] # "none" => job'[m] = job[m]
                           /\ job'[m] # "none" \/ job'[m] = job[m]
      BY <2>1 DEF Enqueues
    <2>3. job[n] # "none"
      BY <2>1, PositionsDiffer DEF Moves, JobInv
    <2>4. \A m \in Nodes : node_status[m] = "skipped" => job[m] = "none"
      BY DEF NodeInv
    <2>5. \A m \in Nodes : node_status[m] = "skipped" => node_status'[m] = "skipped"
      BY <2>1, <2>3, <2>4 DEF Writes
    <2>6. \A m \in Nodes : node_status[m] \notin Idle => node_status'[m] \notin Idle
      BY <2>1 DEF Writes, Idle
    <2>7. \A m \in Nodes : Reported(m) => Reported(m)'
      <3>1. pc'[n] \notin {"none", "fail_node"}
        BY <2>1, PositionsDiffer DEF Moves, Completing
      <3>. QED
        BY <2>1, <2>2, <3>1 DEF Moves, Reported
    <2>. QED
      BY <2>2, <2>5, <2>6, <2>7 DEF Monotone, Doomed
  <1>2. ASSUME NEW n \in Nodes, JobSucceeds(n) \/ JobFails(n) PROVE Monotone
    BY <1>2, ExecutorSteps DEF Monotone, Doomed, Reported
  <1>3. ASSUME NEW n \in Nodes, HandlerDies(n) PROVE Monotone
    BY <1>3, ExecutorSteps DEF Monotone, Doomed, Reported, tables
  <1>4. CASE UNCHANGED vars
    BY <1>4 DEF Monotone, Doomed, Reported, vars, tables
  <1>. QED
    BY <1>1, <1>2, <1>3, <1>4, StepCases

-----------------------------------------------------------------------------
(* Every step preserves the inductive invariant, part by part.              *)

\* Only ended jobs have handlers, and jobs follow the jobs of the parents.
LEMMA JobStep == IInv /\ [Next]_vars => JobInv'
  <1>. SUFFICES ASSUME IInv, [Next]_vars PROVE JobInv'
    OBVIOUS
  <1>. USE DEF IInv
  <1>m. Monotone
    BY StepIsMonotone
  <1>r. \A m \in Nodes \ Roots : ParentOf[m] \in Nodes
    BY DAGAssumption DEF Roots, Children
  <1>1. ASSUME NEW n \in Nodes, HandlerStep(n) PROVE JobInv'
    <2>1. Enqueues(n) /\ Moves(n)
      BY <1>1, HandlerEnqueues, HandlerFrame
    <2>2. job[n] \in {"succeeded", "failed"} /\ job'[n] = job[n]
      BY <1>m, <2>1 DEF Moves, JobInv, Monotone
    <2>. SUFFICES ASSUME NEW m \in Nodes
                  PROVE  /\ job'[m] \in {"none", "queued"} => pc'[m] = "none"
                         /\ pc'[m] \in Completing => job'[m] = "succeeded"
                         /\ pc'[m] \in Failing => job'[m] = "failed"
                         /\ job'[m] # "none" /\ m \notin Roots =>
                                job'[ParentOf[m]] = "succeeded"
      BY DEF JobInv
    <2>3. CASE m = n
      BY <1>m, <1>r, <2>1, <2>2, <2>3, PositionsDiffer DEF Moves, JobInv, Monotone
    <2>4. CASE m # n
      <3>1. pc'[m] = pc[m] /\ (job'[m] = job[m] \/ (job[m] = "none" /\ job'[m] = "queued"))
        BY <2>1, <2>4 DEF Moves, Enqueues
      <3>2. pc'[m] \in Completing \cup Failing => job'[m] = job[m]
        BY <3>1, PositionsDiffer DEF JobInv
      <3>3. job'[m] # job[m] => ParentOf[m] = n /\ job[n] = "succeeded"
        BY <2>1 DEF Enqueues, Children, JobInv, Completing
      <3>4. job'[m] # "none" /\ m \notin Roots => job'[ParentOf[m]] = "succeeded"
        BY <1>m, <1>r, <2>2, <3>3 DEF JobInv, Monotone
      <3>. QED
        BY <3>1, <3>2, <3>4 DEF JobInv
    <2>. QED
      BY <2>3, <2>4
  <1>2. ASSUME NEW n \in Nodes, JobSucceeds(n) \/ JobFails(n) PROVE JobInv'
    <2>1. pc[n] = "none"
      BY <1>2, ExecutorSteps DEF JobInv
    <2>2. \A m \in Nodes \ Roots : job'[m] # "none" => job'[ParentOf[m]] = "succeeded"
      BY <1>2, <1>m, <1>r, ExecutorSteps DEF JobInv, Monotone
    <2>3. \A m \in Nodes \ {n} : job'[m] = job[m] /\ pc'[m] = pc[m]
      BY <1>2, ExecutorSteps
    <2>4. /\ job'[n] \in {"succeeded", "failed"}
          /\ pc'[n] \in Completing => job'[n] = "succeeded"
          /\ pc'[n] \in Failing => job'[n] = "failed"
      BY <1>2, <2>1, ExecutorSteps, PositionsDiffer DEF Completing, Failing
    <2>. QED
      BY <2>2, <2>3, <2>4 DEF JobInv
  <1>3. ASSUME NEW n \in Nodes, HandlerDies(n) PROVE JobInv'
    BY <1>3, ExecutorSteps, PositionsDiffer DEF JobInv, tables
  <1>4. CASE UNCHANGED vars
    BY <1>4 DEF JobInv, vars, tables
  <1>. QED
    BY <1>1, <1>2, <1>3, <1>4, StepCases

\* What is said of a node agrees with its job.
LEMMA NodeStep == IInv /\ [Next]_vars => NodeInv'
  <1>. SUFFICES ASSUME IInv, [Next]_vars PROVE NodeInv'
    OBVIOUS
  <1>. USE DEF IInv
  <1>m. Monotone
    BY StepIsMonotone
  <1>1. ASSUME NEW n \in Nodes, HandlerStep(n) PROVE NodeInv'
    <2>1. Enqueues(n) /\ Moves(n) /\ Writes(n) /\ (job' # job => node_status' = node_status)
      BY <1>1, HandlerEnqueues, HandlerFrame, HandlerWrites
    <2>2. /\ pc[n] = "complete_node" => job'[n] = "succeeded"
          /\ pc[n] = "fail_node" => job'[n] = "failed"
      BY <1>m DEF JobInv, Monotone, Completing, Failing
    <2>3. ASSUME NEW m \in Nodes, node_status'[m] = "skipped"
          PROVE  job'[m] = "none" /\ ParentOf[m] \in Nodes /\ Doomed(ParentOf[m])'
      <3>1. job[m] = "none" /\ ParentOf[m] \in Nodes /\ Doomed(ParentOf[m])
        BY <2>1, <2>3 DEF Writes, NodeInv
      <3>2. Doomed(ParentOf[m])'
        BY <1>m, <3>1 DEF Monotone
      <3>3. job'[m] = "none"
        <4>1. SUFFICES ASSUME job'[m] # job[m] PROVE FALSE
          BY <3>1
        <4>2. ParentOf[m] = n /\ job[n] = "succeeded"
          BY <2>1, <4>1 DEF Enqueues, Children, JobInv, Completing
        <4>. QED
          BY <3>1, <4>2 DEF Doomed, NodeInv
      <3>. QED
        BY <3>1, <3>2, <3>3
    <2>4. \A m \in Nodes : node_status'[m] \in AtWork => job'[m] # "none"
      BY <1>m, <2>1 DEF Writes, NodeInv, Monotone, AtWork
    <2>5. \A m \in Nodes : node_status'[m] = "completed" => job'[m] = "succeeded"
      BY <1>m, <2>1, <2>2 DEF Writes, NodeInv, Monotone
    <2>7. \A m \in Nodes : node_status'[m] = "completed" =>
                               pc'[m] \notin {"none", "complete_node"}
      <3>1. pc'[n] \notin {"none", "complete_node"}
        BY <2>1, PositionsDiffer DEF Moves, Failing
      <3>2. \A m \in Nodes \ {n} : node_status'[m] = "completed" =>
                                       node_status[m] = "completed" /\ pc'[m] = pc[m]
        BY <2>1 DEF Writes, Moves
      <3>. QED
        BY <3>1, <3>2 DEF NodeInv
    <2>6. \A m \in Nodes : node_status'[m] = "failed" => Reported(m)'
      <3>1. pc[n] = "fail_node" => Reported(n)'
        BY <2>1, <2>2, PositionsDiffer DEF Moves, Reported, Completing, Failing
      <3>. QED
        BY <1>m, <2>1, <3>1 DEF Writes, NodeInv, Monotone, Reported
    <2>. QED
      BY <2>3, <2>4, <2>5, <2>6, <2>7 DEF NodeInv, Reported
  <1>2. ASSUME NEW n \in Nodes, JobSucceeds(n) \/ JobFails(n) PROVE NodeInv'
    BY <1>2, <1>m, ExecutorSteps DEF NodeInv, Monotone
  <1>3. ASSUME NEW n \in Nodes, HandlerDies(n) PROVE NodeInv'
    BY <1>3, <1>m, ExecutorSteps DEF NodeInv, Monotone, tables
  <1>4. CASE UNCHANGED vars
    BY <1>4 DEF NodeInv, Doomed, vars, tables
  <1>. QED
    BY <1>1, <1>2, <1>3, <1>4, StepCases

\* What ChildInv says of one node and one of its children.
ChildFacts(n, c) ==
    /\ pc[n] \in Before \cup Failing => job[c] = "none"
    /\ pc[n] = "mark_ready" => job[c] # "none"
    /\ pc[n] = "create" /\ c \in todo[n] => job[c] = "none"
    /\ pc[n] = "mark_one" /\ c \in todo[n] =>
           (job[c] = "none" <=> c \notin First(todo[n]))
    /\ \/ pc[n] \in Visiting /\ c \notin todo[n]
       \/ pc[n] \in After
       \/ pc[n] = "done" /\ job[n] = "succeeded"
       => job[c] # "none" /\ node_status[c] \notin Idle

LEMMA ChildFactsSuffice ==
    ASSUME \A m \in Nodes : \A c \in Children(m) : ChildFacts(m, c)'
    PROVE  ChildInv'
  BY DEF ChildFacts, ChildInv, Children

\* A handler leaves alone what is said of the children of other nodes.
LEMMA OtherChildren ==
    ASSUME IInv, NEW n \in Nodes, HandlerStep(n),
           NEW m \in Nodes \ {n}, NEW c \in Children(m)
    PROVE  ChildFacts(m, c)'
  <1>. USE DEF IInv
  <1>1. pc'[m] = pc[m] /\ todo'[m] = todo[m]
    BY HandlerFrame DEF Moves
  <1>2. job'[c] = job[c]
    BY HandlerEnqueues DEF Enqueues, Children
  <1>3. node_status[c] \notin Idle => node_status'[c] \notin Idle
    BY HandlerWrites DEF Writes, Idle, Children
  <1>4. job'[m] = "succeeded" <=> job[m] = "succeeded"
    BY HandlerEnqueues DEF Enqueues
  <1>5. First(todo[m])' = First(todo[m])
    BY <1>1 DEF First
  <1>6. ChildFacts(m, c)
    BY DEF ChildInv, ChildFacts
  <1>. QED
    BY <1>1, <1>2, <1>3, <1>4, <1>5, <1>6 DEF ChildFacts

\* A completion handler keeps what is said of its node's children.
LEMMA OwnChildren ==
    ASSUME IInv, NEW n \in Nodes, HandlerStep(n), NEW c \in Children(n)
    PROVE  ChildFacts(n, c)'
  <1>. USE DEF IInv
  <1>t. /\ pc \in [Nodes -> PCs] /\ todo \in [Nodes -> SUBSET Nodes]
        /\ job \in [Nodes -> {"none", "queued", "succeeded", "failed"}]
        /\ node_status \in [Nodes -> Idle \cup AtWork \cup Settled]
    BY DEF TypeOK
  <1>c. c \in Nodes
    BY DEF Children
  <1>m. Monotone
    BY StepIsMonotone DEF Next
  <1>f. ChildFacts(n, c)
    BY DEF ChildInv, ChildFacts
  <1>u. \A d \in First(todo[n]) : c \in First(todo[n]) => c = d
    BY <1>t, FirstIsUnique DEF TodoInv
  <1>e. pc'[n] = "error" => ChildFacts(n, c)'
    BY DEF ChildFacts, Before, Failing, Visiting, After
  <1>1. CASE CompleteNode(n)
    <2>1. pc[n] = "complete_node" /\ pc'[n] \in {"children", "error"} /\ job' = job
      BY <1>1, <1>t, CallMoves DEF CompleteNode, UpdateNode
    <2>. QED
      BY <1>e, <1>f, <2>1 DEF ChildFacts, Before, Visiting, After
  <1>2. CASE StartChildren(n)
    <2>1. pc[n] = "children" /\ job' = job /\ Children(n) # {}
      BY <1>2 DEF StartChildren, Step, tables
    <2>2. \A x \in First(Children(n)) : Mode[x] \in {"parallel", "sequential", "limited"}
      BY DAGAssumption DEF First, Children
    <2>3. pc'[n] \in {"enqueue_batch", "create", "error"}
      BY <1>2, <1>t, <2>1, <2>2 DEF StartChildren, Step
    <2>4. c \in todo'[n]
      BY <1>2, <1>t DEF StartChildren
    <2>. QED
      BY <1>e, <1>f, <2>1, <2>3, <2>4 DEF ChildFacts, Before, Failing, Visiting, After
  <1>3. CASE EnqueueBatch(n)
    <2>1. pc[n] = "enqueue_batch" /\ pc'[n] \in {"mark_ready", "error"} /\ todo' = todo
      BY <1>3, <1>t, CallMoves DEF EnqueueBatch
    <2>2. c \in todo[n]
      BY <2>1 DEF TodoInv
    <2>3. job'[c] = "queued"
      BY <1>3, <1>c, <2>2 DEF EnqueueBatch, Enqueue
    <2>. QED
      BY <1>e, <2>1, <2>2, <2>3 DEF ChildFacts, Before, Failing, Visiting, After
  <1>4. CASE MarkReady(n)
    <2>1. PICK d \in First(todo[n]) :
              /\ Call(n, "mark_ready", IF todo[n] = {d} THEN "stats" ELSE "mark_ready")
              /\ UpdateNode(d, "ready")
              /\ todo' = [todo EXCEPT ![n] = @ \ {d}]
      BY <1>4 DEF MarkReady
    <2>2. /\ pc[n] = "mark_ready"
          /\ pc'[n] \in {"mark_ready", "stats", "error"}
          /\ pc'[n] = "stats" => todo[n] = {d}
      BY <1>t, <2>1, CallMoves
    <2>3. job' = job /\ job[c] # "none"
      BY <1>f, <2>1, <2>2 DEF UpdateNode, ChildFacts
    <2>4. c \notin todo'[n] => c = d \/ c \notin todo[n]
      BY <1>t, <2>1
    <2>5. c \notin todo'[n] => node_status'[c] \notin Idle
      BY <1>c, <1>f, <1>t, <2>1, <2>2, <2>4 DEF UpdateNode, ChildFacts, Visiting, Idle
    <2>6. pc'[n] = "stats" => c \notin todo'[n]
      BY <1>t, <2>1, <2>2
    <2>. QED
      BY <1>e, <2>2, <2>3, <2>5, <2>6 DEF ChildFacts, Before, Failing, Visiting, After
  <1>5. CASE CreateJob(n)
    <2>1. PICK d \in First(todo[n]) : Call(n, "create", "mark_one") /\ Enqueue({d})
                                      /\ UNCHANGED todo
      BY <1>5 DEF CreateJob
    <2>2. pc[n] = "create" /\ pc'[n] \in {"mark_one", "error"}
      BY <1>t, <2>1, CallMoves
    <2>3. job'[c] = (IF c = d THEN "queued" ELSE job[c]) /\ node_status' = node_status
      BY <1>c, <2>1 DEF Enqueue
    <2>4. First(todo[n])' = First(todo[n])
      BY <2>1 DEF First
    <2>5. c \in todo[n] => (job'[c] = "none" <=> c \notin First(todo[n]))
      BY <1>f, <1>u, <2>1, <2>2, <2>3 DEF ChildFacts
    <2>6. c \notin todo[n] => job'[c] # "none" /\ node_status'[c] \notin Idle
      BY <1>f, <2>2, <2>3 DEF ChildFacts, Visiting
    <2>. QED
      BY <1>e, <2>1, <2>2, <2>4, <2>5, <2>6
         DEF ChildFacts, Before, Failing, Visiting, After
  <1>6. CASE MarkOne(n)
    <2>1. PICK d \in First(todo[n]) :
              /\ Call(n, "mark_one", IF todo[n] = {d} THEN "stats" ELSE "create")
              /\ UpdateNode(d, "ready")
              /\ todo' = [todo EXCEPT ![n] = @ \ {d}]
      BY <1>6 DEF MarkOne
    <2>2. /\ pc[n] = "mark_one"
          /\ pc'[n] \in {"create", "stats", "error"}
          /\ pc'[n] = "stats" => todo[n] = {d}
      BY <1>t, <2>1, CallMoves
    <2>3. job' = job /\ d \in todo[n]
      BY <2>1, FirstIsMember DEF UpdateNode
    <2>4. c \notin todo'[n] => c = d \/ c \notin todo[n]
      BY <1>t, <2>1
    <2>5. c \notin todo'[n] => job[c] # "none" /\ node_status'[c] \notin Idle
      BY <1>c, <1>f, <1>t, <2>1, <2>2, <2>3, <2>4
         DEF UpdateNode, ChildFacts, Visiting, Idle
    <2>6. c \in todo'[n] => job[c] = "none"
      BY <1>f, <1>t, <1>u, <2>1, <2>2 DEF ChildFacts
    <2>7. pc'[n] = "stats" => c \notin todo'[n]
      BY <1>t, <2>1, <2>2
    <2>. QED
      BY <1>e, <2>2, <2>3, <2>5, <2>6, <2>7
         DEF ChildFacts, Before, Failing, Visiting, After
  <1>7. CASE ReadStats(n) \/ WriteVerdict(n) \/ GetExecution(n) \/ WriteRunning(n)
    <2>1. pc[n] \in After /\ pc'[n] \in After \cup {"done", "error"}
      BY <1>7, <1>t, CallMoves DEF ReadStats, WriteVerdict, GetExecution,
         WriteRunning, Step, Verdict, After
    <2>2. job[c] # "none" /\ node_status[c] \notin Idle
      BY <1>f, <2>1 DEF ChildFacts
    <2>3. job'[c] # "none" /\ node_status'[c] \notin Idle
      BY <1>c, <1>m, <2>2 DEF Monotone
    <2>. QED
      BY <2>1, <2>3 DEF ChildFacts, Before, Failing, Visiting, After
  <1>8. CASE pc[n] \in Failing
    <2>1. pc'[n] \in Failing \cup {"done", "error"}
      BY <1>8, HandlerFrame DEF Moves
    <2>2. job[c] = "none" /\ job'[n] = "failed"
      BY <1>8, <1>f, <1>m DEF ChildFacts, JobInv, Monotone
    <2>3. job'[c] = "none"
      BY <1>8, <1>c, <2>2, HandlerEnqueues DEF Enqueues, Failing
    <2>. QED
      BY <2>1, <2>2, <2>3 DEF ChildFacts, Before, Failing, Visiting, After
  <1>9. FailNode(n) \/ FailDAG(n) \/ SkipPop(n) \/ SkipRead(n) \/ SkipWrite(n)
        => pc[n] \in Failing
    BY DEF FailNode, FailDAG, SkipPop, SkipRead, SkipWrite, Call, Step, Failing
  <1>. QED
    BY <1>1, <1>2, <1>3, <1>4, <1>5, <1>6, <1>7, <1>8, <1>9 DEF HandlerStep

\* The children of a node get their jobs from its handler alone, and only once.
LEMMA ChildStep == IInv /\ [Next]_vars => ChildInv'
  <1>. SUFFICES ASSUME IInv, [Next]_vars PROVE ChildInv'
    OBVIOUS
  <1>f. \A m \in Nodes : \A c \in Children(m) : ChildFacts(m, c)
    BY DEF IInv, ChildInv, ChildFacts
  <1>1. ASSUME NEW n \in Nodes, HandlerStep(n) PROVE ChildInv'
    BY <1>1, OwnChildren, OtherChildren, ChildFactsSuffice
  <1>2. ASSUME NEW n \in Nodes, JobSucceeds(n) \/ JobFails(n) PROVE ChildInv'
    <2>1. /\ job[n] = "queued" /\ job'[n] # "none" /\ pc[n] = "none"
          /\ pc'[n] \in {"none", "complete_node", "fail_node"}
          /\ \A m \in Nodes \ {n} : job'[m] = job[m] /\ pc'[m] = pc[m]
          /\ node_status' = node_status /\ todo' = todo
      BY <1>2, ExecutorSteps DEF IInv, JobInv
    <2>2. ASSUME NEW m \in Nodes, NEW c \in Children(m) PROVE ChildFacts(m, c)'
      <3>1. ChildFacts(m, c) /\ c \in Nodes
        BY <1>f DEF Children
      <3>2. job'[c] = "none" <=> job[c] = "none"
        BY <2>1, <3>1
      <3>3. First(todo[m])' = First(todo[m])
        BY <2>1 DEF First
      <3>4. CASE m = n
        BY <2>1, <3>1, <3>2, <3>4 DEF ChildFacts, Before, Failing, Visiting, After
      <3>5. CASE m # n
        BY <2>1, <3>1, <3>2, <3>3, <3>5 DEF ChildFacts
      <3>. QED
        BY <3>4, <3>5
    <2>. QED
      BY <2>2, ChildFactsSuffice
  <1>3. ASSUME NEW n \in Nodes, HandlerDies(n) PROVE ChildInv'
    <2>1. /\ pc'[n] = "error" /\ \A m \in Nodes \ {n} : pc'[m] = pc[m]
          /\ UNCHANGED <<node_status, job, todo>>
      BY <1>3, ExecutorSteps DEF IInv, tables
    <2>2. ASSUME NEW m \in Nodes, NEW c \in Children(m) PROVE ChildFacts(m, c)'
      <3>1. ChildFacts(m, c)
        BY <1>f
      <3>2. First(todo[m])' = First(todo[m])
        BY <2>1 DEF First
      <3>. QED
        BY <2>1, <3>1, <3>2 DEF ChildFacts, Before, Failing, Visiting, After
    <2>. QED
      BY <2>2, ChildFactsSuffice
  <1>4. CASE UNCHANGED vars
    BY <1>4 DEF IInv, ChildInv, First, vars, tables
  <1>. QED
    BY <1>1, <1>2, <1>3, <1>4, StepCases

\* What TodoInv says of one handler.
TodoFacts(n) ==
    /\ \A c, d \in todo[n] : ParentOf[c] = ParentOf[d]
    /\ pc[n] \in {"none", "fail_node", "fail_dag"} => todo[n] = {}
    /\ pc[n] = "enqueue_batch" => todo[n] = Children(n)
    /\ pc[n] \in Visiting => todo[n] \subseteq Children(n)
    /\ pc[n] \in {"skip", "skip_write"} =>
           /\ \A c \in todo[n] : ParentOf[c] \in Nodes /\ Doomed(ParentOf[c])
           /\ \A m \in OnStack(n) : Doomed(m)

LEMMA StackMembers == TypeOK => \A n \in Nodes : OnStack(n) \subseteq Nodes
  BY DEF TypeOK, OnStack

\* What is on a handler's stack after the three steps that write the stack.
LEMMA StackOfOne ==
    ASSUME NEW n, NEW x, stack'[n] = <<x>>
    PROVE  OnStack(n)' = {x}
  <1>1. OnStack(n)' = {<<x>>[i] : i \in 1..1}
    BY DEF OnStack
  <1>. QED
    BY <1>1

LEMMA StackPopped ==
    ASSUME TypeOK, NEW n \in Nodes, stack[n] # <<>>, stack'[n] = Tail(stack[n])
    PROVE  OnStack(n) = {Head(stack[n])} \cup OnStack(n)'
  <1>. DEFINE s == stack[n]
  <1>1. s \in Seq(Nodes) /\ s # <<>> /\ Len(s) \in Nat \ {0}
    BY DEF TypeOK
  <1>2. Len(Tail(s)) = Len(s) - 1 /\ \A i \in 1..Len(s) - 1 : Tail(s)[i] = s[i + 1]
    BY <1>1
  <1>3. Head(s) = s[1]
    BY <1>1
  <1>4. OnStack(n)' = {Tail(s)[i] : i \in 1..Len(s) - 1}
    BY <1>2 DEF OnStack
  <1>5. \A i \in 1..Len(s) : i = 1 \/ (i - 1 \in 1..Len(s) - 1 /\ Tail(s)[i - 1] = s[i])
    BY <1>1, <1>2
  <1>6. OnStack(n) \subseteq {Head(s)} \cup OnStack(n)'
    BY <1>3, <1>4, <1>5 DEF OnStack
  <1>7. \A i \in 1..Len(s) - 1 : i + 1 \in 1..Len(s)
    BY <1>1
  <1>8. OnStack(n)' \subseteq OnStack(n)
    BY <1>2, <1>4, <1>7 DEF OnStack
  <1>9. Head(s) \in OnStack(n)
    BY <1>1, <1>3 DEF OnStack
  <1>. QED
    BY <1>6, <1>8, <1>9

LEMMA StackPushed ==
    ASSUME TypeOK, NEW n \in Nodes, NEW c \in Nodes, stack'[n] = <<c>> \o stack[n]
    PROVE  OnStack(n)' = {c} \cup OnStack(n)
  <1>. DEFINE s == stack[n]
              t == <<c>> \o s
  <1>1. s \in Seq(Nodes) /\ Len(s) \in Nat
    BY DEF TypeOK
  <1>2. Len(t) = Len(s) + 1 /\ t[1] = c /\ \A i \in 1..Len(s) : t[i + 1] = s[i]
    BY <1>1
  <1>3. OnStack(n)' = {t[i] : i \in 1..Len(s) + 1}
    BY <1>2 DEF OnStack
  <1>4. \A i \in 1..Len(s) + 1 : i = 1 \/ (i - 1 \in 1..Len(s) /\ t[i] = s[i - 1])
    BY <1>1, <1>2
  <1>5. OnStack(n)' \subseteq {c} \cup OnStack(n)
    BY <1>2, <1>3, <1>4 DEF OnStack
  <1>6. \A i \in 1..Len(s) : i + 1 \in 1..Len(s) + 1
    BY <1>1
  <1>7. OnStack(n) \subseteq OnStack(n)'
    BY <1>2, <1>3, <1>6 DEF OnStack
  <1>8. c \in OnStack(n)'
    BY <1>1, <1>2, <1>3
  <1>. QED
    BY <1>5, <1>7, <1>8

\* The steps of mark_descendants_as_skipped, as sets of nodes: a node's children
\* take its place, a child is left alone, a child is skipped and pushed.
LEMMA SkipSteps ==
    ASSUME TypeOK, NEW n \in Nodes
    PROVE  /\ FailDAG(n) =>
                  /\ pc[n] = "fail_dag" /\ pc'[n] \in {"skip", "error"}
                  /\ OnStack(n)' = {n} /\ todo' = todo
           /\ SkipPop(n) =>
                  /\ pc[n] = "skip" /\ todo[n] = {}
                  /\ \/ OnStack(n) = {} /\ pc'[n] = "done" /\ todo' = todo
                     \/ /\ pc'[n] = "skip"
                        /\ \E m \in OnStack(n) :
                               /\ todo'[n] = Children(m)
                               /\ OnStack(n) = {m} \cup OnStack(n)'
           /\ SkipRead(n) =>
                  /\ pc[n] = "skip" /\ OnStack(n)' = OnStack(n)
                  /\ \E c \in First(todo[n]) :
                         \/ /\ node_status[c] \in Idle /\ pc'[n] = "skip_write"
                            /\ todo' = todo
                         \/ /\ node_status[c] \notin Idle /\ pc'[n] = "skip"
                            /\ todo'[n] = todo[n] \ {c}
           /\ SkipWrite(n) =>
                  /\ pc[n] = "skip_write" /\ pc'[n] \in {"skip", "error"}
                  /\ \E c \in First(todo[n]) :
                         /\ node_status' = [node_status EXCEPT ![c] = "skipped"]
                         /\ todo'[n] = todo[n] \ {c}
                         /\ OnStack(n)' = {c} \cup OnStack(n)
  <1>t. /\ pc \in [Nodes -> PCs] /\ todo \in [Nodes -> SUBSET Nodes]
        /\ stack \in [Nodes -> Seq(Nodes)]
    BY DEF TypeOK
  <1>1. ASSUME FailDAG(n)
        PROVE  /\ pc[n] = "fail_dag" /\ pc'[n] \in {"skip", "error"}
               /\ OnStack(n)' = {n} /\ todo' = todo
    <2>1. stack'[n] = <<n>>
      BY <1>1, <1>t DEF FailDAG
    <2>2. pc[n] = "fail_dag" /\ pc'[n] \in {"skip", "error"}
      BY <1>1, <1>t, CallMoves DEF FailDAG
    <2>3. OnStack(n)' = {n}
      BY <2>1, StackOfOne
    <2>. QED
      BY <1>1, <2>2, <2>3 DEF FailDAG
  <1>2. ASSUME SkipPop(n)
        PROVE  /\ pc[n] = "skip" /\ todo[n] = {}
               /\ \/ OnStack(n) = {} /\ pc'[n] = "done" /\ todo' = todo
                  \/ /\ pc'[n] = "skip"
                     /\ \E m \in OnStack(n) :
                            /\ todo'[n] = Children(m)
                            /\ OnStack(n) = {m} \cup OnStack(n)'
    <2>1. CASE stack[n] = <<>>
      <3>1. OnStack(n) = {}
        BY <2>1 DEF OnStack
      <3>. QED
        BY <1>2, <1>t, <2>1, <3>1 DEF SkipPop, Step
    <2>2. CASE stack[n] # <<>>
      <3>1. stack'[n] = Tail(stack[n]) /\ todo'[n] = Children(Head(stack[n]))
        BY <1>2, <1>t, <2>2 DEF SkipPop
      <3>2. OnStack(n) = {Head(stack[n])} \cup OnStack(n)'
        BY <2>2, <3>1, StackPopped
      <3>3. pc[n] = "skip" /\ pc'[n] = "skip" /\ todo[n] = {}
        BY <1>2, <1>t, <2>2 DEF SkipPop, Step
      <3>. QED
        BY <3>1, <3>2, <3>3
    <2>. QED
      BY <2>1, <2>2
  <1>3. SkipRead(n) =>
            /\ pc[n] = "skip" /\ OnStack(n)' = OnStack(n)
            /\ \E c \in First(todo[n]) :
                   \/ /\ node_status[c] \in Idle /\ pc'[n] = "skip_write"
                      /\ todo' = todo
                   \/ /\ node_status[c] \notin Idle /\ pc'[n] = "skip"
                      /\ todo'[n] = todo[n] \ {c}
    BY <1>t DEF SkipRead, Step, OnStack
  <1>4. ASSUME SkipWrite(n)
        PROVE  /\ pc[n] = "skip_write" /\ pc'[n] \in {"skip", "error"}
               /\ \E c \in First(todo[n]) :
                      /\ node_status' = [node_status EXCEPT ![c] = "skipped"]
                      /\ todo'[n] = todo[n] \ {c}
                      /\ OnStack(n)' = {c} \cup OnStack(n)
    <2>1. PICK c \in First(todo[n]) :
              /\ Call(n, "skip_write", "skip")
              /\ node_status' = [node_status EXCEPT ![c] = "skipped"]
              /\ todo' = [todo EXCEPT ![n] = @ \ {c}]
              /\ stack' = [stack EXCEPT ![n] = <<c>> \o @]
      BY <1>4 DEF SkipWrite, UpdateNode
    <2>2. c \in Nodes /\ stack'[n] = <<c>> \o stack[n] /\ todo'[n] = todo[n] \ {c}
      BY <1>t, <2>1, FirstIsMember
    <2>3. OnStack(n)' = {c} \cup OnStack(n)
      BY <2>2, StackPushed
    <2>4. pc[n] = "skip_write" /\ pc'[n] \in {"skip", "error"}
      BY <1>t, <2>1, CallMoves
    <2>. QED
      BY <2>1, <2>2, <2>3, <2>4
  <1>. QED
    BY <1>1, <1>2, <1>3, <1>4

\* A handler keeps what is said of what it has still to visit.
LEMMA OwnTodo ==
    ASSUME IInv, NEW n \in Nodes, HandlerStep(n)
    PROVE  TodoFacts(n)'
  <1>. USE DEF IInv
  <1>t. /\ pc \in [Nodes -> PCs] /\ todo \in [Nodes -> SUBSET Nodes]
    BY DEF TypeOK
  <1>f. TodoFacts(n)
    BY DEF TodoInv, TodoFacts
  <1>c. \A x : \A c, d \in Children(x) : ParentOf[c] = ParentOf[d]
    BY DEF Children
  <1>m. \A m \in Nodes : Doomed(m) => Doomed(m)'
    BY StepIsMonotone DEF Monotone, Next
  <1>s. OnStack(n) \subseteq Nodes
    BY StackMembers
  <1>1. CASE CompleteNode(n)
    BY <1>1, <1>f, <1>t, CallMoves DEF CompleteNode, TodoFacts, Visiting
  <1>2. CASE StartChildren(n)
    <2>1. \A x \in First(Children(n)) : Mode[x] \in {"parallel", "sequential", "limited"}
      BY DAGAssumption DEF First, Children
    <2>2. pc'[n] \in {"stats", "enqueue_batch", "create", "error"} /\ todo'[n] = Children(n)
      BY <1>2, <1>t, <2>1 DEF StartChildren, Step
    <2>. QED
      BY <1>c, <2>2 DEF TodoFacts, Visiting
  <1>3. CASE EnqueueBatch(n)
    BY <1>3, <1>f, <1>t, CallMoves DEF EnqueueBatch, TodoFacts, Visiting
  <1>4. CASE MarkReady(n)
    <2>1. PICK c, to : /\ Call(n, "mark_ready", to) /\ to \in {"stats", "mark_ready"}
                       /\ todo' = [todo EXCEPT ![n] = @ \ {c}]
      BY <1>4 DEF MarkReady
    <2>. QED
      BY <1>f, <1>t, <2>1, CallMoves DEF TodoFacts, Visiting
  <1>5. CASE CreateJob(n)
    BY <1>5, <1>f, <1>t, CallMoves DEF CreateJob, TodoFacts, Visiting
  <1>6. CASE MarkOne(n)
    <2>1. PICK c, to : /\ Call(n, "mark_one", to) /\ to \in {"stats", "create"}
                       /\ todo' = [todo EXCEPT ![n] = @ \ {c}]
      BY <1>6 DEF MarkOne
    <2>. QED
      BY <1>f, <1>t, <2>1, CallMoves DEF TodoFacts, Visiting
  <1>7. CASE ReadStats(n) \/ WriteVerdict(n) \/ GetExecution(n) \/ WriteRunning(n)
    <2>1. pc'[n] \in After \cup {"done", "error"} /\ todo' = todo
      BY <1>7, <1>t, CallMoves DEF ReadStats, WriteVerdict, GetExecution,
         WriteRunning, Step, Verdict, After
    <2>. QED
      BY <1>f, <2>1 DEF TodoFacts, After, Visiting
  <1>8. CASE FailNode(n)
    BY <1>8, <1>f, <1>t, CallMoves DEF FailNode, TodoFacts, Visiting
  <1>9. CASE FailDAG(n)
    <2>1. Doomed(n)'
      BY <1>9, <1>m, SkipSteps DEF Doomed, JobInv, Failing
    <2>. QED
      BY <1>9, <1>f, <2>1, SkipSteps DEF TodoFacts, Visiting
  <1>10. CASE SkipPop(n)
    <2>1. \A m \in OnStack(n) : Doomed(m)'
      BY <1>10, <1>f, <1>m, <1>s, SkipSteps DEF TodoFacts
    <2>2. CASE pc'[n] = "done" /\ todo' = todo
      BY <1>f, <2>2 DEF TodoFacts, Visiting
    <2>3. CASE pc'[n] = "skip" /\ \E m \in OnStack(n) : /\ todo'[n] = Children(m)
                                                       /\ OnStack(n) = {m} \cup OnStack(n)'
      BY <1>c, <1>s, <2>1, <2>3 DEF TodoFacts, Visiting, Children
    <2>. QED
      BY <1>10, <2>2, <2>3, SkipSteps
  <1>11. CASE SkipRead(n)
    <2>1. todo'[n] \subseteq todo[n] /\ pc'[n] \in {"skip", "skip_write"}
          /\ OnStack(n)' = OnStack(n) /\ pc[n] = "skip"
      BY <1>11, SkipSteps
    <2>. QED
      BY <1>f, <1>m, <1>s, <2>1 DEF TodoFacts, Visiting
  <1>12. CASE SkipWrite(n)
    <2>1. PICK c \in First(todo[n]) :
              /\ node_status' = [node_status EXCEPT ![c] = "skipped"]
              /\ todo'[n] = todo[n] \ {c}
              /\ OnStack(n)' = {c} \cup OnStack(n)
              /\ pc[n] = "skip_write" /\ pc'[n] \in {"skip", "error"}
      BY <1>12, SkipSteps
    <2>2. c \in Nodes
      BY <1>t, FirstIsMember
    <2>3. Doomed(c)'
      BY <2>1, <2>2 DEF Doomed, TypeOK
    <2>. QED
      BY <1>f, <1>m, <1>s, <2>1, <2>3 DEF TodoFacts, Visiting
  <1>. QED
    BY <1>1, <1>2, <1>3, <1>4, <1>5, <1>6, <1>7, <1>8, <1>9, <1>10, <1>11,
       <1>12 DEF HandlerStep

\* Handlers start children of their own node, and skip below doomed nodes.
LEMMA TodoStep == IInv /\ [Next]_vars => TodoInv'
  <1>. SUFFICES ASSUME IInv, [Next]_vars PROVE TodoInv'
    OBVIOUS
  <1>. USE DEF IInv
  <1>f. \A m \in Nodes : TodoFacts(m)
    BY DEF TodoInv, TodoFacts
  <1>m. \A m \in Nodes : Doomed(m) => Doomed(m)'
    BY StepIsMonotone DEF Monotone
  <1>s. \A m \in Nodes : OnStack(m) \subseteq Nodes
    BY StackMembers
  <1>o. ASSUME NEW m \in Nodes, pc'[m] = pc[m], todo'[m] = todo[m], stack'[m] = stack[m]
        PROVE  TodoFacts(m)'
    <2>1. OnStack(m)' = OnStack(m)
      BY <1>o DEF OnStack
    <2>. QED
      BY <1>f, <1>m, <1>o, <1>s, <2>1 DEF TodoFacts
  <1>q. (\A m \in Nodes : TodoFacts(m)') => TodoInv'
    BY DEF TodoInv, TodoFacts
  <1>1. ASSUME NEW n \in Nodes, HandlerStep(n) PROVE TodoInv'
    <2>1. \A m \in Nodes \ {n} : TodoFacts(m)'
      BY <1>1, <1>o, HandlerFrame DEF Moves
    <2>. QED
      BY <1>1, <1>q, <2>1, OwnTodo
  <1>2. ASSUME NEW n \in Nodes, JobSucceeds(n) \/ JobFails(n) PROVE TodoInv'
    <2>1. \A m \in Nodes \ {n} : TodoFacts(m)'
      BY <1>2, <1>o, ExecutorSteps
    <2>2. pc[n] = "none" /\ pc'[n] \in {"none", "complete_node", "fail_node"} /\ todo' = todo
      BY <1>2, ExecutorSteps DEF JobInv
    <2>3. TodoFacts(n)'
      BY <1>f, <2>2 DEF TodoFacts, Visiting
    <2>. QED
      BY <1>q, <2>1, <2>3
  <1>3. ASSUME NEW n \in Nodes, HandlerDies(n) PROVE TodoInv'
    <2>1. \A m \in Nodes \ {n} : TodoFacts(m)'
      BY <1>3, <1>o, ExecutorSteps
    <2>2. TodoFacts(n)'
      BY <1>3, <1>f, ExecutorSteps DEF TodoFacts, Visiting
    <2>. QED
      BY <1>q, <2>1, <2>2
  <1>4. CASE UNCHANGED vars
    BY <1>4, <1>o, <1>q DEF vars
  <1>. QED
    BY <1>1, <1>2, <1>3, <1>4, StepCases

\* What SkipInv says of one child: below a failed or skipped node it is skipped,
\* or some handler has it before it, or some handler ended early.
SkipFacts(c) ==
    /\ ParentOf[c] \in Nodes
    /\ node_status[ParentOf[c]] \in {"failed", "skipped"}
    /\ node_status[c] # "skipped"
    => \E n \in Nodes :
           \/ pc[n] = "error"
           \/ pc[n] = "fail_dag" /\ n = ParentOf[c]
           \/ /\ pc[n] \in {"skip", "skip_write"}
              /\ c \in todo[n] \/ ParentOf[c] \in OnStack(n)

\* A handler's step takes no child below a failed or skipped node out of sight.
LEMMA HandlerSkips ==
    ASSUME IInv, NEW n \in Nodes, HandlerStep(n), NEW c \in Nodes
    PROVE  SkipFacts(c)'
  <1>. USE DEF IInv
  <1>t. /\ pc \in [Nodes -> PCs] /\ todo \in [Nodes -> SUBSET Nodes]
        /\ node_status \in [Nodes -> Idle \cup AtWork \cup Settled]
    BY DEF TypeOK
  <1>w. Writes(n) /\ Moves(n) /\ Monotone
    BY HandlerWrites, HandlerFrame, StepIsMonotone DEF Next
  <1>a. SUFFICES ASSUME ParentOf[c] \in Nodes,
                        node_status'[ParentOf[c]] \in {"failed", "skipped"},
                        node_status'[c] # "skipped"
                 PROVE  \E h \in Nodes :
                            \/ pc'[h] = "error"
                            \/ pc'[h] = "fail_dag" /\ h = ParentOf[c]
                            \/ /\ pc'[h] \in {"skip", "skip_write"}
                               /\ c \in todo'[h] \/ ParentOf[c] \in OnStack(h)'
    BY DEF SkipFacts
  <1>1. CASE node_status[ParentOf[c]] \in {"failed", "skipped"}
    <2>1. node_status[c] # "skipped"
      BY <1>a, <1>w DEF Monotone
    <2>2. PICK h \in Nodes :
              \/ pc[h] = "error"
              \/ pc[h] = "fail_dag" /\ h = ParentOf[c]
              \/ /\ pc[h] \in {"skip", "skip_write"}
                 /\ c \in todo[h] \/ ParentOf[c] \in OnStack(h)
      BY <1>1, <1>a, <2>1 DEF SkipInv
    <2>3. CASE h # n
      <3>1. pc'[h] = pc[h] /\ todo'[h] = todo[h] /\ OnStack(h)' = OnStack(h)
        BY <2>3, HandlerFrame DEF Moves, OnStack
      <3>. QED
        BY <2>2, <3>1
    <2>4. CASE h = n
      <3>1. pc[n] \in {"fail_dag", "skip", "skip_write"}
        BY <1>w, <2>2, <2>4, PositionsDiffer DEF Moves
      <3>2. FailDAG(n) \/ SkipPop(n) \/ SkipRead(n) \/ SkipWrite(n)
        BY <3>1 DEF HandlerStep, CompleteNode, StartChildren, EnqueueBatch,
           MarkReady, CreateJob, MarkOne, ReadStats, WriteVerdict, GetExecution,
           WriteRunning, FailNode, Call, Step
      <3>3. CASE FailDAG(n)
        BY <2>2, <2>4, <3>3, SkipSteps
      <3>4. CASE SkipPop(n)
        <4>1. pc[n] = "skip" /\ todo[n] = {}
          BY <3>4, SkipSteps
        <4>2. ParentOf[c] \in OnStack(n)
          BY <2>2, <2>4, <4>1
        <4>. QED
          BY <3>4, <4>2, SkipSteps DEF Children
      <3>5. CASE SkipRead(n)
        <4>1. PICK d \in First(todo[n]) :
                  \/ pc'[n] = "skip_write" /\ todo' = todo
                  \/ /\ node_status[d] \notin Idle /\ pc'[n] = "skip"
                     /\ todo'[n] = todo[n] \ {d}
          BY <3>5, SkipSteps
        <4>2. pc[n] = "skip" /\ OnStack(n)' = OnStack(n)
          BY <3>5, SkipSteps
        <4>3. node_status[c] \in Idle
          <5>1. job[c] = "none"
            BY <1>1, <1>a, DoomedHasNoJobBelow DEF Doomed, NodeInv
          <5>. QED
            BY <1>t, <2>1, <5>1 DEF NodeInv, Settled
        <4>. QED
          BY <2>2, <2>4, <4>1, <4>2, <4>3
      <3>6. CASE SkipWrite(n)
        <4>1. PICK d \in First(todo[n]) :
                  /\ node_status' = [node_status EXCEPT ![d] = "skipped"]
                  /\ todo'[n] = todo[n] \ {d}
                  /\ OnStack(n)' = {d} \cup OnStack(n)
                  /\ pc[n] = "skip_write" /\ pc'[n] \in {"skip", "error"}
          BY <3>6, SkipSteps
        <4>2. c # d
          BY <1>a, <1>t, <4>1
        <4>. QED
          BY <2>2, <2>4, <4>1, <4>2
      <3>. QED
        BY <3>2, <3>3, <3>4, <3>5, <3>6
    <2>. QED
      BY <2>3, <2>4
  <1>2. CASE node_status[ParentOf[c]] \notin {"failed", "skipped"}
    <2>1. \/ pc[n] = "fail_node" /\ ParentOf[c] = n
          \/ pc[n] = "skip_write"
      BY <1>2, <1>a, <1>w DEF Writes
    <2>2. FailNode(n) \/ SkipWrite(n)
      BY <2>1 DEF HandlerStep, CompleteNode, StartChildren, EnqueueBatch,
         MarkReady, CreateJob, MarkOne, ReadStats, WriteVerdict, GetExecution,
         WriteRunning, FailDAG, SkipPop, SkipRead, Call, Step
    <2>3. CASE FailNode(n)
      <3>1. pc[n] = "fail_node" /\ pc'[n] \in {"fail_dag", "error"}
        BY <2>3, <1>t, CallMoves DEF FailNode
      <3>. QED
        BY <2>1, <3>1
    <2>4. CASE SkipWrite(n)
      <3>1. PICK d \in First(todo[n]) :
                /\ node_status' = [node_status EXCEPT ![d] = "skipped"]
                /\ OnStack(n)' = {d} \cup OnStack(n)
                /\ pc'[n] \in {"skip", "error"}
        BY <2>4, SkipSteps
      <3>2. ParentOf[c] = d
        BY <1>2, <1>a, <1>t, <3>1
      <3>. QED
        BY <3>1, <3>2
    <2>. QED
      BY <2>2, <2>3, <2>4
  <1>. QED
    BY <1>1, <1>2

\* What is below a failed or skipped node is skipped or in front of a handler.
LEMMA SkipStep == IInv /\ [Next]_vars => SkipInv'
  <1>. SUFFICES ASSUME IInv, [Next]_vars, NEW c \in Nodes PROVE SkipFacts(c)'
    BY DEF SkipInv, SkipFacts
  <1>. USE DEF IInv
  <1>f. SkipFacts(c)
    BY DEF SkipInv, SkipFacts
  <1>1. ASSUME NEW n \in Nodes, HandlerStep(n) PROVE SkipFacts(c)'
    BY <1>1, HandlerSkips
  <1>2. ASSUME NEW n \in Nodes,
               /\ UNCHANGED <<node_status, todo, stack>>
               /\ \A m \in Nodes \ {n} : pc'[m] = pc[m]
               /\ pc'[n] # pc[n] => pc[n] = "none" \/ pc'[n] = "error"
        PROVE  SkipFacts(c)'
    <2>1. \A m \in Nodes : OnStack(m)' = OnStack(m)
      BY <1>2 DEF OnStack
    <2>. QED
      BY <1>2, <1>f, <2>1 DEF SkipFacts
  <1>3. ASSUME NEW n \in Nodes, JobSucceeds(n) \/ JobFails(n) PROVE SkipFacts(c)'
    BY <1>2, <1>3, ExecutorSteps DEF JobInv
  <1>4. ASSUME NEW n \in Nodes, HandlerDies(n) PROVE SkipFacts(c)'
    BY <1>2, <1>4, ExecutorSteps DEF tables
  <1>5. CASE UNCHANGED vars
    <2>1. \A m \in Nodes : OnStack(m)' = OnStack(m)
      BY <1>5 DEF OnStack, vars
    <2>. QED
      BY <1>5, <1>f, <2>1 DEF SkipFacts, vars, tables
  <1>. QED
    BY <1>1, <1>3, <1>4, <1>5, StepCases

\* A verdict is decided on only when it is true, and the DAG is written only by
\* a handler that decided on a verdict, or whose job failed.
LEMMA HandlerVerdicts ==
    ASSUME IInv, NEW n \in Nodes, HandlerStep(n)
    PROVE  /\ pc'[n] = "write_completed" => \A m \in Nodes : job[m] = "succeeded"
           /\ pc'[n] = "write_failed" => \E m \in Nodes : Reported(m)
           /\ dag_status' = "completed" =>
                  dag_status = "completed" \/ pc[n] = "write_completed"
           /\ dag_status' = "failed" =>
                  dag_status = "failed" \/ pc[n] = "write_failed" \/ Reported(n)
  <1>. USE DEF IInv
  <1>t. /\ pc \in [Nodes -> PCs]
        /\ node_status \in [Nodes -> Idle \cup AtWork \cup Settled]
    BY DEF TypeOK
  <1>1. CASE ReadStats(n)
    <2>1. pc'[n] = Verdict /\ dag_status' = dag_status
      BY <1>1, <1>t DEF ReadStats, Step, tables
    <2>2. ASSUME Verdict = "write_completed"
          PROVE  \A m \in Nodes : job[m] = "succeeded"
      <3>1. \A m \in Nodes : node_status[m] \in {"completed", "skipped"}
        BY <2>2 DEF Verdict, Settled
      <3>2. \A m \in Nodes : job[m] # "failed"
        BY <3>1 DEF NodeInv
      <3>3. \A m \in Nodes : node_status[m] # "skipped"
        BY <3>2 DEF VerdictInv
      <3>. QED
        BY <3>1, <3>3 DEF NodeInv
    <2>3. Verdict = "write_failed" => \E m \in Nodes : Reported(m)
      BY DEF Verdict, NodeInv, Reported
    <2>. QED
      BY <2>1, <2>2, <2>3
  <1>2. CASE WriteVerdict(n)
    <2>1. \/ pc[n] = "write_completed" /\ dag_status' = "completed"
          \/ pc[n] = "write_failed" /\ dag_status' = "failed"
      BY <1>2 DEF WriteVerdict, Call, Step, UpdateDAG
    <2>2. pc'[n] \in {"done", "error"}
      BY <1>2, <1>t, CallMoves DEF WriteVerdict
    <2>. QED
      BY <2>1, <2>2
  <1>3. CASE FailDAG(n)
    <2>1. pc[n] = "fail_dag" /\ dag_status' = "failed" /\ pc'[n] \in {"skip", "error"}
      BY <1>3, <1>t, CallMoves DEF FailDAG, UpdateDAG
    <2>2. Reported(n)
      BY <2>1 DEF JobInv, Failing, Reported
    <2>. QED
      BY <2>1, <2>2
  <1>4. CASE WriteRunning(n)
    BY <1>4, <1>t, CallMoves DEF WriteRunning, UpdateDAG
  <1>5. CASE GetExecution(n)
    BY <1>5, <1>t DEF GetExecution, Step, tables
  <1>6. CASE pc'[n] \notin {"write_completed", "write_failed"} /\ dag_status' = dag_status
    BY <1>6
  <1>7. \/ ReadStats(n) \/ WriteVerdict(n) \/ FailDAG(n) \/ WriteRunning(n)
        \/ GetExecution(n) \/ dag_status' = dag_status
    BY DEF HandlerStep, CompleteNode, StartChildren, EnqueueBatch, MarkReady,
       CreateJob, MarkOne, FailNode, SkipPop, SkipRead, SkipWrite, UpdateNode,
       Enqueue, tables
  <1>8. \/ ReadStats(n) \/ WriteVerdict(n) \/ GetExecution(n)
        \/ pc'[n] \notin {"write_completed", "write_failed"}
    <2>1. \A x \in First(Children(n)) : Mode[x] \in {"parallel", "sequential", "limited"}
      BY DAGAssumption DEF First, Children
    <2>2. StartChildren(n) => pc'[n] \in {"stats", "enqueue_batch", "create", "error"}
      BY <1>t, <2>1 DEF StartChildren, Step
    <2>3. WriteRunning(n) => pc'[n] \in {"done", "error"}
      BY <1>t, CallMoves DEF WriteRunning
    <2>4. /\ CompleteNode(n) => pc'[n] \in {"children", "error"}
          /\ EnqueueBatch(n) => pc'[n] \in {"mark_ready", "error"}
          /\ CreateJob(n) => pc'[n] \in {"mark_one", "error"}
      <3>1. CompleteNode(n) => pc'[n] \in {"children", "error"}
        BY <1>t, CallMoves DEF CompleteNode
      <3>2. EnqueueBatch(n) => pc'[n] \in {"mark_ready", "error"}
        BY <1>t, CallMoves DEF EnqueueBatch
      <3>3. CreateJob(n) => pc'[n] \in {"mark_one", "error"}
        BY <1>t, CallMoves DEF CreateJob
      <3>. QED
        BY <3>1, <3>2, <3>3
    <2>5. MarkReady(n) => pc'[n] \in {"stats", "mark_ready", "error"}
      BY <1>t, CallMoves DEF MarkReady
    <2>6. MarkOne(n) => pc'[n] \in {"stats", "create", "error"}
      BY <1>t, CallMoves DEF MarkOne
    <2>7. /\ FailNode(n) => pc'[n] \in {"fail_dag", "error"}
          /\ FailDAG(n) \/ SkipWrite(n) => pc'[n] \in {"skip", "error"}
      <3>1. FailNode(n) => pc'[n] \in {"fail_dag", "error"}
        BY <1>t, CallMoves DEF FailNode
      <3>. QED
        BY <3>1, SkipSteps DEF TypeOK
    <2>8. SkipPop(n) \/ SkipRead(n) => pc'[n] \in {"skip", "done", "skip_write"}
      BY <1>t DEF SkipPop, SkipRead, Step
    <2>. QED
      BY <2>2, <2>3, <2>4, <2>5, <2>6, <2>7, <2>8 DEF HandlerStep
  <1>. QED
    BY <1>1, <1>2, <1>3, <1>4, <1>5, <1>6, <1>7, <1>8

\* Verdicts, written or decided on, stay true.
LEMMA VerdictStep == IInv /\ [Next]_vars => VerdictInv'
  <1>. SUFFICES ASSUME IInv, [Next]_vars PROVE VerdictInv'
    OBVIOUS
  <1>. USE DEF IInv
  <1>m. /\ (\A m \in Nodes : job[m] = "succeeded") => \A m \in Nodes : job'[m] = "succeeded"
        /\ (\E m \in Nodes : Reported(m)) => \E m \in Nodes : Reported(m)'
    BY StepIsMonotone DEF Monotone
  <1>1. ASSUME NEW n \in Nodes, HandlerStep(n) PROVE VerdictInv'
    <2>1. Moves(n) /\ Writes(n)
      BY <1>1, HandlerFrame, HandlerWrites
    <2>2. dag_status' = "completed" \/ (\E m \in Nodes : pc'[m] = "write_completed")
          => \A m \in Nodes : job[m] = "succeeded"
      BY <1>1, <2>1, HandlerVerdicts DEF Moves, VerdictInv
    <2>3. dag_status' = "failed" \/ (\E m \in Nodes : pc'[m] = "write_failed")
          => \E m \in Nodes : Reported(m)
      BY <1>1, <2>1, HandlerVerdicts DEF Moves, VerdictInv, Reported
    <2>4. (\E m \in Nodes : node_status'[m] = "skipped") => \E m \in Nodes : Reported(m)
      <3>1. pc[n] = "skip_write" => Reported(n)
        BY DEF JobInv, Failing, Reported
      <3>2. ASSUME NEW m \in Nodes, node_status'[m] = "skipped"
            PROVE  node_status[m] = "skipped" \/ Reported(n)
        BY <2>1, <3>1, <3>2 DEF Writes
      <3>. QED
        BY <3>2 DEF VerdictInv, Reported
    <2>. QED
      BY <1>m, <2>2, <2>3, <2>4 DEF VerdictInv, Reported
  <1>2. ASSUME NEW n \in Nodes, JobSucceeds(n) \/ JobFails(n) PROVE VerdictInv'
    <2>1. \A m \in Nodes : pc'[m] = pc[m] \/ pc'[m] \in {"complete_node", "fail_node"}
      BY <1>2, ExecutorSteps
    <2>. QED
      BY <1>2, <1>m, <2>1, ExecutorSteps DEF VerdictInv, Reported
  <1>3. ASSUME NEW n \in Nodes, HandlerDies(n) PROVE VerdictInv'
    <2>1. \A m \in Nodes : pc'[m] = pc[m] \/ pc'[m] = "error"
      BY <1>3, ExecutorSteps
    <2>. QED
      BY <1>3, <1>m, <2>1, ExecutorSteps DEF VerdictInv, Reported, tables
  <1>4. CASE UNCHANGED vars
    BY <1>4 DEF VerdictInv, vars, tables
  <1>. QED
    BY <1>1, <1>2, <1>3, <1>4, StepCases

\* A notification is sent when the children it announces have their jobs.
LEMMA AnnouncedStep == IInv /\ [Next]_vars => AnnouncedAreQueued'
  <1>. SUFFICES ASSUME IInv, [Next]_vars PROVE AnnouncedAreQueued'
    OBVIOUS
  <1>. USE DEF IInv
  <1>m. \A m \in Nodes : job[m] # "none" => job'[m] # "none"
    BY StepIsMonotone DEF Monotone
  <1>1. CASE announced' = announced
    BY <1>1, <1>m DEF AnnouncedAreQueued, TypeOK
  <1>2. ASSUME NEW n \in Nodes, MarkReady(n) PROVE AnnouncedAreQueued'
    <2>1. pc[n] = "mark_ready" /\ announced' \subseteq announced \cup Children(n)
      BY <1>2 DEF MarkReady, Call, Step
    <2>2. \A c \in Children(n) : c \in Nodes /\ job[c] # "none"
      BY <2>1 DEF ChildInv, Children
    <2>. QED
      BY <1>m, <2>1, <2>2 DEF AnnouncedAreQueued, TypeOK
  <1>3. announced' = announced \/ \E n \in Nodes : MarkReady(n)
    BY DEF Next, HandlerStep, JobSucceeds, JobFails, JobEnds, HandlerDies,
       CompleteNode, StartChildren, EnqueueBatch, CreateJob, MarkOne, ReadStats,
       WriteVerdict, GetExecution, WriteRunning, FailNode, FailDAG, SkipPop,
       SkipRead, SkipWrite, tables, vars
  <1>. QED
    BY <1>1, <1>2, <1>3

-----------------------------------------------------------------------------
(* Without the children's context: what becomes of the nodes.               *)

\* What RootInv says of one node.
RootFacts(n) ==
    /\ pc[n] # "none" => n \in Roots
    /\ n \in Roots /\ pc[n] \in {"none", "complete_node", "fail_node"} =>
           node_status[n] \in AtWork
    /\ pc[n] \in Completing \ {"complete_node"} => node_status[n] = "completed"
    /\ pc[n] = "fail_dag" => node_status[n] = "failed"
    /\ pc[n] \in Visiting => \A c \in todo[n] : node_status[c] \in Idle
    /\ pc[n] \in {"skip", "skip_write"} =>
           /\ \A c \in todo[n] : node_status[ParentOf[c]] \in {"failed", "skipped"}
           /\ \A m \in OnStack(n) : node_status[m] \in {"failed", "skipped"}
    /\ pc[n] = "skip_write" =>
           \A c \in First(todo[n]) : node_status[c] \in Idle \cup {"skipped"}

\* Every write of a node finds it where DAGLifecycle has it.
LawfulWrites(n) ==
    \A m \in Nodes :
        \/ node_status'[m] = node_status[m]
        \/ /\ m = n /\ m \in Roots /\ node_status[m] \in AtWork
           /\ \/ pc[n] = "complete_node" /\ node_status'[m] = "completed"
              \/ pc[n] = "fail_node" /\ node_status'[m] = "failed"
        \/ /\ m \in Children(n) /\ node_status[m] \in Idle
           /\ node_status[n] = "completed" /\ pc[n] \in Visiting
           /\ node_status'[m] = "ready"
        \/ /\ ParentOf[m] \in Nodes /\ node_status[m] \in Idle
           /\ node_status[ParentOf[m]] \in {"failed", "skipped"}
           /\ node_status'[m] = "skipped"

LEMMA RootWrites ==
    ASSUME IInv, ~LinkChildren, NEW n \in Nodes, HandlerStep(n)
    PROVE  LawfulWrites(n)
  <1>. USE DEF IInv
  <1>1. Writes(n) /\ Moves(n)
    BY HandlerWrites, HandlerFrame
  <1>2. RootFacts(n)
    BY DEF RootInv, RootFacts
  <1>3. n \in Roots
    BY <1>1, <1>2, PositionsDiffer DEF Moves, RootFacts
  <1>. SUFFICES ASSUME NEW m \in Nodes, node_status'[m] # node_status[m]
                PROVE  \/ /\ m = n /\ m \in Roots /\ node_status[m] \in AtWork
                          /\ \/ pc[n] = "complete_node" /\ node_status'[m] = "completed"
                             \/ pc[n] = "fail_node" /\ node_status'[m] = "failed"
                       \/ /\ m \in Children(n) /\ node_status[m] \in Idle
                          /\ node_status[n] = "completed" /\ pc[n] \in Visiting
                          /\ node_status'[m] = "ready"
                       \/ /\ ParentOf[m] \in Nodes /\ node_status[m] \in Idle
                          /\ node_status[ParentOf[m]] \in {"failed", "skipped"}
                          /\ node_status'[m] = "skipped"
    BY DEF LawfulWrites
  <1>4. CASE m = n /\ pc[n] \in {"complete_node", "fail_node"}
    BY <1>1, <1>2, <1>3, <1>4 DEF Writes, RootFacts
  <1>5. CASE /\ m \in Children(n) /\ m \in First(todo[n])
             /\ pc[n] \in {"mark_ready", "mark_one"} /\ node_status'[m] = "ready"
    BY <1>2, <1>5, FirstIsMember DEF RootFacts, Visiting, Completing
  <1>6. CASE /\ pc[n] = "skip_write" /\ m \in First(todo[n])
             /\ ParentOf[m] \in Nodes /\ node_status'[m] = "skipped"
    BY <1>2, <1>6, FirstIsMember DEF RootFacts
  <1>. QED
    BY <1>1, <1>4, <1>5, <1>6 DEF Writes

\* A handler leaves alone what is said of the nodes of other handlers.
LEMMA OtherRoots ==
    ASSUME IInv, ~LinkChildren, NEW n \in Nodes, HandlerStep(n), NEW m \in Nodes \ {n}
    PROVE  RootFacts(m)'
  <1>. USE DEF IInv
  <1>1. LawfulWrites(n) /\ RootFacts(m)
    BY RootWrites DEF RootInv, RootFacts
  <1>2. pc'[m] = pc[m] /\ todo'[m] = todo[m] /\ OnStack(m)' = OnStack(m)
        /\ First(todo[m])' = First(todo[m])
    BY HandlerFrame DEF Moves, OnStack, First
  <1>3. todo[m] \subseteq Nodes /\ OnStack(m) \subseteq Nodes
        /\ First(todo[m]) \subseteq todo[m]
    BY StackMembers, FirstIsMember DEF TypeOK
  <1>r. m \in Roots => node_status'[m] = node_status[m]
    BY <1>1, DAGAssumption DEF LawfulWrites, Roots, Children
  <1>d. \A x \in Nodes : node_status[x] \in {"failed", "skipped"}
                         => node_status'[x] \in {"failed", "skipped"}
    BY <1>1 DEF LawfulWrites, AtWork, Idle
  <1>4. ASSUME pc[m] \in Visiting, NEW c \in todo[m] PROVE node_status'[c] \in Idle
    <2>1. c \in Nodes /\ ParentOf[c] = m /\ node_status[c] \in Idle
      BY <1>1, <1>3, <1>4 DEF RootFacts, TodoInv, Children
    <2>2. node_status[m] = "completed"
      BY <1>1, <1>4 DEF RootFacts, Visiting, Completing
    <2>. QED
      BY <1>1, <2>1, <2>2 DEF LawfulWrites, Children, Idle, AtWork
  <1>5. ASSUME pc[m] = "skip_write", NEW c \in First(todo[m])
        PROVE  node_status'[c] \in Idle \cup {"skipped"}
    <2>1. /\ c \in Nodes /\ node_status[c] \in Idle \cup {"skipped"}
          /\ node_status[ParentOf[c]] \in {"failed", "skipped"}
      BY <1>1, <1>3, <1>5 DEF RootFacts
    <2>. QED
      BY <1>1, <2>1 DEF LawfulWrites, Children, Idle, AtWork
  <1>6. \A c \in todo[m] : pc[m] \in {"skip", "skip_write"} => ParentOf[c] \in Nodes
    BY DEF TodoInv
  <1>. QED
    BY <1>1, <1>2, <1>3, <1>r, <1>d, <1>4, <1>5, <1>6 DEF RootFacts, Completing, Failing

\* A child without a job, of a node whose job succeeded, waits.
LEMMA JoblessWait ==
    ASSUME IInv, NEW n \in Nodes, job[n] = "succeeded", NEW c \in Children(n),
           job[c] = "none"
    PROVE  node_status[c] \in Idle
  <1>1. c \in Nodes /\ ParentOf[c] = n
    BY DEF Children
  <1>2. ~Doomed(n)
    BY DEF IInv, Doomed, NodeInv
  <1>. QED
    BY <1>1, <1>2 DEF IInv, TypeOK, NodeInv, Settled

\* A root's handler keeps what is said of its node.
LEMMA OwnRoot ==
    ASSUME IInv, ~LinkChildren, NEW n \in Nodes, HandlerStep(n)
    PROVE  RootFacts(n)'
  <1>. USE DEF IInv
  <1>t. /\ pc \in [Nodes -> PCs] /\ todo \in [Nodes -> SUBSET Nodes]
        /\ node_status \in [Nodes -> Idle \cup AtWork \cup Settled]
    BY DEF TypeOK
  <1>f. RootFacts(n) /\ LawfulWrites(n) /\ Moves(n)
    BY RootWrites, HandlerFrame DEF RootInv, RootFacts
  <1>r. n \in Roots /\ (pc'[n] # "none" => n \in Roots) /\ pc'[n] # "none"
        /\ pc'[n] \notin {"complete_node", "fail_node"}
    BY <1>f, PositionsDiffer DEF Moves, RootFacts, Completing, Failing
  <1>s. OnStack(n) \subseteq Nodes
    BY StackMembers
  <1>d. \A x \in Nodes : node_status[x] \in {"failed", "skipped"}
                         => node_status'[x] \in {"failed", "skipped"}
    BY <1>f DEF LawfulWrites, AtWork, Idle
  <1>e. ASSUME pc'[n] \in {"error", "done"} PROVE RootFacts(n)'
    BY <1>e, <1>r DEF RootFacts, Completing, Visiting
  <1>j. pc[n] \in Completing => job[n] = "succeeded"
    BY DEF JobInv
  <1>k. ASSUME pc[n] \in Completing \ {"complete_node"} PROVE node_status'[n] = "completed"
    BY <1>f, <1>k, <1>r, DAGAssumption
       DEF RootFacts, LawfulWrites, Children, Roots, AtWork
  <1>1. CASE CompleteNode(n)
    <2>1. pc'[n] \in {"children", "error"} /\ node_status'[n] = "completed"
      BY <1>1, <1>t, CallMoves DEF CompleteNode, UpdateNode
    <2>. QED
      BY <1>e, <1>r, <2>1 DEF RootFacts, Completing, Visiting
  <1>2. CASE StartChildren(n)
    <2>1. \A x \in First(Children(n)) : Mode[x] \in {"parallel", "sequential", "limited"}
      BY DAGAssumption DEF First, Children
    <2>2. /\ pc'[n] \in {"stats", "enqueue_batch", "create", "error"}
          /\ todo'[n] = Children(n) /\ pc[n] = "children" /\ node_status' = node_status
      BY <1>2, <1>t, <2>1 DEF StartChildren, Step, tables
    <2>3. \A c \in Children(n) : node_status[c] \in Idle
      BY <1>j, <2>2, JoblessWait DEF ChildInv, Before, Completing
    <2>. QED
      BY <1>e, <1>k, <1>r, <2>2, <2>3 DEF RootFacts, Completing, Visiting
  <1>3. CASE EnqueueBatch(n)
    <2>1. /\ pc[n] = "enqueue_batch" /\ pc'[n] \in {"mark_ready", "error"}
          /\ todo' = todo /\ node_status' = node_status
      BY <1>3, <1>t, CallMoves DEF EnqueueBatch, Enqueue
    <2>2. \A c \in todo[n] : node_status[c] \in Idle
      BY <1>j, <2>1, JoblessWait DEF ChildInv, TodoInv, Before, Completing
    <2>. QED
      BY <1>e, <1>k, <1>r, <2>1, <2>2 DEF RootFacts, Completing, Visiting
  <1>4. CASE MarkReady(n) \/ MarkOne(n)
    <2>1. PICK c \in First(todo[n]) :
              /\ pc[n] \in {"mark_ready", "mark_one"} /\ UpdateNode(c, "ready")
              /\ todo' = [todo EXCEPT ![n] = @ \ {c}]
      BY <1>4 DEF MarkReady, MarkOne, Call, Step
    <2>2. pc'[n] \in {"mark_ready", "create", "stats", "error"}
      <3>1. MarkReady(n) => pc'[n] \in {"mark_ready", "stats", "error"}
        BY <1>t, CallMoves DEF MarkReady
      <3>2. MarkOne(n) => pc'[n] \in {"create", "stats", "error"}
        BY <1>t, CallMoves DEF MarkOne
      <3>. QED
        BY <1>4, <3>1, <3>2
    <2>3. \A d \in todo'[n] : node_status'[d] \in Idle
      BY <1>f, <1>t, <2>1 DEF RootFacts, Visiting, UpdateNode
    <2>. QED
      BY <1>e, <1>k, <1>r, <2>1, <2>2, <2>3 DEF RootFacts, Completing, Visiting
  <1>5. CASE CreateJob(n)
    <2>1. /\ pc[n] = "create" /\ pc'[n] \in {"mark_one", "error"}
          /\ todo' = todo /\ node_status' = node_status
      BY <1>5, <1>t, CallMoves DEF CreateJob, Enqueue
    <2>. QED
      BY <1>e, <1>f, <1>k, <1>r, <2>1 DEF RootFacts, Completing, Visiting
  <1>6. CASE ReadStats(n) \/ WriteVerdict(n) \/ GetExecution(n) \/ WriteRunning(n)
    <2>1. pc[n] \in After /\ pc'[n] \in After \cup {"done", "error"}
      BY <1>6, <1>t, CallMoves DEF ReadStats, WriteVerdict, GetExecution,
         WriteRunning, Step, Verdict, After
    <2>. QED
      BY <1>e, <1>k, <1>r, <2>1 DEF RootFacts, Completing, Visiting, After
  <1>7. CASE FailNode(n)
    <2>1. pc'[n] \in {"fail_dag", "error"} /\ node_status'[n] = "failed"
      BY <1>7, <1>t, CallMoves DEF FailNode, UpdateNode
    <2>. QED
      BY <1>e, <1>r, <2>1 DEF RootFacts, Completing, Visiting
  <1>8. CASE FailDAG(n)
    <2>1. /\ pc[n] = "fail_dag" /\ pc'[n] \in {"skip", "error"}
          /\ OnStack(n)' = {n} /\ todo' = todo
      BY <1>8, SkipSteps DEF TypeOK
    <2>2. todo[n] = {} /\ node_status'[n] \in {"failed", "skipped"}
      BY <1>d, <1>f, <2>1 DEF TodoInv, RootFacts
    <2>. QED
      BY <1>e, <1>r, <2>1, <2>2 DEF RootFacts, Completing, Visiting
  <1>9. CASE SkipPop(n)
    <2>1. \A m \in OnStack(n) : node_status'[m] \in {"failed", "skipped"}
      BY <1>9, <1>d, <1>f, <1>s, SkipSteps DEF RootFacts
    <2>2. CASE pc'[n] = "skip" /\ \E m \in OnStack(n) : /\ todo'[n] = Children(m)
                                                       /\ OnStack(n) = {m} \cup OnStack(n)'
      BY <1>r, <2>1, <2>2 DEF RootFacts, Completing, Visiting, Children
    <2>. QED
      BY <1>9, <1>e, <2>2, SkipSteps
  <1>10. CASE SkipRead(n)
    <2>1. PICK c \in First(todo[n]) :
              \/ node_status[c] \in Idle /\ pc'[n] = "skip_write" /\ todo' = todo
              \/ pc'[n] = "skip" /\ todo'[n] = todo[n] \ {c}
      BY <1>10, SkipSteps
    <2>2. /\ pc[n] = "skip" /\ OnStack(n)' = OnStack(n) /\ node_status' = node_status
      BY <1>10, SkipSteps DEF SkipRead, tables
    <2>3. \A d \in First(todo[n]) : d = c
      BY <1>t, FirstIsUnique DEF TodoInv
    <2>4. pc'[n] = "skip_write" =>
              \A d \in First(todo[n])' : node_status[d] \in Idle
      BY <2>1, <2>3 DEF First
    <2>5. todo'[n] \subseteq todo[n]
      BY <2>1
    <2>. QED
      BY <1>f, <1>r, <2>1, <2>2, <2>4, <2>5 DEF RootFacts, Completing, Visiting
  <1>11. CASE SkipWrite(n)
    <2>1. PICK c \in First(todo[n]) :
              /\ node_status' = [node_status EXCEPT ![c] = "skipped"]
              /\ todo'[n] = todo[n] \ {c}
              /\ OnStack(n)' = {c} \cup OnStack(n)
              /\ pc[n] = "skip_write" /\ pc'[n] \in {"skip", "error"}
      BY <1>11, SkipSteps
    <2>2. node_status'[c] = "skipped"
      BY <1>t, <2>1, FirstIsMember
    <2>3. \A d \in todo[n] : ParentOf[d] \in Nodes
      BY <2>1 DEF TodoInv
    <2>4. \A d \in todo'[n] : node_status'[ParentOf[d]] \in {"failed", "skipped"}
      BY <1>d, <1>f, <2>1, <2>3 DEF RootFacts
    <2>5. \A m \in OnStack(n)' : node_status'[m] \in {"failed", "skipped"}
      BY <1>d, <1>f, <1>s, <2>1, <2>2 DEF RootFacts
    <2>. QED
      BY <1>e, <1>r, <2>1, <2>4, <2>5 DEF RootFacts, Completing, Visiting
  <1>. QED
    BY <1>1, <1>2, <1>3, <1>4, <1>5, <1>6, <1>7, <1>8, <1>9, <1>10, <1>11
       DEF HandlerStep

\* Without the children's context only the roots' handlers run, each over nodes
\* nobody else writes.
LEMMA RootStep == IInv /\ [Next]_vars => RootInv'
  <1>. SUFFICES ASSUME IInv, [Next]_vars, ~LinkChildren PROVE RootInv'
    BY DEF RootInv
  <1>. USE DEF IInv
  <1>f. \A m \in Nodes : RootFacts(m)
    BY DEF RootInv, RootFacts
  <1>q. (\A m \in Nodes : RootFacts(m)') => RootInv'
    BY DEF RootInv, RootFacts
  <1>s. ASSUME NEW m \in Nodes, pc'[m] = pc[m],
               UNCHANGED <<node_status, todo, stack>>
        PROVE  RootFacts(m)'
    <2>1. OnStack(m)' = OnStack(m) /\ First(todo[m])' = First(todo[m])
      BY <1>s DEF OnStack, First
    <2>. QED
      BY <1>f, <1>s, <2>1 DEF RootFacts
  <1>1. ASSUME NEW n \in Nodes, HandlerStep(n) PROVE RootInv'
    BY <1>1, <1>q, OtherRoots, OwnRoot
  <1>2. ASSUME NEW n \in Nodes, JobSucceeds(n) \/ JobFails(n) PROVE RootInv'
    <2>1. /\ \A m \in Nodes \ {n} : pc'[m] = pc[m]
          /\ UNCHANGED <<node_status, todo, stack>>
          /\ pc[n] = "none" /\ (pc'[n] # pc[n] => HasContext(n))
          /\ pc'[n] = pc[n] \/ pc'[n] \in {"complete_node", "fail_node"}
      BY <1>2, ExecutorSteps DEF JobInv
    <2>2. RootFacts(n)'
      BY <1>f, <2>1 DEF RootFacts, HasContext, Completing, Visiting
    <2>. QED
      BY <1>q, <1>s, <2>1, <2>2
  <1>3. ASSUME NEW n \in Nodes, HandlerDies(n) PROVE RootInv'
    <2>1. /\ \A m \in Nodes \ {n} : pc'[m] = pc[m]
          /\ UNCHANGED <<node_status, todo, stack>>
          /\ pc[n] \in Completing \cup Failing /\ pc'[n] = "error"
      BY <1>3, ExecutorSteps DEF tables
    <2>2. RootFacts(n)'
      BY <1>f, <2>1, PositionsDiffer DEF RootFacts, Completing, Visiting
    <2>. QED
      BY <1>q, <1>s, <2>1, <2>2
  <1>4. CASE UNCHANGED vars
    BY <1>4, <1>q, <1>s DEF vars, tables
  <1>. QED
    BY <1>1, <1>2, <1>3, <1>4, StepCases

-----------------------------------------------------------------------------
(* The theorems.                                                            *)

\* As the API service creates it, a DAG execution satisfies the invariant.
LEMMA InitInvariant == Init => IInv
  <1>. SUFFICES ASSUME Init PROVE IInv
    OBVIOUS
  <1>1. TypeOK
    BY DAGAssumption DEF Init, TypeOK, PCs, Roots, Children, Idle, AtWork
  <1>2. \A n \in Nodes : /\ pc[n] = "none" /\ todo[n] = {} /\ stack[n] = <<>>
                         /\ job[n] \in {"none", "queued"}
                         /\ job[n] # "none" <=> n \in Roots
                         /\ node_status[n] \in AtWork <=> n \in Roots
                         /\ node_status[n] \in Idle \cup AtWork
    BY DAGAssumption DEF Init, Roots, Children, Idle, AtWork
  <1>3. \A n \in Nodes : OnStack(n) = {}
    BY <1>2 DEF OnStack
  <1>4. \A n \in Nodes : node_status[n] \notin Settled
    BY <1>2 DEF Idle, AtWork, Settled
  <1>5. JobInv
    BY <1>2, PositionsDiffer DEF JobInv
  <1>6. NodeInv
    BY <1>2, <1>4 DEF NodeInv, Settled
  <1>7. ChildInv
    <2>1. \A n \in Nodes : \A c \in Children(n) : c \in Nodes /\ c \notin Roots
      BY DAGAssumption DEF Children, Roots
    <2>. QED
      BY <1>2, <2>1 DEF ChildInv, Before, Visiting, After
  <1>8. TodoInv
    BY <1>2, <1>3 DEF TodoInv, Visiting
  <1>9. SkipInv
    BY <1>4 DEF SkipInv, Settled
  <1>10. VerdictInv
    BY <1>2, <1>4 DEF Init, VerdictInv, Settled
  <1>11. RootInv
    BY <1>2, <1>3, PositionsDiffer DEF RootInv, Visiting, Completing, Failing
  <1>12. AnnouncedAreQueued
    BY DEF Init, AnnouncedAreQueued
  <1>. QED
    BY <1>1, <1>5, <1>6, <1>7, <1>8, <1>9, <1>10, <1>11, <1>12 DEF IInv

\* The inductive invariant: at every moment the jobs, the nodes, the DAG and
\* what every handler has still to do agree, however the handlers interleave
\* and wherever they end early.
THEOREM DagInvariance == Spec => []IInv
  <1>1. IInv /\ [Next]_vars => TypeOK'
    BY TypeStep DEF IInv
  <1>2. IInv /\ [Next]_vars => IInv'
    BY <1>1, JobStep, NodeStep, ChildStep, TodoStep, SkipStep, VerdictStep,
       RootStep, AnnouncedStep DEF IInv
  <1>. QED
    BY <1>2, InitInvariant, PTL DEF Spec

\* VerdictIsTrue: a DAG is reported completed only if every job of it succeeded,
\* and failed only if one failed, however handle_job_completion and
\* handle_job_failure of different nodes interleave.
THEOREM VerdictIsTrueHolds == Spec => []VerdictIsTrue
  <1>1. IInv => VerdictIsTrue
    BY DEF IInv, VerdictInv, VerdictIsTrue
  <1>. QED
    BY <1>1, DagInvariance, PTL

\* What becomes of the DAG's status, and when running is about to be written.
LEMMA DagWrites ==
    ASSUME TypeOK, [Next]_vars
    PROVE  /\ \/ dag_status' = dag_status
              \/ \E n \in Nodes : HandlerStep(n) /\ dag_status' \in {"completed", "failed"}
              \/ \E n \in Nodes : pc[n] = "write_running" /\ dag_status' = "running"
           /\ \A n \in Nodes : pc'[n] = "write_running" =>
                  pc[n] = "write_running" \/ dag_status = "pending"
  <1>t. pc \in [Nodes -> PCs]
    BY DEF TypeOK
  <1>1. ASSUME NEW n \in Nodes, HandlerStep(n)
        PROVE  /\ \/ dag_status' = dag_status
                  \/ dag_status' \in {"completed", "failed"}
                  \/ pc[n] = "write_running" /\ dag_status' = "running"
               /\ pc'[n] = "write_running" => pc[n] = "write_running" \/ dag_status = "pending"
    <2>1. CASE CompleteNode(n) \/ EnqueueBatch(n) \/ CreateJob(n)
      <3>1. CASE CompleteNode(n)
        BY <3>1, <1>t, CallMoves DEF CompleteNode, UpdateNode
      <3>2. CASE EnqueueBatch(n)
        BY <3>2, <1>t, CallMoves DEF EnqueueBatch, Enqueue
      <3>3. CASE CreateJob(n)
        BY <3>3, <1>t, CallMoves DEF CreateJob, Enqueue
      <3>. QED
        BY <2>1, <3>1, <3>2, <3>3
    <2>2. CASE StartChildren(n)
      <3>1. \A x \in First(Children(n)) : Mode[x] \in {"parallel", "sequential", "limited"}
        BY DAGAssumption DEF First, Children
      <3>. QED
        BY <2>2, <1>t, <3>1 DEF StartChildren, Step, tables
    <2>3. CASE MarkReady(n)
      <3>1. PICK to \in {"stats", "mark_ready"} : Call(n, "mark_ready", to)
        BY <2>3 DEF MarkReady
      <3>. QED
        BY <2>3, <1>t, <3>1, CallMoves DEF MarkReady, UpdateNode
    <2>4. CASE MarkOne(n)
      <3>1. PICK to \in {"stats", "create"} : Call(n, "mark_one", to)
        BY <2>4 DEF MarkOne
      <3>. QED
        BY <2>4, <1>t, <3>1, CallMoves DEF MarkOne, UpdateNode
    <2>5. CASE ReadStats(n)
      BY <2>5, <1>t DEF ReadStats, Step, Verdict, tables
    <2>6. CASE WriteVerdict(n) \/ WriteRunning(n)
      <3>1. CASE WriteVerdict(n)
        BY <3>1, <1>t, CallMoves DEF WriteVerdict, UpdateDAG
      <3>2. CASE WriteRunning(n)
        BY <3>2, <1>t, CallMoves DEF WriteRunning, UpdateDAG
      <3>. QED
        BY <2>6, <3>1, <3>2
    <2>7. CASE GetExecution(n)
      BY <2>7, <1>t DEF GetExecution, Step, tables
    <2>8. CASE FailNode(n) \/ FailDAG(n)
      <3>1. CASE FailNode(n)
        BY <3>1, <1>t, CallMoves DEF FailNode, UpdateNode
      <3>2. CASE FailDAG(n)
        BY <3>2, <1>t, CallMoves DEF FailDAG, UpdateDAG
      <3>. QED
        BY <2>8, <3>1, <3>2
    <2>9. CASE SkipPop(n) \/ SkipRead(n)
      BY <2>9, <1>t DEF SkipPop, SkipRead, Step, tables
    <2>10. CASE SkipWrite(n)
      <3>1. Call(n, "skip_write", "skip") /\ dag_status' = dag_status
        BY <2>10 DEF SkipWrite, UpdateNode
      <3>. QED
        BY <1>t, <3>1, CallMoves
    <2>. QED
      BY <1>1, <2>1, <2>2, <2>3, <2>4, <2>5, <2>6, <2>7, <2>8, <2>9, <2>10 DEF HandlerStep
  <1>2. ASSUME NEW n \in Nodes, HandlerStep(n) PROVE \A m \in Nodes \ {n} : pc'[m] = pc[m]
    BY <1>2, HandlerFrame DEF Moves
  <1>3. ASSUME NEW n \in Nodes, JobSucceeds(n) \/ JobFails(n) \/ HandlerDies(n)
        PROVE  /\ dag_status' = dag_status
               /\ \A m \in Nodes : pc'[m] = "write_running" => pc[m] = "write_running"
    BY <1>3, ExecutorSteps DEF tables
  <1>4. CASE UNCHANGED vars
    BY <1>4 DEF vars, tables
  <1>. QED
    BY <1>1, <1>2, <1>3, <1>4, StepCases

\* VerdictsAgree: two handlers never write different verdicts, for completed needs
\* every job to have succeeded and failed needs one that did not.
THEOREM VerdictsAgreeHolds == Spec => VerdictsAgree
  <1>1. ASSUME IInv, [Next]_vars
        PROVE  VerdictStands \/ (dag_status' = "running" /\ \E n \in Nodes : pc[n] = "write_running")
    <2>. USE DEF IInv
    <2>1. SUFFICES ASSUME NEW n \in Nodes, HandlerStep(n),
                          dag_status \in {"completed", "failed"},
                          dag_status' \in {"completed", "failed"}
                   PROVE  dag_status' = dag_status
      BY <1>1, DagWrites DEF VerdictStands
    <2>2. CASE dag_status = "completed"
      <3>1. \A m \in Nodes : job[m] = "succeeded"
        BY <1>1, <2>2 DEF VerdictInv
      <3>2. pc[n] # "write_failed" /\ ~Reported(n)
        BY <1>1, <3>1 DEF VerdictInv, Reported
      <3>. QED
        BY <1>1, <2>1, <2>2, <3>2, HandlerVerdicts
    <2>3. CASE dag_status = "failed"
      <3>1. \E m \in Nodes : job[m] = "failed"
        BY <1>1, <2>3 DEF VerdictInv
      <3>2. pc[n] # "write_completed"
        BY <1>1, <3>1 DEF VerdictInv
      <3>. QED
        BY <1>1, <2>1, <2>3, <3>2, HandlerVerdicts
    <2>. QED
      BY <2>1, <2>2, <2>3
  <1>. QED
    BY <1>1, DagInvariance, PTL DEF Spec, VerdictsAgree

\* VerdictIsFinal: a DAG that was created as running keeps its verdict. Nobody sees
\* it pending, so nobody writes running over what the other handlers have decided.
THEOREM VerdictIsFinalIfRunning == dag_status = "running" /\ Spec => VerdictIsFinal
  <1>. DEFINE Seen == dag_status # "pending" /\ \A n \in Nodes : pc[n] # "write_running"
  <1>1. Init /\ dag_status = "running" => Seen
    BY DEF Init
  <1>2. IInv /\ Seen /\ [Next]_vars => Seen'
    BY DagWrites DEF IInv
  <1>3. Seen /\ (VerdictStands \/ (dag_status' = "running" /\ \E n \in Nodes : pc[n] = "write_running"))
        => VerdictStands
    OBVIOUS
  <1>. HIDE DEF Seen
  <1>. QED
    BY <1>1, <1>2, <1>3, VerdictsAgreeHolds, DagInvariance, PTL
       DEF Spec, VerdictsAgree, VerdictIsFinal

\* JobsFollowParents: no job is enqueued before its parent's job succeeded, and
\* no node with a job is skipped.
THEOREM JobsFollowParentsHolds == Spec => []JobsFollowParents
  <1>1. IInv => JobsFollowParents
    BY DEF IInv, JobInv, NodeInv, JobsFollowParents
  <1>. QED
    BY <1>1, DagInvariance, PTL

\* ChildrenStartedOrLost: the children of a completed node have jobs and are at
\* work, unless its handler is on the way there or ended early.
THEOREM ChildrenStartedOrLostHolds == Spec => []ChildrenStartedOrLost
  <1>1. ASSUME IInv, NEW n \in Nodes, node_status[n] = "completed",
               pc[n] \notin {"children", "enqueue_batch", "mark_ready", "create",
                             "mark_one", "error"}
        PROVE  \A c \in Children(n) : job[c] # "none" /\ node_status[c] \notin Idle
    <2>1. job[n] = "succeeded" /\ pc[n] \notin {"none", "complete_node"}
      BY <1>1 DEF IInv, NodeInv
    <2>2. pc[n] \notin Failing
      BY <1>1, <2>1 DEF IInv, JobInv
    <2>3. pc[n] \in After \cup {"done"}
      BY <1>1, <2>1, <2>2 DEF IInv, TypeOK, PCs, Completing, After
    <2>. QED
      BY <1>1, <2>1, <2>3 DEF IInv, ChildInv
  <1>2. IInv => ChildrenStartedOrLost
    BY <1>1 DEF ChildrenStartedOrLost
  <1>. QED
    BY <1>2, DagInvariance, PTL

\* SkippedOrLost: a failure reaches every descendant, unless a failure handler is
\* still at it or ended early.
THEOREM SkippedOrLostHolds == Spec => []SkippedOrLost
  <1>1. IInv => SkippedOrLost
    BY DEF IInv, SkipInv, SkippedOrLost, Failing
  <1>. QED
    BY <1>1, DagInvariance, PTL

\* AnnouncedAreQueued: a ReadyNotification never overtakes the jobs it announces.
THEOREM AnnouncedAreQueuedHolds == Spec => []AnnouncedAreQueued
  <1>1. IInv => AnnouncedAreQueued
    BY DEF IInv
  <1>. QED
    BY <1>1, DagInvariance, PTL

\* Without links no job is ever created below the roots' children: only a handler
\* inserts rows, and the nodes below the roots have none.
THEOREM TwoGenerationsHolds == Spec => []TwoGenerations
<1>1. IInv => TwoGenerations
  <2> SUFFICES ASSUME IInv, ~LinkChildren, NEW c \in Nodes \ Roots, job[c] # "none",
                      ParentOf[c] \notin Roots
               PROVE  FALSE
    BY DEF TwoGenerations
  <2>1. ParentOf[c] \in Nodes
    BY DAGAssumption DEF Roots, Children
  <2>2. pc[ParentOf[c]] = "none"
    BY <2>1 DEF IInv, RootInv
  <2>3. c \in Children(ParentOf[c])
    BY DEF Children
  <2> QED
    BY <2>1, <2>2, <2>3 DEF IInv, ChildInv, Before
<1> QED
  BY <1>1, DagInvariance, PTL

\* ImplementsLifecycle: with the rows enqueue_job and enqueue_jobs_batch write,
\* every write of a node, by any handler, is one DAGLifecycle allows.
THEOREM DagLifecycleImplemented == ~LinkChildren => (Spec => ImplementsLifecycle)
  <1>. SUFFICES ASSUME ~LinkChildren PROVE Spec => ImplementsLifecycle
    OBVIOUS
  <1>1. Init => Lifecycle!Init
    BY DAGAssumption DEF Init, Lifecycle!Init, Lifecycle!Idle, Lifecycle!AtWork
  <1>2. IInv /\ [Next]_vars => [Lifecycle!Next]_node_status
    <2>. SUFFICES ASSUME IInv, [Next]_vars, node_status' # node_status
                  PROVE  Lifecycle!Next
      OBVIOUS
    <2>1. PICK n \in Nodes : HandlerStep(n)
      BY StepCases, ExecutorSteps DEF IInv, vars, tables
    <2>2. LawfulWrites(n)
      BY <2>1, RootWrites
    <2>3. PICK m, s : m \in Nodes /\ node_status' = [node_status EXCEPT ![m] = s]
      <3>1. TypeOK
        BY DEF IInv
      <3>2. \A x \in Nodes : First(todo[x]) \subseteq Nodes
        BY <3>1, FirstIsMember DEF TypeOK
      <3>3. \/ CompleteNode(n) \/ FailNode(n)
            \/ MarkReady(n) \/ MarkOne(n) \/ SkipWrite(n)
        BY <2>1, QuietActions
      <3>4. CompleteNode(n) \/ FailNode(n) =>
                \E x : node_status' = [node_status EXCEPT ![n] = x]
        BY DEF CompleteNode, FailNode, UpdateNode
      <3>5. MarkReady(n) \/ MarkOne(n) \/ SkipWrite(n) =>
                \E c \in First(todo[n]) : \E x : node_status' = [node_status EXCEPT ![c] = x]
        BY DEF MarkReady, MarkOne, SkipWrite, UpdateNode
      <3>. QED
        BY <3>2, <3>3, <3>4, <3>5
    <2>4. node_status'[m] = s /\ node_status'[m] # node_status[m]
      BY <2>3 DEF IInv, TypeOK
    <2>. QED
      BY <2>2, <2>3, <2>4 DEF LawfulWrites, Lifecycle!Next, Lifecycle!Finish,
         Lifecycle!Start, Lifecycle!Skip, Lifecycle!Idle, Lifecycle!AtWork,
         Idle, AtWork, Children
  <1>. QED
    BY <1>1, <1>2, DagInvariance, PTL DEF Spec, ImplementsLifecycle, Lifecycle!Spec

=============================================================================
