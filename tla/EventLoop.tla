------------------------------ MODULE EventLoop ------------------------------
(***************************************************************************)
(* How a pending row comes to be claimed: the process of src/main.rs, its  *)
(* start, bootstrap and end, the unbounded channel of ReadyNotifications,  *)
(* and the loop that claims (run_event_loop or poll_loop).                 *)
(*                                                                         *)
(* In event mode the loop sleeps until a notification comes, and claims at *)
(* most the job_count it carries.  Notifications come from the bootstrap   *)
(* of the process and from handle_job_completion for children in parallel  *)
(* mode.  Nothing else that makes a row pending sends one: the API's       *)
(* submissions, children in sequential mode, requeue_job.  In polling mode *)
(* main waits for the task that starts the poll loop, not for the loop.    *)
(*                                                                         *)
(* What happens to a row after its claim is in JobExecutor.tla.            *)
(***************************************************************************)
EXTENDS Integers, Sequences, FiniteSets

CONSTANTS
    Jobs,          \* rows of job_queue, all of topics the process serves
    TopicOf,       \* the topic of each row; config.topics is "ALL"
    Backlog,       \* rows that are pending when the process first starts
    Groups,        \* sets of siblings that a handler enqueues as one batch
    Silent,        \* rows that are enqueued without a notification
    Retried,       \* rows that are requeued once after a claim
    BatchSize,     \* config.batch_size
    Modes,         \* the values of EXECUTOR_EVENT_DRIVEN to consider
    CallsMayFail,  \* TRUE if queries may fail
    MaxStarts      \* bound of the model: how often the process is started

ASSUME EventLoopAssumption ==
    /\ IsFiniteSet(Jobs)
    /\ Backlog \subseteq Jobs /\ Silent \subseteq Jobs /\ Retried \subseteq Jobs
    /\ Groups \subseteq SUBSET Jobs
    /\ BatchSize \in Nat \ {0} /\ MaxStarts \in Nat \ {0}
    /\ Modes \subseteq BOOLEAN /\ CallsMayFail \in BOOLEAN

VARIABLES
    status,        \* of every row: absent, pending, claimed
    retried,       \* the rows that were requeued
    event_driven,  \* the mode of the process
    proc,          \* up, exited
    starts,        \* how often the process was started
    boot,          \* the bootstrap task: waiting, done
    channel,       \* the job_counts of the notifications not yet received
    due,           \* groups in the queue whose notification is still to be sent
    loop,          \* where the claim loop stands: idle, topics, claim, locked
    topics,        \* what get_effective_topics returned to this iteration
    picked,        \* the rows the iteration's claim statement has locked
    limit,         \* how many rows this iteration may claim
    owed           \* not in the code: pending rows that no notification announces

queue == <<status, retried>>
process == <<event_driven, proc, starts, boot>>
iteration == <<loop, topics, picked, limit>>
vars == <<queue, process, channel, due, iteration, owed>>

Pending == {j \in Jobs : status[j] = "pending"}
Smaller(m, n) == IF m < n THEN m ELSE n
Excess(m, n) == IF m > n THEN m - n ELSE 0

Init ==
    /\ status = [j \in Jobs |-> IF j \in Backlog THEN "pending" ELSE "absent"]
    /\ retried = {}
    /\ event_driven \in Modes
    /\ proc = "up"
    /\ starts = 1
    /\ boot = "waiting"
    /\ channel = <<>>
    /\ due = {}
    /\ loop = "idle"
    /\ topics = {}
    /\ picked = {}
    /\ limit = 0
    /\ owed = 0

-----------------------------------------------------------------------------
(* What makes rows pending.                                                *)

Enqueue(S) ==
    /\ \A j \in S : status[j] = "absent"
    /\ status' = [j \in Jobs |-> IF j \in S THEN "pending" ELSE status[j]]
    /\ UNCHANGED retried

\* The API service, or create_job_for_node for a child in sequential mode.
EnqueueSilently(j) ==
    /\ j \in Silent
    /\ Enqueue({j})
    /\ owed' = owed + 1
    /\ UNCHANGED <<process, channel, due, iteration>>

\* handle_job_completion in parallel mode: the batch is committed ...
EnqueueSiblings(G) ==
    /\ proc = "up"
    /\ Enqueue(G)
    /\ due' = due \cup {G}
    /\ UNCHANGED <<process, channel, iteration, owed>>

\* Faulty: a notification per group that forgets how many jobs it announces.
NotifyOne(G) ==
    /\ G \in due
    /\ due' = due \ {G}
    /\ channel' = IF event_driven THEN Append(channel, 1) ELSE channel
    /\ UNCHANGED <<queue, process, iteration, owed>>

\* ... and later, the nodes being marked as ready, its size is sent.
Notify(G) ==
    /\ G \in due
    /\ due' = due \ {G}
    /\ channel' = IF event_driven THEN Append(channel, Cardinality(G)) ELSE channel
    /\ UNCHANGED <<queue, process, iteration, owed>>

\* The update of one of the nodes fails, and with it the handler: the siblings
\* stay in the queue and are never announced.
NotifyMissed(G) ==
    /\ CallsMayFail
    /\ G \in due
    /\ due' = due \ {G}
    /\ owed' = owed + Cardinality(G)
    /\ UNCHANGED <<queue, process, channel, iteration>>

\* requeue_job of a monitor task.
Requeue(j) ==
    /\ proc = "up"
    /\ j \in Retried \ retried
    /\ status[j] = "claimed"
    /\ status' = [status EXCEPT ![j] = "pending"]
    /\ retried' = retried \cup {j}
    /\ owed' = owed + 1
    /\ UNCHANGED <<process, channel, due, iteration>>

-----------------------------------------------------------------------------
(* The process.                                                            *)

\* Faulty: a bootstrap that looks for pending rows and tells nobody.
BootstrapSilent ==
    /\ proc = "up" /\ event_driven /\ boot = "waiting"
    /\ boot' = "done"
    /\ UNCHANGED <<queue, event_driven, proc, starts, channel, due, iteration, owed>>

\* Two seconds after the start, one notification if there are pending rows.
Bootstrap ==
    /\ proc = "up" /\ event_driven /\ boot = "waiting"
    /\ boot' = "done"
    /\ channel' = IF Pending # {} THEN Append(channel, BatchSize) ELSE channel
    /\ owed' = Excess(Cardinality(Pending), BatchSize)
    /\ UNCHANGED <<queue, event_driven, proc, starts, due, iteration>>

\* The bootstrap's query fails: a warning is logged and that is all.
BootstrapFails ==
    /\ CallsMayFail
    /\ proc = "up" /\ event_driven /\ boot = "waiting"
    /\ boot' = "done"
    /\ owed' = Cardinality(Pending)
    /\ UNCHANGED <<queue, event_driven, proc, starts, channel, due, iteration>>

\* The end of the process drops its tasks, the channel and what is in it.
Exit ==
    /\ proc = "up"
    /\ proc' = "exited"
    /\ channel' = <<>>
    /\ due' = {}
    /\ loop' = "idle"
    /\ topics' = {}
    /\ picked' = {}
    /\ limit' = 0
    /\ UNCHANGED <<queue, event_driven, starts, boot, owed>>

\* ctrl_c, or a crash; the model stops the process only if it may start again.
Stop == starts < MaxStarts /\ Exit

\* In polling mode start() returns as soon as it has spawned the poll loop, the
\* select! of main ends with it, and so does main.
MainReturns == ~event_driven /\ Exit

Start ==
    /\ proc = "exited"
    /\ starts < MaxStarts
    /\ proc' = "up"
    /\ starts' = starts + 1
    /\ event_driven' \in Modes
    /\ boot' = "waiting"
    /\ owed' = 0
    /\ UNCHANGED <<queue, channel, due, iteration>>

-----------------------------------------------------------------------------
(* The claim loop.                                                         *)

\* A notification is received: at most batch_size of its jobs will be claimed.
Receive ==
    /\ proc = "up" /\ event_driven /\ loop = "idle"
    /\ channel # <<>>
    /\ channel' = Tail(channel)
    /\ limit' = Smaller(Head(channel), BatchSize)
    /\ owed' = owed + Excess(Head(channel), BatchSize)
    /\ loop' = "topics"
    /\ UNCHANGED <<queue, process, due, topics, picked>>

\* The poll loop wakes up.
Poll ==
    /\ proc = "up" /\ ~event_driven /\ loop = "idle"
    /\ limit' = BatchSize
    /\ loop' = "topics"
    /\ UNCHANGED <<queue, process, channel, due, topics, picked, owed>>

\* Faulty: the topics of an earlier iteration are kept.
ReadTopicsOnce ==
    /\ loop = "topics"
    /\ topics' = IF topics = {} THEN {TopicOf[j] : j \in Pending} ELSE topics
    /\ loop' = "claim"
    /\ UNCHANGED <<queue, process, channel, due, picked, limit, owed>>

\* get_effective_topics: a query of its own.
ReadTopics ==
    /\ loop = "topics"
    /\ topics' = {TopicOf[j] : j \in Pending}
    /\ loop' = "claim"
    /\ UNCHANGED <<queue, process, channel, due, picked, limit, owed>>

\* The statement of claim_jobs sees the rows that are committed when it starts.
\* Which of them come first is in JobExecutor.tla; here any may.
ClaimLock ==
    /\ loop = "claim"
    /\ LET claimable == {j \in Pending : TopicOf[j] \in topics}
       IN  \E S \in SUBSET claimable :
              /\ Cardinality(S) = Smaller(limit, Cardinality(claimable))
              /\ picked' = S
    /\ loop' = "locked"
    /\ UNCHANGED <<queue, process, channel, due, topics, limit, owed>>

\* It commits, and the tasks of its rows are spawned.
ClaimCommit ==
    /\ loop = "locked"
    /\ status' = [j \in Jobs |-> IF j \in picked THEN "claimed" ELSE status[j]]
    /\ loop' = "idle"
    /\ picked' = {}
    /\ limit' = 0
    /\ UNCHANGED <<retried, process, channel, due, topics, owed>>

\* Either query fails: the iteration ends and its notification is spent.
IterationFails ==
    /\ CallsMayFail
    /\ loop \in {"topics", "claim", "locked"}
    /\ loop' = "idle"
    /\ picked' = {}
    /\ limit' = 0
    /\ owed' = IF event_driven THEN owed + limit ELSE owed
    /\ UNCHANGED <<queue, process, channel, due, topics>>

LoopStep == Receive \/ Poll \/ ReadTopics \/ ClaimLock \/ ClaimCommit \/ IterationFails

Next ==
    \/ \E j \in Jobs : EnqueueSilently(j) \/ Requeue(j)
    \/ \E G \in Groups : EnqueueSiblings(G) \/ Notify(G) \/ NotifyMissed(G)
    \/ Bootstrap
    \/ BootstrapFails
    \/ Stop
    \/ MainReturns
    \/ Start
    \/ LoopStep

Spec == Init /\ [][Next]_vars

\* The runtime runs the tasks of the process: the loop, the bootstrap, the
\* handlers that are on their way to a notification, and main.  A process that
\* has exited is started again by its Deployment.  Submissions, retries and
\* signals are nobody's duty.
Fairness ==
    /\ WF_vars(LoopStep)
    /\ WF_vars(Bootstrap)
    /\ WF_vars(MainReturns)
    /\ WF_vars(Start)
    /\ \A G \in Groups : WF_vars(Notify(G))

FairSpec == Spec /\ Fairness

-----------------------------------------------------------------------------
(* Properties.                                                             *)

\* Every variable has its type; in particular an iteration claims at most as many
\* rows as its notification announced, and never more than batch_size.
TypeOK ==
    /\ status \in [Jobs -> {"absent", "pending", "claimed"}]
    /\ retried \subseteq Jobs
    /\ event_driven \in BOOLEAN
    /\ proc \in {"up", "exited"}
    /\ starts \in 1..MaxStarts
    /\ boot \in {"waiting", "done"}
    /\ channel \in Seq(Nat)
    /\ due \subseteq Groups
    /\ loop \in {"idle", "topics", "claim", "locked"}
    /\ topics \subseteq {TopicOf[j] : j \in Jobs}
    /\ picked \subseteq Pending
    /\ IF loop = "locked" THEN Cardinality(picked) <= limit ELSE picked = {}
    /\ limit \in 0..BatchSize
    /\ owed \in Nat

\* One slot for each claim that the notifications in a channel allow, and one for
\* each row of a group whose notification is still to be sent.
Slots(notifications) ==
    UNION {{i} \X (1..notifications[i]) : i \in DOMAIN notifications}
DueSlots(groups) == {slot \in groups \X Jobs : slot[2] \in slot[1]}

\* How many claims are allowed by notifications sent or still to be sent.
Rest == Cardinality(Slots(channel)) + Cardinality(DueSlots(due))

\* In event mode, once the bootstrap has run, every pending row is announced by
\* a notification not yet spent, but for those counted in owed: rows enqueued
\* or requeued without one, siblings and a backlog beyond batch_size, and
\* notifications that a failed query spent or a failed handler did not send.
\* The loop never spends one row's notification without claiming a row for it,
\* although it reads the topics before it claims and claims whatever rows come
\* first.
WakeupsAccounted ==
    proc = "up" /\ event_driven /\ boot = "done" =>
        Cardinality(Pending) <= Rest + limit + owed

\* In event mode every pending row is claimed in the end, also one whose
\* notification was lost with the process that was to send or to receive it, as
\* long as there are no pending rows without a notification: there is no way to
\* lose a row but the ones counted in owed.
AnnouncedIsClaimed ==
    \A j \in Jobs : status[j] = "pending" ~>
        status[j] = "claimed" \/ owed > 0 \/ ~event_driven

-----------------------------------------------------------------------------
(* The inductive invariant of EventLoopProofs.                             *)

\* Between two iterations there is nothing left of the last one.
IdleInv == loop = "idle" => limit = 0

\* The rows of a group are enqueued before its notification is due.
DueInv == \A G \in due : \A j \in G : status[j] # "absent"

\* The pending rows that the iteration, as far as it has come, will not claim.
Left ==
    {j \in Pending : /\ loop # "topics"
                     /\ loop = "claim" => TopicOf[j] \notin topics
                     /\ loop = "locked" => j \notin picked}

\* If the iteration claims fewer rows than its notification allows, then no row
\* is left but those announced by others.
LeftInv ==
    proc = "up" /\ event_driven /\ boot = "done" => Cardinality(Left) <= Rest + owed

\* Types, what an iteration leaves behind, and both ways to count.
IInv == TypeOK /\ IdleInv /\ DueInv /\ LeftInv /\ WakeupsAccounted

-----------------------------------------------------------------------------
(* What the repository says of the process and the code does not do.       *)

\* Claims jobs and executes them (README.md): every pending row is claimed in the
\* end.  In event mode nobody announces a row that is submitted late, enqueued in
\* sequential mode, requeued, or one sibling too many for batch_size.
PendingIsClaimed ==
    \A j \in Jobs : status[j] = "pending" ~> status[j] = "claimed"

=============================================================================
