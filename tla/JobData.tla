------------------------------ MODULE JobData ------------------------------
(***************************************************************************)
(* What jobs hand to each other: the outputs of a job, delivered to its    *)
(* row by the sidecar of its pod; the inputs of its children, resolved     *)
(* from them by the DAG orchestrator; and the containers the executor      *)
(* builds from a child's row and image.                                    *)
(*                                                                         *)
(* A job's claims and ends are those of JobExecutor, a handler's steps     *)
(* those of DAGOrchestrator; here they carry data and are as coarse as the *)
(* data allows.  A JSON object is a function on its keys.  A value says    *)
(* where it came from, so that two values are equal only if they are the   *)
(* same value of the same source.                                          *)
(*                                                                         *)
(* The JSON columns of job_queue are written as jsonb and read as text:    *)
(* from a column of type text the object comes back as it was written,     *)
(* from one of type jsonb never.  The types are in a schema outside the    *)
(* repository, so they are chosen at the start, for each column.  The      *)
(* columns of the other tables are taken to decode.                        *)
(***************************************************************************)
EXTENDS Naturals, Sequences, FiniteSets, SequencesExt

CONSTANTS
    Children,    \* get_child_nodes: the parent's child nodes, in node_order
    Templates,   \* of every child, the rows dag_nodes may hold for it
    Images,      \* of every child, the rows image_registry may hold for it
    Payload,     \* the keys of the DAG's execution_payload
    Upper,       \* to_uppercase of the name of an input
    Outs,        \* the sets of keys the outputs of a run may have
    MaxRuns,     \* bound: runs of the parent's job
    Polls,       \* bound: reads of the row within the 30 seconds of the wait
    None         \* NULL

VARIABLES
    mode,        \* execution_mode of the first child
    decoded,     \* the JSON columns of job_queue that are of type text
    run,         \* the parent's runs so far
    phase,       \* of the parent: pending, running, emitted, waiting, handler, done, error
    posts,       \* outputs its sidecars have sent and the API has not yet stored
    outputs,     \* column outputs of its row
    polls,       \* the reads the wait has left
    misread,     \* TRUE once a read of the wait failed
    given,       \* the outputs handle_job_completion was called with
    lasting,     \* not in the code: keys the row's outputs have had since it was completed
    rows,        \* the inserted rows of the children
    node_inputs, \* column inputs of the children's node executions
    containers   \* the job containers created for the children

database == <<mode, decoded>>
parent_vars == <<run, phase, posts, outputs, polls, misread, given, lasting>>
child_vars == <<rows, node_inputs, containers>>
vars == <<database, parent_vars, child_vars>>

Nodes == {Children[i] : i \in DOMAIN Children}
Runs == 1..MaxRuns

\* A value of a JSON object, and the object a source gives.
Value(from, key, k) == [from |-> from, key |-> key, run |-> k]
Object(from, keys, k) == [key \in keys |-> Value(from, key, k)]

\* What the sidecars of some runs may send.
Posts(runs) == {[run |-> k, data |-> Object("output", keys, k)] : k \in runs, keys \in Outs}

\* The two bounds are numbers, and the wait reads at least once; a node has
\* finitely many inputs, every input has an upper-case name, the values of jobs
\* and images are their own, and NULL is no object.
ASSUME JobDataAssumption ==
    /\ MaxRuns \in Nat /\ Polls \in Nat \ {0}
    /\ \A c \in Nodes : \A node \in Templates[c] :
           /\ IsFiniteSet(DOMAIN node.mapping)
           /\ DOMAIN node.mapping \subseteq DOMAIN Upper
           /\ node.env = Object("job", DOMAIN node.env, 0)
    /\ \A c \in Nodes : \A image \in Images[c] :
           image.env = Object("image", DOMAIN image.env, 0)
    /\ \A p \in Posts(Runs) : p # None /\ p.data # None

JsonColumns == {"environment_variables", "inputs", "outputs"}
Empty == Object("none", {}, 0)

\* map_row_to_queued_job: a String is read from a column of type text only;
\* otherwise try_get fails and the value is NULL, which all readers take for an
\* empty object.
Column(name, written) == IF name \in decoded THEN written ELSE Empty

\* HashMap::extend and insert: the later value stays.
Extend(f, g) ==
    [x \in DOMAIN f \cup DOMAIN g |-> IF x \in DOMAIN g THEN g[x] ELSE f[x]]

Init ==
    /\ mode \in {"parallel", "sequential"}
    /\ decoded \in SUBSET JsonColumns
    /\ run = 0
    /\ phase = "pending"
    /\ posts = {}
    /\ outputs = None
    /\ polls = 0
    /\ misread = FALSE
    /\ given = None
    /\ lasting = {}
    /\ rows = [c \in Nodes |-> None]
    /\ node_inputs = [c \in Nodes |-> None]
    /\ containers = [c \in Nodes |-> None]

-----------------------------------------------------------------------------
(* The parent's job and its outputs.                                       *)

StartRun ==
    /\ phase = "pending" /\ run < MaxRuns
    /\ run' = run + 1
    /\ phase' = "running"
    /\ UNCHANGED <<database, posts, outputs, polls, misread, given, lasting, child_vars>>

\* The sidecar of the run sends what the job wrote to /output.
Emit ==
    /\ phase = "running"
    /\ phase' = "emitted"
    /\ \E p \in Posts({run}) : posts' = posts \cup {p}
    /\ UNCHANGED <<database, run, outputs, polls, misread, given, lasting, child_vars>>

\* The API service stores it, however late.
Deliver ==
    /\ \E p \in posts :
           /\ outputs' = p /\ posts' = posts \ {p}
           /\ lasting' = IF phase = "waiting" THEN lasting \cap DOMAIN p.data ELSE lasting
    /\ UNCHANGED <<database, run, phase, polls, misread, given, child_vars>>

\* requeue_job leaves the outputs of the failed run in the row.
RunFails ==
    /\ phase \in {"running", "emitted"} /\ run < MaxRuns
    /\ phase' = "pending"
    /\ UNCHANGED <<database, run, posts, outputs, polls, misread, given, lasting, child_vars>>

\* The row is completed; then the wait for the outputs begins.
RunSucceeds ==
    /\ phase \in {"running", "emitted"}
    /\ phase' = "waiting"
    /\ polls' = Polls
    /\ lasting' = IF outputs = None THEN {} ELSE DOMAIN outputs.data
    /\ UNCHANGED <<database, run, posts, outputs, misread, given, child_vars>>

\* One turn of the wait: the row is read, then the task sleeps.
Turn == polls' = polls - 1

\* The row that is read has outputs, and they are not empty.
HasOutputs == outputs # None /\ DOMAIN Column("outputs", outputs.data) # {}

\* Outputs that are there end the wait.
WaitForOutputs ==
    IF HasOutputs
    THEN phase' = "handler" /\ given' = outputs.data /\ UNCHANGED polls
    ELSE Turn /\ UNCHANGED <<phase, given>>

Read ==
    /\ phase = "waiting" /\ polls > 0
    /\ \/ WaitForOutputs /\ UNCHANGED misread
       \/ Turn /\ misread' = TRUE /\ UNCHANGED <<phase, given>>
    /\ UNCHANGED <<database, run, posts, outputs, lasting, child_vars>>

\* Faulty: the task sleeps before it reads, and may sleep too long.
WaitEndsUnread ==
    /\ phase = "waiting"
    /\ phase' = "handler"
    /\ UNCHANGED <<database, run, posts, outputs, polls, misread, given, lasting, child_vars>>

\* The clock is looked at after every sleep, so there is one read at least.  When
\* the 30 seconds are over, the handler is called without outputs.
WaitEnds ==
    /\ phase = "waiting" /\ polls < Polls
    /\ phase' = "handler"
    /\ UNCHANGED <<database, run, posts, outputs, polls, misread, given, lasting, child_vars>>

-----------------------------------------------------------------------------
(* The handler: the inputs of the children.                                *)

\* The value an entry of input_mapping stands for: none, or the one in the set.
\* spec.key is outputKey, payloadKey or value, whichever spec.source asks for.
Lookup(spec, from) ==
    CASE spec.source = "parent" /\ from # None /\ spec.key \in DOMAIN from -> {from[spec.key]}
      [] spec.source = "payload" /\ spec.key \in Payload -> {Value("payload", spec.key, 0)}
      [] spec.source = "constant" /\ spec.key # None -> {Value("constant", spec.key, 0)}
      [] OTHER -> {}

ResolveInputs(mapping, from) ==
    [i \in {i \in DOMAIN mapping : Lookup(mapping[i], from) # {}} |->
        CHOOSE v \in Lookup(mapping[i], from) : TRUE]

\* map_node_row: an entry with an unknown source is left out.
InputMapping(node) ==
    [i \in {i \in DOMAIN node.mapping : node.mapping[i].source # "unknown"} |-> node.mapping[i]]

\* The child whose turn it is: the first without a row, or one not marked.
FirstWith(P(_)) ==
    LET those == {i \in DOMAIN Children : P(Children[i])}
    IN  {Children[i] : i \in {i \in those : \A k \in those : i <= k}}
Unqueued(c) == rows[c] = None
Unmarked(c) == node_inputs[c] = None

\* The rows to insert: all at once, or one after its elder siblings are marked.
Batch ==
    IF mode = "parallel" THEN {c \in Nodes : Unqueued(c)}
    ELSE IF \A c \in Nodes : Unmarked(c) => Unqueued(c) THEN FirstWith(Unqueued) ELSE {}

\* Faulty: the handler does not wait for the outputs.
EnqueueEarly ==
    /\ phase \in {"waiting", "handler"} /\ Batch # {}
    /\ \E node \in [Batch -> UNION {Templates[c] : c \in Batch}] :
           /\ \A c \in Batch : node[c] \in Templates[c]
           /\ rows' = [c \in Nodes |->
                  IF c \in Batch
                  THEN [node |-> node[c], inputs |-> ResolveInputs(InputMapping(node[c]), given)]
                  ELSE rows[c]]
    /\ UNCHANGED <<database, parent_vars, node_inputs, containers>>

Enqueue ==
    /\ phase = "handler" /\ Batch # {}
    /\ \E node \in [Batch -> UNION {Templates[c] : c \in Batch}] :
           /\ \A c \in Batch : node[c] \in Templates[c]
           /\ rows' = [c \in Nodes |->
                  IF c \in Batch
                  THEN [node |-> node[c], inputs |-> ResolveInputs(InputMapping(node[c]), given)]
                  ELSE rows[c]]
    /\ UNCHANGED <<database, parent_vars, node_inputs, containers>>

\* Faulty: the node's inputs are resolved from the outputs the row has by now.
MarkReadyFromRow ==
    /\ phase = "handler"
    /\ mode = "parallel" => Batch = {}
    /\ \E c \in FirstWith(Unmarked) :
           /\ ~Unqueued(c)
           /\ node_inputs' = [node_inputs EXCEPT ![c] =
                  ResolveInputs(InputMapping(rows[c].node),
                                IF outputs = None THEN None ELSE outputs.data)]
    /\ UNCHANGED <<database, parent_vars, rows, containers>>

\* The inputs are resolved again for the node execution.
MarkReady ==
    /\ phase = "handler"
    /\ mode = "parallel" => Batch = {}
    /\ \E c \in FirstWith(Unmarked) :
           /\ ~Unqueued(c)
           /\ node_inputs' = [node_inputs EXCEPT ![c] =
                  ResolveInputs(InputMapping(rows[c].node), given)]
    /\ UNCHANGED <<database, parent_vars, rows, containers>>

\* The handler has dealt with every child, or an await of it failed.
HandlerEnds ==
    /\ phase = "handler"
    /\ \/ phase' = "done" /\ \A c \in Nodes : ~Unmarked(c)
       \/ phase' = "error" /\ \E c \in Nodes : Unmarked(c)
    /\ UNCHANGED <<database, run, posts, outputs, polls, misread, given, lasting, child_vars>>

-----------------------------------------------------------------------------
(* execute_job and create_job: the container of a child.                   *)

\* The inputs are laid over an environment one by one, under upper-case names.
Overlay(base, inputs, order) ==
    LET env[k \in 0..Len(order)] ==
            IF k = 0 THEN base
            ELSE Extend(env[k - 1], [n \in {Upper[order[k]]} |-> inputs[order[k]]])
    IN  env[Len(order)]

\* What execute_job puts into every environment itself.
Own == Object("executor", {"JOB_ID", "TOPIC"}, 0)

\* The environment and the inputs of a job as execute_job has them.
JobEnv(row) == Column("environment_variables", row.node.env)
JobInputs(row) == Column("inputs", row.inputs)

\* Faulty: the image's environment is laid over the job's.
EnvironmentImageLast(row, image, order) ==
    Overlay(Extend(Extend(JobEnv(row), image.env), Own), JobInputs(row), order)

\* The inputs come last, in the order the HashMap happens to yield them.
Environment(row, image, order) ==
    Overlay(Extend(Extend(image.env, JobEnv(row)), Own), JobInputs(row), order)

\* A child's row is claimed and its container created.
Execute(c) ==
    /\ ~Unqueued(c) /\ containers[c] = None
    /\ \E image \in Images[c], order \in SetToSeqs(DOMAIN JobInputs(rows[c])) :
           containers' = [containers EXCEPT ![c] =
               [image |-> image, env |-> Environment(rows[c], image, order)]]
    /\ UNCHANGED <<database, parent_vars, rows, node_inputs>>

Task == Read \/ WaitEnds \/ Enqueue \/ MarkReady \/ HandlerEnds

Next ==
    \/ StartRun \/ Emit \/ Deliver \/ RunFails \/ RunSucceeds
    \/ Task
    \/ \E c \in Nodes : Execute(c)

Spec == Init /\ [][Next]_vars

-----------------------------------------------------------------------------
(* Properties.                                                             *)

TypeOK ==
    /\ mode \in {"parallel", "sequential"}
    /\ run \in 0..MaxRuns
    /\ phase \in {"pending", "running", "emitted", "waiting", "handler", "done", "error"}
    /\ posts \subseteq Posts(1..run)
    /\ outputs \in Posts(1..run) \cup {None}
    /\ polls \in 0..Polls
    /\ misread \in BOOLEAN
    /\ given \in {p.data : p \in Posts(1..run)} \cup {None}
    /\ given # None => DOMAIN given # {}
    /\ lasting \subseteq UNION Outs
    /\ decoded \subseteq JsonColumns
    /\ \A c \in Nodes : /\ rows[c] # None => rows[c].node \in Templates[c]
                        /\ node_inputs[c] # None => DOMAIN node_inputs[c] \subseteq DOMAIN Upper
                        /\ containers[c] # None => containers[c].image \in Images[c]

\* Whatever arrives in the row while the handler creates one child after the
\* other: all children are given outputs of one and the same run, and the node
\* execution of each records the inputs its job was given.
OneSource ==
    LET values(object) == {object[k] : k \in DOMAIN object}
        inherited == {v \in UNION {values(rows[c].inputs) : c \in {c \in Nodes : rows[c] # None}} :
                         v.from = "output"}
    IN  /\ \A v, w \in inherited : v.run = w.run
        /\ \A c \in Nodes : node_inputs[c] # None => node_inputs[c] = rows[c].inputs

\* The values of the inputs that are called n in a container.
Named(inputs, n) == {inputs[i] : i \in {i \in DOMAIN inputs : Upper[i] = n}}

\* What the environment of a container must be, given those of its job and its
\* image, and the inputs of the job.
Promised(env, inputs, job_env, image_env) ==
    /\ DOMAIN env = {Upper[i] : i \in DOMAIN inputs} \cup {"JOB_ID", "TOPIC"}
                       \cup DOMAIN job_env \cup DOMAIN image_env
    /\ \A n \in DOMAIN env :
           IF Named(inputs, n) # {} THEN env[n] \in Named(inputs, n)
           ELSE IF n \in {"JOB_ID", "TOPIC"} THEN env[n] = Value("executor", n, 0)
           ELSE IF n \in DOMAIN job_env THEN env[n] = job_env[n]
           ELSE env[n] = image_env[n]

\* In a container an input comes before JOB_ID and TOPIC, these before the job's
\* environment and that before the image's; of two inputs that differ in case
\* only, either may win.  Of what execute_job reads nothing is lost, and nothing
\* is made up.
EnvPrecedence ==
    \A c \in Nodes : containers[c] # None =>
        Promised(containers[c].env, JobInputs(rows[c]), JobEnv(rows[c]), containers[c].image.env)

\* From the row of the completed parent, over the wait, the handler and the row of
\* the child, to the child's container.  With columns of type text: an input that
\* is mapped from an output has a value of that output there, if the output was
\* in the row all the while since it was completed, no read of the wait failed,
\* and no other input of the child has the same name but for its case.  With
\* columns of type jsonb: no output of the parent is in any container.
OutputsReachContainers ==
    \A c \in {c \in Nodes : containers[c] # None} :
        LET mapping == rows[c].node.mapping
            env == containers[c].env
        IN  IF {"inputs", "outputs"} \subseteq decoded
            THEN \A i \in DOMAIN mapping :
                    /\ mapping[i].source = "parent" /\ mapping[i].key \in lasting
                    /\ \A k \in DOMAIN mapping \ {i} : Upper[k] # Upper[i]
                    => misread \/ \E k \in Runs : env[Upper[i]] = Value("output", mapping[i].key, k)
            ELSE \A n \in DOMAIN env : env[n].from # "output"

-----------------------------------------------------------------------------
(* The inductive invariant of JobDataProofs.                               *)

\* A job that is past its first claim has a run; no child has a row, and nothing
\* was given to the handler, until it is called.
OrderInv ==
    /\ phase # "pending" => run \in Runs
    /\ phase \in {"pending", "running", "emitted", "waiting"} =>
           given = None /\ \A c \in Nodes : Unqueued(c)

\* While the task waits, the lasting keys are in the row, and if it has read without
\* an error there are none; then they are in what the handler is given.
LastingInv ==
    /\ phase = "waiting" =>
           /\ lasting # {} => outputs # None /\ lasting \subseteq DOMAIN outputs.data
           /\ "outputs" \in decoded /\ ~misread /\ polls < Polls => lasting = {}
    /\ /\ phase \in {"handler", "done", "error"}
       /\ "outputs" \in decoded /\ ~misread /\ lasting # {}
       => given # None /\ lasting \subseteq DOMAIN given
    /\ "outputs" \notin decoded => given = None

\* The inputs of a row are those the handler's outputs stand for, and those of
\* the node execution the same.
RowInv ==
    \A c \in Nodes :
        /\ ~Unqueued(c) => rows[c].inputs = ResolveInputs(InputMapping(rows[c].node), given)
        /\ ~Unmarked(c) => ~Unqueued(c) /\ node_inputs[c] = rows[c].inputs

\* A container is made from a row, and from then on nothing changes either.
ContainerInv == (\A c \in Nodes : containers[c] # None => ~Unqueued(c)) /\ EnvPrecedence

\* What is kept of the children is kept by node.
DomainInv ==
    DOMAIN rows = Nodes /\ DOMAIN node_inputs = Nodes /\ DOMAIN containers = Nodes

IInv ==
    TypeOK /\ DomainInv /\ OrderInv /\ LastingInv /\ RowInv /\ ContainerInv

=============================================================================
