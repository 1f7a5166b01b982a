---------------------------- MODULE DAGLifecycle ----------------------------
(***************************************************************************)
(* What the DAG orchestrator promises about the nodes of one DAG           *)
(* execution, without saying how.                                          *)
(*                                                                         *)
(* The roots are at work from the start.  A node at work ends, completed   *)
(* or failed.  When it completes, each of its children is put to work;     *)
(* when it fails, its descendants are skipped, parents before children.    *)
(* Nothing happens to a node that has ended or was skipped.                *)
(*                                                                         *)
(* DAGOrchestrator.tla models the code and is shown to implement this      *)
(* module.                                                                 *)
(***************************************************************************)

CONSTANTS
    Nodes,      \* the nodes of the DAG's template
    ParentOf,   \* parent_node_id of each node
    NoParent    \* NULL, the parent of a root

VARIABLE node_status   \* status of every node of the execution

\* Not yet at work, at work, and ended.
Idle == {"pending", "waiting"}
AtWork == {"ready", "running"}
Settled == {"completed", "failed", "skipped"}

Init ==
    node_status \in {f \in [Nodes -> Idle \cup AtWork] :
                        \A n \in Nodes : f[n] \in AtWork <=> ParentOf[n] = NoParent}

Finish(n, outcome) ==
    /\ node_status[n] \in AtWork
    /\ node_status' = [node_status EXCEPT ![n] = outcome]

Start(n) ==
    /\ ParentOf[n] \in Nodes
    /\ node_status[n] \in Idle
    /\ node_status[ParentOf[n]] = "completed"
    /\ node_status' = [node_status EXCEPT ![n] = "ready"]

Skip(n) ==
    /\ ParentOf[n] \in Nodes
    /\ node_status[n] \in Idle
    /\ node_status[ParentOf[n]] \in {"failed", "skipped"}
    /\ node_status' = [node_status EXCEPT ![n] = "skipped"]

Next ==
    \E n \in Nodes :
        \/ Finish(n, "completed")
        \/ Finish(n, "failed")
        \/ Start(n)
        \/ Skip(n)

Spec == Init /\ [][Next]_node_status

=============================================================================
