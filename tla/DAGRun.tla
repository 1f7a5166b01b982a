------------------------------- MODULE DAGRun -------------------------------
(***************************************************************************)
(* What a user of a DAG relies on, seen from the cluster alone: which      *)
(* nodes have something running there, and when.                           *)
(*                                                                         *)
(* A node's work starts only after its parent's has succeeded.  Work that  *)
(* failed may be started again; work that succeeded never is.              *)
(*                                                                         *)
(* Orchestration.tla composes the executor, the orchestrator and the event *)
(* loop and is shown to implement this module.                             *)
(***************************************************************************)

CONSTANTS
    Nodes,      \* the nodes of the DAG's template
    ParentOf,   \* parent_node_id of each node
    NoParent    \* NULL, the parent of a root

VARIABLE work   \* of every node: idle, active, succeeded, failed

Init == work = [n \in Nodes |-> "idle"]

Start(n) ==
    /\ work[n] \in {"idle", "failed"}
    /\ ParentOf[n] # NoParent => work[ParentOf[n]] = "succeeded"
    /\ work' = [work EXCEPT ![n] = "active"]

End(n, outcome) ==
    /\ work[n] = "active"
    /\ work' = [work EXCEPT ![n] = outcome]

Next == \E n \in Nodes : Start(n) \/ End(n, "succeeded") \/ End(n, "failed")

Spec == Init /\ [][Next]_work

=============================================================================
