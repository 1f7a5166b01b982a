-------------------------- MODULE MCDAGOrchestrator --------------------------
(***************************************************************************)
(* Small instances of DAGOrchestrator for TLC: the shapes of the DAGs.     *)
(***************************************************************************)
EXTENDS DAGOrchestrator, TLC

CONSTANTS a, a1, a2, a11, b, b1, b2

\* Two trees: a with two parallel children, one of which has a child, and b with
\* two sequential children.
Forest == {a, a1, a2, a11, b, b1, b2}
ForestParent ==
    a :> None @@ a1 :> a @@ a2 :> a @@ a11 :> a1 @@ b :> None @@ b1 :> b @@ b2 :> b
ForestOrder ==
    a :> 1 @@ a1 :> 1 @@ a2 :> 2 @@ a11 :> 1 @@ b :> 2 @@ b1 :> 1 @@ b2 :> 2
ForestMode == [n \in Nodes |-> IF n \in {b1, b2} THEN "sequential" ELSE "parallel"]

\* Two nodes without an edge.
Isolated == {a, b}
IsolatedParent == [n \in Isolated |-> None]
IsolatedOrder == a :> 1 @@ b :> 2

\* A root with two children, one of which has a child.
Tree == {a, a1, a2, a11}
TreeParent == a :> None @@ a1 :> a @@ a2 :> a @@ a11 :> a1
TreeOrder == a :> 1 @@ a1 :> 1 @@ a2 :> 2 @@ a11 :> 1

\* Roots are ready or running, the other nodes pending or waiting.
Mixed ==
    [n \in Nodes |-> CASE n = a -> "running"
                       [] n = b -> "ready"
                       [] n \in {a1, a11, b1} -> "pending"
                       [] OTHER -> "waiting"]

Parallel == [n \in Nodes |-> "parallel"]

=============================================================================
