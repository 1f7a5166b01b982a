-------------------------- MODULE MCOrchestration --------------------------
(***************************************************************************)
(* A small instance of Orchestration for TLC.                              *)
(***************************************************************************)
EXTENDS Orchestration, TLC

CONSTANTS a, a1

\* A root that may be retried, with a child that may not.
Pair == {a, a1}
PairParent == a :> None @@ a1 :> a
PairOrder == [n \in Pair |-> 1]
PairMode == [n \in Pair |-> "parallel"]
PairInitial == a :> "ready" @@ a1 :> "waiting"
PairRetries == a :> 1 @@ a1 :> 0
OwnName == [n \in Pair |-> n]
SameRank == [n \in Pair |-> 0]

=============================================================================
