---------------------------- MODULE MCJobExecutor ----------------------------
(***************************************************************************)
(* Small instances of JobExecutor for TLC: values for its constants that   *)
(* are functions or sets of model values.                                  *)
(***************************************************************************)
EXTENDS JobExecutor, TLC

CONSTANTS j1, j2, e1, e2, t1, t2, name1, name2

\* One job, whose only topic is t1.
OneJob == {j1}
OneTopicOf == [j \in OneJob |-> t1]
OneRank == [j \in OneJob |-> 0]
OneName == [j \in OneJob |-> name1]
RetryOnce == [j \in Jobs |-> 1]
RetryNever == [j \in Jobs |-> 0]

\* Two jobs of two topics; j1 is claimed before j2, and only j1 may be retried.
TwoJobs == {j1, j2}
TwoTopicOf == j1 :> t1 @@ j2 :> t2
TwoRank == j1 :> 1 @@ j2 :> 2
TwoNames == j1 :> name1 @@ j2 :> name2
RetryFirst == j1 :> 1 @@ j2 :> 0

\* e1 takes every topic, e2 only t2.
AllTopics == [e \in Executors |-> All]
MixedFilter == [e \in Executors |-> IF e = e1 THEN All ELSE {t2}]

=============================================================================
