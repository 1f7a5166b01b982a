----------------------------- MODULE MCEventLoop -----------------------------
(***************************************************************************)
(* Small instances of EventLoop for TLC.                                   *)
(***************************************************************************)
EXTENDS EventLoop

CONSTANTS k, g1, g2, g3, s, t1, t2

\* A row in the backlog, siblings in two batches, one of a topic of its own, and
\* a row that comes without a notification.
AllJobs == {k, g1, g2, g3, s}
AnnouncedJobs == AllJobs \ {s}
Topics2 == [j \in Jobs |-> IF j = g3 THEN t2 ELSE t1]
TwoGroups == {{g1, g2}, {g3}}
Either == {TRUE, FALSE}
Event == {TRUE}
Polling == {FALSE}

=============================================================================
