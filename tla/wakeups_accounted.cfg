\* Both modes, two starts, queries may fail, a row without notification, a row
\* retried, siblings beyond batch_size.  Work comes to rest.
SPECIFICATION FairSpec
CONSTANTS
    k = k  g1 = g1  g2 = g2  g3 = g3  s = s  t1 = t1  t2 = t2
    Jobs <- AllJobs
    TopicOf <- Topics2
    Backlog = {k}
    Groups <- TwoGroups
    Silent = {s}
    Retried = {k}
    BatchSize = 1
    Modes <- Either
    CallsMayFail = TRUE
    MaxStarts = 2
CHECK_DEADLOCK FALSE
INVARIANTS
    WakeupsAccounted
    IInv
PROPERTIES
    AnnouncedIsClaimed
