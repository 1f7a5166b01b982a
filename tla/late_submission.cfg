\* Event mode; a row is submitted while the process runs.
SPECIFICATION FairSpec
CONSTANTS
    k = k  g1 = g1  g2 = g2  g3 = g3  s = s  t1 = t1  t2 = t2
    Jobs <- AllJobs
    TopicOf <- Topics2
    Backlog = {k}
    Groups <- TwoGroups
    Silent = {s}
    Retried = {}
    BatchSize = 5
    Modes <- Event
    CallsMayFail = FALSE
    MaxStarts = 1
CHECK_DEADLOCK FALSE
PROPERTIES
    PendingIsClaimed
