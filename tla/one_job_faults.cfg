\* One job retried once; two executors that poll, one mortal; any call may fail.
SPECIFICATION FairSpec
CONSTANTS
    j1 = j1  j2 = j2  e1 = e1  e2 = e2  t1 = t1  t2 = t2
    name1 = name1  name2 = name2
    All = All  None = None
    Executors = {e1, e2}
    Topics = {t1}
    CrashProne = {e1}
    Jobs <- OneJob
    TopicOf <- OneTopicOf
    TopicFilter <- AllTopics
    Rank <- OneRank
    MaxRetries <- RetryOnce
    NameOf <- OneName
    DagJobs <- OneJob
    BatchSize = 1
    Permits = 1
    EventDriven = FALSE
    BackoffLimit = 1
    CallsMayFail = TRUE
    MaxClaims = 3
INVARIANTS
    TypeOK
    SingleWriter
    RetryBudget
    OwnedOrLost
    OneRunPerJob
    HistoryNotAhead
    DagHearsTheOutcome
    FailuresAreReal
PROPERTIES
    EndsOrIsLost
