\* Two jobs of two topics, one retried once; two executors driven by events, one
\* for every topic and mortal, one for t2 only.  Calls succeed.
SPECIFICATION Spec
CONSTANTS
    j1 = j1  j2 = j2  e1 = e1  e2 = e2  t1 = t1  t2 = t2
    name1 = name1  name2 = name2
    All = All  None = None
    Executors = {e1, e2}
    Topics = {t1, t2}
    CrashProne = {e1}
    Jobs <- TwoJobs
    TopicOf <- TwoTopicOf
    TopicFilter <- MixedFilter
    Rank <- TwoRank
    MaxRetries <- RetryFirst
    NameOf <- TwoNames
    DagJobs <- OneJob
    BatchSize = 2
    Permits = 1
    EventDriven = TRUE
    BackoffLimit = 0
    CallsMayFail = FALSE
    MaxClaims = 2
INVARIANTS
    CompletedRunSucceeded
    TopicIsolation
    PermitsAccounted
    IInv
PROPERTIES
    ImplementsLifecycle
