\* One job retried once, one executor; nothing fails but the job.
SPECIFICATION FairSpec
CONSTANTS
    j1 = j1  j2 = j2  e1 = e1  e2 = e2  t1 = t1  t2 = t2
    name1 = name1  name2 = name2
    All = All  None = None
    Executors = {e1}
    Topics = {t1}
    CrashProne = {}
    Jobs <- OneJob
    TopicOf <- OneTopicOf
    TopicFilter <- AllTopics
    Rank <- OneRank
    MaxRetries <- RetryOnce
    NameOf <- OneName
    DagJobs <- OneJob
    BatchSize = 1
    Permits = 1
    EventDriven = FALSE
    BackoffLimit = 0
    CallsMayFail = FALSE
    MaxClaims = 3
PROPERTIES
    RetriesComeToAnEnd
