\* A root retried once and its child; every call may fail and the process may die.
SPECIFICATION FairSpec
CONSTANTS
    a = a  a1 = a1
    All = All  None = None  Process = Process  Topic = Topic
    Nodes <- Pair
    ParentOf <- PairParent
    Order <- PairOrder
    Mode <- PairMode
    Initial <- PairInitial
    LinkChildren = FALSE
    Rank <- SameRank
    MaxRetries <- PairRetries
    NameOf <- OwnName
    BatchSize = 2
    Permits = 1
    BackoffLimit = 0
    CallsMayFail = TRUE
    Mortal = TRUE
    MaxClaims = 2
CHECK_DEADLOCK FALSE
INVARIANTS
    CallInv
    WorkFollowsParents
    VerdictIsEarned
    StallHasACause
PROPERTIES
    ImplementsOrchestrator
    ImplementsRun
    
