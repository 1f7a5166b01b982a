\* One tree, the inserted rows linked to their nodes; any await may fail.
SPECIFICATION FairSpec
CONSTANTS
    a = a  a1 = a1  a2 = a2  a11 = a11  b = b  b1 = b1  b2 = b2
    None = None
    Nodes <- Tree
    ParentOf <- TreeParent
    Order <- TreeOrder
    Mode <- Parallel
    Initial <- Mixed
    LinkChildren = TRUE
    EventDriven = TRUE
    CallsMayFail = TRUE
CHECK_DEADLOCK FALSE
INVARIANTS
    JobsFollowParents
    VerdictIsTrue
    IInv
PROPERTIES
    VerdictComes
    VerdictsAgree
