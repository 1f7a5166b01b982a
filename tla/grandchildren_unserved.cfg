\* A tree of three generations, as the code is; calls succeed.
SPECIFICATION FairSpec
CONSTANTS
    a = a  a1 = a1  a2 = a2  a11 = a11  b = b  b1 = b1  b2 = b2
    None = None
    Nodes <- Tree
    ParentOf <- TreeParent
    Order <- TreeOrder
    Mode <- Parallel
    Initial <- Mixed
    LinkChildren = FALSE
    EventDriven = TRUE
    CallsMayFail = FALSE
CHECK_DEADLOCK FALSE
PROPERTIES
    ChildrenGetJobs
