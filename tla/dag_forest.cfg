\* Two trees, as the code is; any await may fail.  A DAG comes to rest.
SPECIFICATION FairSpec
CONSTANTS
    a = a  a1 = a1  a2 = a2  a11 = a11  b = b  b1 = b1  b2 = b2
    None = None
    Nodes <- Forest
    ParentOf <- ForestParent
    Order <- ForestOrder
    Mode <- ForestMode
    Initial <- Mixed
    LinkChildren = FALSE
    EventDriven = TRUE
    CallsMayFail = TRUE
CHECK_DEADLOCK FALSE
INVARIANTS
    ChildrenStartedOrLost
    SkippedOrLost
    AnnouncedAreQueued
PROPERTIES
    ImplementsLifecycle
    EndsPropagate
