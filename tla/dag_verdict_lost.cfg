\* Two nodes without an edge; calls succeed.
SPECIFICATION FairSpec
CONSTANTS
    a = a  a1 = a1  a2 = a2  a11 = a11  b = b  b1 = b1  b2 = b2
    None = None
    Nodes <- Isolated
    ParentOf <- IsolatedParent
    Order <- IsolatedOrder
    Mode <- Parallel
    Initial <- Mixed
    LinkChildren = FALSE
    EventDriven = FALSE
    CallsMayFail = FALSE
CHECK_DEADLOCK FALSE
PROPERTIES
    VerdictIsFinal
