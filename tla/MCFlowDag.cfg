SPECIFICATION Spec
CONSTANTS
    a = a  b = b  c = c  d = d
    Ids <- SomeIds
    Graphs <- AllGraphs
INVARIANTS
    TypeOK
    Complete
    RejectedForCycle
    PublishedIsSortable
CHECK_DEADLOCK FALSE
