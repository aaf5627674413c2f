SPECIFICATION Spec
CONSTANTS
    a = a  b = b  c = c  w1 = w1  w2 = w2  r1 = r1  r2 = r2
    Nodes <- NodesABC
    Rank <- RankABC
    Edges <- EdgesABC
    Binds <- BindsABC
    Workers <- OneWorker
    Callers <- TwoCallers
    NoProc = NoProc
    SharedEvents = FALSE
    Budget <- NoFaults
PROPERTIES
    CancelledRunStays
CHECK_DEADLOCK FALSE
