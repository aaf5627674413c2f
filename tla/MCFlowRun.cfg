SPECIFICATION Spec
CONSTANTS
    a = a  b = b  c = c  w1 = w1  w2 = w2  r1 = r1  r2 = r2
    Nodes <- NodesAB
    Rank <- RankAB
    Edges <- EdgesAB
    Binds <- BindsAB
    Workers <- TwoWorkers
    Callers <- OneCaller
    NoProc = NoProc
    SharedEvents = FALSE
    Budget <- AnyOne
SYMMETRY Symmetry
INVARIANTS
    TypeOK
    SuccessIsComplete
    InputsResolved
    RunningIsAttended
PROPERTIES
    ImplementsVerdict
CHECK_DEADLOCK FALSE
