SPECIFICATION FairSpec
CONSTANTS
    a = a  b = b  c = c  w1 = w1  w2 = w2  r1 = r1  r2 = r2
    Nodes <- NodesA
    Rank <- RankA
    Edges <- EdgesA
    Binds <- BindsA
    Workers <- OneWorker
    Callers <- OneCaller
    NoProc = NoProc
    SharedEvents = TRUE
    Budget <- KillAndRevoke
PROPERTIES
    RunsProgress
CHECK_DEADLOCK FALSE
