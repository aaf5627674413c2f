SPECIFICATION Spec
CONSTANTS
    t1 = t1
    t2 = t2
    c1 = c1
    c2 = c2
    w1 = w1
    w2 = w2
    Turns = {t1, t2}
    Clients = {c1, c2}
    Workers = {w1, w2}
    MaxPlans = 2
    MaxRuns = 2
    MaxDead = 0
    Batch = 2
    NoTurn = NoTurn
    Budget <- AnyOne
CHECK_DEADLOCK FALSE
SYMMETRY Symmetry
INVARIANTS
    TypeOK
    ResultInv
    PaidOnce
    OnePlanUnlessRedelivered
PROPERTIES
    RunStatusOverwritten
    ImplementsLedger
