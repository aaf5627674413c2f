SPECIFICATION FairSpec
CONSTANTS
    t1 = t1
    t2 = t2
    c1 = c1
    c2 = c2
    w1 = w1
    w2 = w2
    Turns = {t1}
    Clients = {c1}
    Workers = {w1, w2}
    MaxPlans = 1
    MaxRuns = 1
    MaxDead = 2
    Batch = 3
    NoTurn = NoTurn
    Budget <- OneDrop
CHECK_DEADLOCK FALSE
PROPERTY LostRunRequeued
