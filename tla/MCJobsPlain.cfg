SPECIFICATION FairSpec
CONSTANTS
    w1 = w1
    w2 = w2
    JobIds = {j1}
    FlowJobs = {}
    Workers = {w1, w2}
    Owners = {w1, w2}
    OwnerOf <- OwnOwner
    NoOwner = NoOwner
    NoJob = NoJob
    MaxAttempts = 2
    Budget <- TwoOfCrashStallCancel
CHECK_DEADLOCK FALSE
INVARIANTS
    ExclusiveUnlessStalled
PROPERTIES
    FencedOffForGood
    EveryJobSettles
    ImplementsFence
