SPECIFICATION Spec
CONSTANTS
    w1 = w1
    w2 = w2
    JobIds = {j1}
    FlowJobs = {j1}
    Workers = {w1, w2}
    Owners = {w1, w2}
    OwnerOf <- OwnOwner
    NoOwner = NoOwner
    NoJob = NoJob
    MaxAttempts = 2
    Budget <- AnyThree
SYMMETRY Symmetry
CHECK_DEADLOCK FALSE
INVARIANTS
    TypeOK
    FencingInv
    FreshJobsCovered
    RunningJobReapable
    AttemptsExact
PROPERTIES
    SuccessIsFenced
    TerminalLeftOnlyUnfenced
    StrandedForGood
