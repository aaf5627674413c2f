SPECIFICATION FairSpec
CONSTANTS
    t1 = t1  t2 = t2  t3 = t3
    Tasks <- ThreeTasks
    Max = 2
    Budget <- Deaths
INVARIANTS
    TypeOK
    SlotsNotLost
    
    ExpiryArmed
PROPERTIES
    Unblocks
