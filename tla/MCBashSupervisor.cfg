SPECIFICATION FairSpec
CONSTANTS
    MaxProcs = 2
    Tools = {r1, r2}
    Capacity = 1
    MaxWrites = 1
INVARIANTS
    OwnedOrKilled

    
CHECK_DEADLOCK FALSE
