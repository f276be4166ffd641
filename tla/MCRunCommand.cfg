SPECIFICATION FairSpec
CONSTANTS
    Slices = {s1}
    MaxRetries = 1
    MaxRuns = 1
    MaxSays = 3
INVARIANTS
    MergeWaitsForAgents
    
    NothingLeftBehind
CHECK_DEADLOCK FALSE
PROPERTIES
    RunEnds
