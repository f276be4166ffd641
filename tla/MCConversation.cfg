CONSTANTS
    f1 = f1
    f2 = f2
    Files <- MCFiles
    KeepRecent = 1
    MaxRetries = 1
    MaxStuck = 1
    MaxTurns = 2
    MaxCalls = 2
    MaxUpsets = 2
SPECIFICATION Spec
SYMMETRY MCSymmetry
CHECK_DEADLOCK FALSE
INVARIANTS
    CallsAnswered
    
PROPERTIES
    RetryIsHarmless
    
