CONSTANTS
    s1 = s1
    s2 = s2
    f1 = f1
    Sessions <- MCSessions
    Forks <- MCForks
    MaxCached = 1
    Keeps = {1}
    MaxClock = 4
    SwitchWhole = TRUE
SPECIFICATION Spec
SYMMETRY MCSymmetry
INVARIANTS
    HistoryKept
    
    BranchesApart
    InOrder
