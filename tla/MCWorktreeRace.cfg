CONSTANTS
    a1 = a1
    a2 = a2
    w1 = w1
    w2 = w2
    Agents <- MCAgents
    Items <- MCItems
    UserStashes = 0
    Serial = FALSE
SPECIFICATION Spec
SYMMETRY MCSymmetry
PROPERTY
    LeavesOnlyApplied
