CONSTANTS
    a1 = a1
    a2 = a2
    w1 = w1
    w2 = w2
    Agents <- MCAgents
    Items = {w1}
    UserStashes = 2
    Serial = TRUE
SPECIFICATION Spec
SYMMETRY MCAgentSymmetry
INVARIANTS
    UserWorkKept
    
    ShutdownClean
PROPERTIES
    LeavesOnlyApplied
    AgentWorkKept
