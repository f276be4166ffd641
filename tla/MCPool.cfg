CONSTANTS
    s1 = s1
    s2 = s2
    Spawns <- MCSpawns
    WantsWorktree <- MCWantsWorktree
    Quitters <- MCQuitters
    PoolSize = 1
    ProcCap = 1
    OutCap = 1
    MaxCompleted = 1
    MaxLines <- MCMaxLines
SPECIFICATION FairSpec
INVARIANTS
    TypeOK
    SlotAccounting
PROPERTIES
    ImplementsAgentRuns
    SlotReturns
    ConsumerIsTold
