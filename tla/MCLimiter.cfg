SPECIFICATION FairSpec
CONSTANTS
    Callers = {c1, c2}
    Estimates = {0, 1, 3}
    Hints = {1, 2}
    TokenLimit = 2
    Window = 2
    MaxCooldown = 2
INVARIANTS
    WindowBudget
    NoLostWakeup
    WokenOnce
PROPERTIES
    ImplementsTokenWindow
    QueueDrains
