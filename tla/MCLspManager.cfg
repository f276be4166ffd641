SPECIFICATION LspFairSpec
CONSTANTS
    LspTools = {t1}
    LspHooks = {h1}
INVARIANTS
    OwnedOrClosing
    UsedIsShared
PROPERTIES
    NobodyStranded
    UnownedServersEnd
CHECK_DEADLOCK FALSE
