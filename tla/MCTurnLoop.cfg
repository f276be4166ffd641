SPECIFICATION FairSpec
CONSTANTS
    MaxActions = 3
    MaxOutputs = 1
    GoalMaxCycles = 2
    MaxPending = 2
    Buffer = 1
INVARIANTS
    OneListener
PROPERTIES
    StopIsHeeded
    PromptsRun
CHECK_DEADLOCK FALSE
