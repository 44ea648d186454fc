SPECIFICATION FairSpec
CONSTANTS
    Irq = {16, 17}
    Priority <- MCPriority
    Vectors <- MCVectors
    SvcFrom = {0, 14, 15, 16, 17}
    MaxOps = 4
    MaxRaise = 2
    MaxFrames = 5
INVARIANTS TypeOK ActiveIsNest HandlersDoNotNest
PROPERTIES PendedIsTaken
CHECK_DEADLOCK FALSE
