SPECIFICATION FairSpec
CONSTANTS
    N = 2
    ToFifo = {1}
    Depth = 1
    Counts = {0, 1, 2}
    Ctrls <- MCCtrls
    MaxOps = 3
INVARIANTS TypeOK
PROPERTIES RunIsWhole RunEnds CompletionPends
CHECK_DEADLOCK FALSE
