SPECIFICATION FairSpec
CONSTANTS
    Depth = 2
    ArgBytes = 1
    BlockSize = 2
    NBlocks = 2
    Addresses = {0, 1, 2}
    Contents <- MCContents
    Busy = 1
    MaxOps = 3
    MaxTimeouts = 1
    MaxResets = 1
INVARIANTS FramedByItsLines ReadsWhatWasWritten
PROPERTIES OperationsReturn
CHECK_DEADLOCK FALSE
