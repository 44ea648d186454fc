SPECIFICATION FairSpec
CONSTANTS
    Quanta = 3
    StepQuantum = 1
    MaxCost = 1
    FifoDepth = 1
    HaltedCores = {}
    Firmware <- MCWaiter
    Leftover = {}
PROPERTIES
    EventUnparks
