SPECIFICATION FairSpec
CONSTANTS
    Quanta = 2
    StepQuantum = 1
    MaxCost = 2
    FifoDepth = 1
    HaltedCores = {}
    Firmware <- MCFirmware
    Leftover = {}
INVARIANTS
    TimerLatency
    ClocksAgree
PROPERTIES
    EventServed
    AllDone
