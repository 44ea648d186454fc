SPECIFICATION FairSpec
CONSTANTS
    Thread = {core0, core1}
    Quanta = 2
    SpinBudget = 2
    WatchdogStride = 2
    GenMod = 2
    ElapsedMs = {1}
PROPERTIES
    WaitReturns
    AllExit
