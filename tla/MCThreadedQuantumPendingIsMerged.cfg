SPECIFICATION Spec
CONSTANTS
    Quanta = 2
    StepQuantum = 1
    MaxCost = 1
    FifoDepth = 1
    HaltedCores = {}
    Firmware <- MCFirmware
    Leftover = {"wfe_waiting", "event_flag", "fifo", "timer_level"}
PROPERTIES
    PendingIsMerged
