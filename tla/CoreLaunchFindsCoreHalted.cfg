SPECIFICATION Spec
CONSTANTS
    FifoDepth = 2
    StepQuantum = 1
    Stray = {0, 2}
    Reply = {2}
    MaxStray = 1
    MaxHost = 1
    IrqUsers = {0, 1}
PROPERTIES
    LaunchFindsCoreHalted
