SPECIFICATION FairSpec
CONSTANTS
    FifoDepth = 2
    StepQuantum = 2
    Stray = {0, 1}
    Reply = {2}
    MaxStray = 3
    MaxHost = 1
    IrqUsers = {0}
INVARIANTS
    WordWakes
PROPERTIES
    LaunchIsOneAttempt
    LaunchAgreement
    LaunchReturns
    LaunchedCoreRuns
