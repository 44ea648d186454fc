SPECIFICATION Spec
CONSTANTS
    Thread = {w0, w1, coord}
    Quanta = 2
    SpinBudget = 1
    WatchdogStride = 2
    GenMod = 2
    ElapsedMs = {1, 2}
SYMMETRY Symmetry
INVARIANTS
    TypeOK
    NoEarlyRelease
    NoLostWakeup
    PoisonedOnlyByPanic
    TimeoutIsRecorded
PROPERTIES
    FailureIsSticky
    ImplementsRendezvous
