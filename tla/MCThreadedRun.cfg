SPECIFICATION FairSpec
CONSTANTS
    Pin = {pin}
    PioPin = {pin}
    Sm = {sm}
    Quanta = {2}
    MaxCalls = 2
    MaxOps = 1
    Firmware <- MCFirmware
    Operand = {0, 1}
    Seed = 0
INVARIANTS TypeOK OkIsComplete DividerSurvives CommandsTakeEffect GpioWriteSticks
PROPERTIES PanicIsReported CallReturns
CHECK_DEADLOCK FALSE
