CONSTANTS
    d1 = d1
    d2 = d2
    NoDevice = NoDevice
    Device = {d1}
    MaxBacklog = 2
    Faults <- FaultPoint
SPECIFICATION SlowDeviceSpec
CHECK_DEADLOCK FALSE
PROPERTIES
    HandlerReturns
    IncompleteStartupFails
