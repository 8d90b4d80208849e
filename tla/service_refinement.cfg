CONSTANTS
    d1 = d1
    d2 = d2
    NoDevice = NoDevice
    Device <- MCDevice
    MaxBacklog = 1
    Faults = {}
SPECIFICATION Spec
CHECK_DEADLOCK FALSE
PROPERTIES
    ImplementsPromise
    StopCompletes
