CONSTANTS
    d1 = d1
    d2 = d2
    NoDevice = NoDevice
    Device <- MCDevice
    MaxBacklog = 2
    Faults <- FaultPoint
SPECIFICATION Spec
SYMMETRY DeviceSymmetry
CHECK_DEADLOCK FALSE
INVARIANTS
    TypeOK
    QueueExclusive
    NoLostWakeup
    AccountedFor
    CleanStopOnlyOnRequest
PROPERTIES
    StatusOrder
    ImplementsSteps
