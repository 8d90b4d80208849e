CONSTANTS
    d1 = d1
    d2 = d2
    NoDevice = NoDevice
    Device <- MCDevice
    MaxBacklog = 1
    Faults = {"devices_mutex"}
SPECIFICATION Spec
CHECK_DEADLOCK FALSE
INVARIANTS
    StartedComplete
