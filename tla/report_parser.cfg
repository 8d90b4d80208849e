CONSTANTS
    Descriptors <- MCDescriptors
    Bytes = {1, 4, 8, 11, 116, 128, 160, 192, 240}
    MaxBytes = 5
    Keys = {4, 8, 160, 192}
    MaxKeys = 6
SPECIFICATION Spec
CHECK_DEADLOCK FALSE
INVARIANTS
    TypeOK
    LocalItemsConsumed
    ReturnTellsOfPair
PROPERTIES
    CallReturns
    PairIsReported
