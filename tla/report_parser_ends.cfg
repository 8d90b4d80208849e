CONSTANTS
    Descriptors <- MCDescriptors
    Bytes = {4, 8, 160, 192, 240}
    MaxBytes = 2
    Keys = {4, 8}
    MaxKeys = 2
SPECIFICATION Spec
CHECK_DEADLOCK FALSE
PROPERTIES
    FinishedProcessing
