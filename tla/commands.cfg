CONSTANTS
    a = a
    b = b
    Path = {a, b}
    NoPath = NoPath
    MAXDWORD = 3
    Platforms = {"linux", "windows"}
    Devices <- MCDevices
    NoDevice = NoDevice
    Indeterminate = Indeterminate
    Modulus = 64
    ShortModulus = 16
    MaxTransfer = 12
    Arguments <- MCArguments
    Lengths = {121, 122}
    ERROR_INSUFFICIENT_BUFFER = 122
SPECIFICATION Spec
CHECK_DEADLOCK FALSE
INVARIANTS
    TypeOK
    FirstFailureDecides
    ZeroMeansServed
    EveryInstalledVisited
    ExitTellsWhetherDone
PROPERTIES
    CommandEnds
