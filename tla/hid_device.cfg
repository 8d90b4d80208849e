CONSTANTS
    Platforms = {"linux", "windows"}
    Devices <- MCDevices
    NoDevice = NoDevice
    Indeterminate = Indeterminate
    Modulus = 64
    ShortModulus = 16
    MaxTransfer = 12
SPECIFICATION Spec
INVARIANTS
    TypeOK
    CacheIsOfHandle
    SentOnlyToQMK
    SuccessIsDelivered
    ListedDeviceIsServed
