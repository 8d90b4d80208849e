CONSTANTS
    Process = {p1, p2, p3}
    Nothing = Nothing
SPECIFICATION Spec
INVARIANTS
    TypeOK
    KeyIsWhole
PROPERTIES
    ImplementsAtomicKey
