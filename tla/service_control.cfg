CONSTANTS
    Ticks = 8
    MaxSleep = 2
    StartHint = 2
    PendingHint = 3
    MaxOther = 2
SPECIFICATION Spec
INVARIANTS
    TypeOK
    TimeoutJustified
    StoppedBeforeDelete
    EventSourceFirst
PROPERTIES
    CommandEnds
