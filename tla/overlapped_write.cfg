CONSTANTS
    Sizes = {1, 7, 9}
SPECIFICATION Spec
CHECK_DEADLOCK FALSE
INVARIANTS
    TypeOK
    NothingPendingOnReturn
    SentIfTaken
PROPERTIES
    ImplementsReportWrite
