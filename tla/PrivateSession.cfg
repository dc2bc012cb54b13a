SPECIFICATION Spec
CONSTANTS
    Pages = {a, b}
    NoPage = none
    MaxCalls = 2
    MaxEvents = 1
    FailureLimit = 2
INVARIANTS
    TypeOK
    FailedNeverOpens
    FreeAgain
    OpenedByConfirm
PROPERTIES
    NeverReplaced
    HalfSessionEnds
    ConnectReturns
CHECK_DEADLOCK FALSE
