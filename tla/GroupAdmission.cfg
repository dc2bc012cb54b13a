SPECIFICATION Spec
CONSTANTS
    Guest = {g1, g2}
    MaxMembers = 2
    MaxPending = 2
    MaxToggle = 2
INVARIANTS
    TypeOK
    SeatBound
    PendingHasToken
    NoGhostMember
PROPERTIES
    JoinAnswered
CHECK_DEADLOCK FALSE
