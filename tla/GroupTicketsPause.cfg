SPECIFICATION Spec
CONSTANTS
    Member = {m1}
    Owner = owner
    MaxOutstanding = 1
    MaxTicket = 2
    MaxStream = 2
    MaxToggle = 2
INVARIANTS
    TypeOK
    RevokedNeverUsed
    GrantIsArmed
    OutstandingBound
    NothingHeldAfterNotice
CHECK_DEADLOCK FALSE
