SPECIFICATION Spec
CONSTANTS
    Member = {m1}
    Owner = owner
    ReplayMax = 1
    DedupeMax = 2
    PendingMax = 2
    MaxText = 1
    MaxOwnerText = 1
    MaxStream = 3
    MaxToggle = 1
    Active = {m1}
INVARIANTS
    TypeOK
    MembershipInterval
    NoGapAfterResume
    NothingWithheld
PROPERTY
    ImplementsRoom
CHECK_DEADLOCK FALSE
