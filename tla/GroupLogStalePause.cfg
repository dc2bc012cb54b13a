SPECIFICATION Spec
CONSTANTS
    Member = {m1}
    Owner = owner
    ReplayMax = 2
    DedupeMax = 1
    PendingMax = 1
    MaxText = 0
    MaxOwnerText = 0
    MaxStream = 2
    MaxToggle = 1
    Active = {m1}
INVARIANT
    RecoveredPauseCurrent
CHECK_DEADLOCK FALSE
