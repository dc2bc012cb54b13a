SPECIFICATION Spec
CONSTANTS
    Member = {m1, m2}
    Owner = owner
    ReplayMax = 1
    DedupeMax = 1
    PendingMax = 1
    MaxText = 0
    MaxOwnerText = 0
    MaxStream = 2
    MaxToggle = 0
    Active = {m1}
INVARIANT
    RosterAgrees
CHECK_DEADLOCK FALSE
