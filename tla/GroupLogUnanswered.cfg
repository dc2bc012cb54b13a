SPECIFICATION FairSpec
CONSTANTS
    Member = {m1}
    Owner = owner
    ReplayMax = 3
    DedupeMax = 1
    PendingMax = 1
    MaxText = 1
    MaxOwnerText = 1
    MaxStream = 2
    MaxToggle = 0
    Active = {m1}
PROPERTY
    EveryDraftAnswered
CHECK_DEADLOCK FALSE
