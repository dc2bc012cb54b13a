SPECIFICATION FairSpec
CONSTANTS
    Member = {m1}
    Owner = owner
    ReplayMax = 2
    DedupeMax = 2
    PendingMax = 2
    MaxText = 2
    MaxOwnerText = 0
    MaxStream = 2
    MaxToggle = 2
    Active = {m1}
INVARIANTS
    NoDuplicateCommit
    SubmissionOrder
    FailedOnlyAfterResync
PROPERTIES
    DraftsSettle
    MembersConverge
CHECK_DEADLOCK FALSE
