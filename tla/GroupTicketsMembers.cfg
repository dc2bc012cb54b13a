SPECIFICATION Spec
CONSTANTS
    Member = {m1, m2}
    Owner = owner
    MaxOutstanding = 1
    MaxTicket = 1
    MaxStream = 2
    MaxToggle = 0
INVARIANTS
    NothingHeldAfterNotice
SYMMETRY MemberSymmetry
CHECK_DEADLOCK FALSE
