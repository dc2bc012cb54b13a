SPECIFICATION Spec
CONSTANTS
    Member = {m1, m2}
    Owner = owner
    MaxOutstanding = 1
    MaxTicket = 2
    MaxStream = 1
    MaxToggle = 0
INVARIANT
    NoMutualWait
SYMMETRY MemberSymmetry
CHECK_DEADLOCK FALSE
