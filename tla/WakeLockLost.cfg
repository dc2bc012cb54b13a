SPECIFICATION WillingSpec
CONSTANTS
    Reason = {r1, r2}
    MaxAcquire = 1
INVARIANT
    HeldAtRest
CHECK_DEADLOCK FALSE
