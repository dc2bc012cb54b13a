SPECIFICATION Spec
CONSTANTS
    x1 = x1
    x2 = x2
    y = y
    MaxPending = 2
    AutoItems = 1
    MaxText = 3
    TextLimit = 2
    TextSessions = 2
    Recipients <- RecipientList
    Maximum = 1
    MaximumPending = 3
    MaxRoom = 2
    MaxEvents = 2
    Sinks = {"s1"}
    Size = 1
    MaxCalls = 4
    MaxReload = 1
    Reason = {"r1", "r2"}
    MaxAcquire = 2
    Dial = {"d1", "d2", "d3", "d4"}
    maxSessionStreams = 2
    Length = {1, 2}
    FrameLimit = 3
    ByteLimit = 4
    MaxSend = 4
    heartbeatFailureLimit = 3
    MaxPing = 5
    MaxStream = 2
INVARIANTS
    TypeOK
    SentMeansStored
    NothingLeftBehind
    OneAtATime
    AutoBudget
    NotStranded
    DeliveredInOrder
    BooksAgree
    BatchSettled
    NoUselessLock

    
SYMMETRY Swap
CHECK_DEADLOCK FALSE
