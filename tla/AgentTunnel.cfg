SPECIFICATION Spec
CONSTANTS
    MaxDials = 1
    Busy = {1}
    MaxData = 3
    MaxWrites = 2
    BufCap = 1
    LinkCap = 2
    Events = {"read", "cut", "wedge", "cancel", "close", "stop"}
INVARIANTS
    TypeOK
    NoGap
    ClosedIsAnnounced
CHECK_DEADLOCK FALSE
