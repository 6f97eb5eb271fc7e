SPECIFICATION HostSpec
CONSTANTS
    MaxDials = 2
    Busy = {1}
    MaxData = 2
    MaxWrites = 0
    BufCap = 1
    LinkCap = 20
    Events = {"cut", "wedge", "close"}
PROPERTIES
    WedgeIsNoticed
    CloseReachesTarget
    DialReturns
CHECK_DEADLOCK FALSE
