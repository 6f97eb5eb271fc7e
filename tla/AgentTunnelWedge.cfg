SPECIFICATION HostSpec
CONSTANTS
    MaxDials = 1
    Busy = {1}
    MaxData = 2
    MaxWrites = 2
    BufCap = 1
    LinkCap = 2
    Events = {"wedge"}
PROPERTIES
    WedgeIsNoticed
CHECK_DEADLOCK FALSE
