CONSTANTS
    MaxSeq = 5
    InputSeqs = {4}
    Unreliable = {"request", "output"}
    MaxRepeats = 0
    MaxLosses = 1
    None = None
SPECIFICATION FairSpec
INVARIANTS TypeOK DeliveredInOrder AckedIsKept
PROPERTIES ImplementsStream BreakIsNotified
CHECK_DEADLOCK FALSE
