CONSTANTS
    Senders = {s1, s2}
    MaxSeq = 3
    Capacity = 2
    MaxAttempt = 1
    MaxDrops = 1
    None = None
SPECIFICATION FairSpec
INVARIANTS TypeOK BufferIsPending BoundedResends
PROPERTY EventuallyAcked
CHECK_DEADLOCK FALSE
