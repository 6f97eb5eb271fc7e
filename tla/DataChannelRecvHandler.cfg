CONSTANTS
    MaxSeq = 3
    InputSeqs = {}
    Unreliable = {}
    MaxRepeats = 0
    MaxLosses = 0
    None = None
SPECIFICATION Spec
INVARIANT NothingDiscarded
CHECK_DEADLOCK FALSE
