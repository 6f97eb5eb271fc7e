CONSTANTS
    Callers = {c1, c2}
    Hosts <- MCHosts
    Rules <- MCRules
    Zone <- MCZone
    TTLs = {0, 3}
    MaxEntries = 1
    MaxTime = 3
    MaxFailures = 1
    None = None
SPECIFICATION FairSpec
INVARIANTS NotOutlived RequeriedAfterInvalidate EvictsTheFirstToExpire
PROPERTY Answered
CHECK_DEADLOCK FALSE
