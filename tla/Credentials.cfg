SPECIFICATION FairSpec
CONSTANTS
    Loaders = {l1, l2}
    MaxVersion = 2
    MaxRemaining = 4000
INVARIANTS TypeOK FailureIsRetried ExpiryIsWatched NewestReachesBackend RefreshIsTimely
PROPERTIES SenderIsReleased RecoversFromOutage
CHECK_DEADLOCK FALSE
