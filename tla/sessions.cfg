SPECIFICATION FairSpec
CONSTANTS
    Conns = {c1, c2, c3}
    MaxConnections = 2
    Threshold = 2
    Retry = 2
    BoxMayReset = TRUE
INVARIANTS LimitHolds IdleIsDisconnected CloudFlagHasHandler RuntimeModeAgrees OfflineAtThreshold
PROPERTIES ImplementsGate FailedDialShuts Recovers
