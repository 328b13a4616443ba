SPECIFICATION FairSpec
CONSTANTS
    Scripts <- Burst
    QMax = 1
    Threshold = 2
    MaxPartial = 20
    TimeoutOn = FALSE
    Consumers = {c1, c2}
    Fds = {3}
    EarlyBytes = FALSE
    CanClose = FALSE
    MaxSessions = 1
    MaxRefused = 0
    MaxDeletes = 0
INVARIANTS
    NoStrandedConsumer
    DropsAccounted
    FullStateTracksQueue
CHECK_DEADLOCK FALSE
