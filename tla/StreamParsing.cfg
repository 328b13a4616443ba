SPECIFICATION FairSpec
CONSTANTS
    Scripts <- Mixed
    QMax <- Unbounded
    Threshold = 1
    MaxPartial = 5
    TimeoutOn = TRUE
    Consumers = {}
    Fds = {3}
    EarlyBytes = FALSE
    CanClose = FALSE
    MaxSessions = 1
    MaxRefused = 0
    MaxDeletes = 0
INVARIANTS
    TypeOK
    FramesExact
    BytesAccounted
    TimerTracksPartial
PROPERTIES
    SentIsRead
    PartialReleased
CHECK_DEADLOCK FALSE
