SPECIFICATION Spec
CONSTANTS
    Scripts <- Cut
    QMax <- Unbounded
    Threshold = 1
    MaxPartial = 3
    TimeoutOn = TRUE
    Consumers = {c1}
    Fds = {3, 4}
    EarlyBytes = TRUE
    CanClose = TRUE
    MaxSessions = 2
    MaxRefused = 1
    MaxDeletes = 1
INVARIANTS
    EnqueuedAccounted
    NoStaleNotification
CHECK_DEADLOCK FALSE
