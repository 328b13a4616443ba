SPECIFICATION FairSpec
CONSTANTS
    Callers = {c1, c2}
    Nobody = Nobody
    Ops = {"connect", "disconnect", "lockedValidatedEdit"}
    Modes = {"async", "sync"}
    MaxCalls = 4
    MaxConnects = 2
INVARIANTS
    TypeOK
    ReplyIsOwn
    ConnectedHasChannel
    EditsUnderLock
    LockReleased

    
CHECK_DEADLOCK FALSE
