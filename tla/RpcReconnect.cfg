SPECIFICATION Spec
CONSTANTS
    Callers = {c1}
    Nobody = Nobody
    Ops = {"connect", "disconnect", "rpc"}
    Modes = {"async"}
    MaxCalls = 3
    MaxConnects = 2
INVARIANTS
    ChannelOfLiveSession
CHECK_DEADLOCK FALSE
