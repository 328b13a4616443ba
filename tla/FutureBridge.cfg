SPECIFICATION FairSpec
CONSTANTS
    Calls = {f1, f2, f3}
    NoCall = NoCall
    MayGarble = {f1}
INVARIANTS
    TypeOK
    PollerInOnePlace
    NoStrandedPoller
PROPERTIES
    KeepsPromise
    Answered
CHECK_DEADLOCK FALSE
