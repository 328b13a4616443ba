SPECIFICATION FairSpec
CONSTANTS
    N = 3
    MaxTasks = 5
    Forever = {4}
INVARIANTS
    TypeOK
    InflightExact
    NoStrandedTask
    ExactlyOnePlace
    DrainedWhenJoined
    WorkerFifo
PROPERTIES
    EveryTaskFinishes
CHECK_DEADLOCK FALSE
