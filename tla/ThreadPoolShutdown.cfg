SPECIFICATION DestroyingSpec
CONSTANTS
    N = 2
    MaxTasks = 2
    Forever = {}
PROPERTIES
    ShutdownCompletes
