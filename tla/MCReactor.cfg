SPECIFICATION Spec
CONSTANTS
    Clients = {c1, c2}
    Nobody = Nobody
    Fds = {3, 4}
    MaxReactors = 2
    MaxOpens = 3
    MaxRefused = 1
    MaxDeletes = 1
    MaxResizes = 1
INVARIANTS
    TypeOK
    OneReactorPerFd
    WatchedIsTracked
    CountsExact
    KeptIsWatched
SYMMETRY ClientSymmetry
CHECK_DEADLOCK FALSE
