SPECIFICATION Spec
CONSTANTS
    Clients = {c1, c2}
    Nobody = Nobody
    Fds = {3, 4}
    MaxReactors = 1
    MaxOpens = 3
    MaxRefused = 0
    MaxDeletes = 2
    MaxResizes = 0
INVARIANTS
    ActiveIsWatched
CHECK_DEADLOCK FALSE
