SPECIFICATION FairSpec
CONSTANTS
    Clients = {c1, c2}
    Nobody = Nobody
    Fds = {3}
    MaxReactors = 1
    MaxOpens = 1
    MaxRefused = 0
    MaxDeletes = 0
    MaxResizes = 1
PROPERTIES
    ResizeCompletes
CHECK_DEADLOCK FALSE
