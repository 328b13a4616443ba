SPECIFICATION FairSpec
CONSTANTS
    Emitters = {e1, e2}
    Consumers = {c1, c2, c3}
    MaxQueue = 2
    MaxEvents = 3
INVARIANTS
    TypeOK
    HoldsNewest
    DropsAccounted
    DeliveredOnce
    NoStrandedWaiter
PROPERTIES
    WaiterServed
