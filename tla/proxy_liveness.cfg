CONSTANTS
    Sockets = {s1, s2}
    Garbage = Garbage
    InitialWorkers = 1
    MaxWorkerThreads = 1
    MaxWorkers = 1
    MaxPending = 3
    MaxFree = 1
    MaxOverPops = 0
    MaxStops = 2
    MaxArrivals = 3
SPECIFICATION Spec
INVARIANTS
    TypeOK
    DeletedIsUnused
PROPERTIES
    UnreadOnlyIfStranded
    
CHECK_DEADLOCK FALSE
