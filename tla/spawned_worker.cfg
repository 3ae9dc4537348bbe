CONSTANTS
    Sockets = {s1, s2}
    Garbage = Garbage
    InitialWorkers = 1
    MaxWorkerThreads = 2
    MaxWorkers = 2
    MaxPending = 3
    MaxFree = 4
    MaxOverPops = 0
    MaxStops = 0
    MaxArrivals = 3
SPECIFICATION Safety
INVARIANT SpawnedWorkIsTracked
CHECK_DEADLOCK FALSE
