CONSTANTS
    Sockets = {s1, s2}
    Garbage = Garbage
    InitialWorkers = 1
    MaxWorkerThreads = 1
    MaxWorkers = 1
    MaxPending = 1
    MaxFree = 1
    MaxOverPops = 0
    MaxStops = 1
    MaxArrivals = 1
SPECIFICATION Spec
PROPERTY StopTerminates
CHECK_DEADLOCK FALSE
