CONSTANTS
    Sockets = {s1, s2}
    Garbage = Garbage
    InitialWorkers = 2
    MaxWorkerThreads = 2
    MaxWorkers = 3
    MaxPending = 3
    MaxFree = 3
    MaxOverPops = 1
    MaxStops = 0
    MaxArrivals = 4
SPECIFICATION Safety
INVARIANT UnreadIsTracked
CHECK_DEADLOCK FALSE
SYMMETRY SocketSymmetry
