CONSTANTS
    Sockets = {s1}
    Garbage = Garbage
    InitialWorkers = 1
    MaxWorkerThreads = 1
    MaxWorkers = 1
    MaxPending = 1
    MaxFree = 1
    MaxOverPops = 0
    MaxStops = 3
    MaxArrivals = 1
    Commands = {1, 2}
    MaxClients = 2
SPECIFICATION Spec
INVARIANTS
    TypeOK
    ListenEndsByCommand
    NothingIsDispatched
PROPERTIES
    ClientsAreReplaced
    
    ProxySpec
CHECK_DEADLOCK FALSE
