CONSTANTS
    Sockets = {s1}
    Garbage = Garbage
    InitialWorkers = 1
    MaxWorkerThreads = 2
    MaxWorkers = 2
    MaxPending = 1
    MaxFree = 2
    MaxOverPops = 1
    MaxStops = 2
SPECIFICATION Spec
INVARIANTS
    TypeOK
    FreeOnce
    ExclusiveAssignment
    NoWorkerLost
    PushIsAlone
PROPERTY WorkerSpec
CONSTRAINT StopOrSpawn
CHECK_DEADLOCK FALSE
