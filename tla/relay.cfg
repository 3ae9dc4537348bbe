CONSTANTS
    Threads = {t1, t2}
    NumSenders = 2
    MaxPacketSize = 2
    Sizes = {0, 1, 3}
    MaxDatagrams = 2
    CounterSize = 8
    Frequency = 1
SPECIFICATION Spec
INVARIANTS
    TypeOK
    NoPacketLost
    BytesAreReceived
    UnreadIsCovered
    CountsFollowTraffic
PROPERTY ImplementsRelay
CHECK_DEADLOCK FALSE
SYMMETRY ThreadSymmetry
CONSTRAINT WriterOrOverlap
