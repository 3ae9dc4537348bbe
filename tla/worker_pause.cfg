CONSTANTS
    Workers = {w1}
    Sockets = {s1}
    Garbage = Garbage
SPECIFICATION Spec
INVARIANTS
    TypeOK
    NoLostResume
PROPERTY ResumeIsObserved
CHECK_DEADLOCK FALSE
