CONSTANTS
    Owner = Owner
    Handler = Handler
    Workers = {w1}
    MaxCalls = 2
SPECIFICATION Spec
INVARIANTS
    TypeOK
    LinesAreWhole
    TextsAreOwn
    ReturnedIsInFile
PROPERTY CallsReturn
CHECK_DEADLOCK FALSE
