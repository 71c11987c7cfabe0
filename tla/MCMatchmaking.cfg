SPECIFICATION Spec
CONSTANTS
    Player = {a, b, c}
    Conn = {1}
    Session <- EachOnce
    Match = {m1, m2, m3}
    NoSession = NoSession
    NotQueued = NotQueued
    QueueTimeout = 1
    MaxTime = 1
SYMMETRY Symmetry
CHECK_DEADLOCK FALSE
INVARIANTS
    TypeOK
    HeldByOne
    

    
