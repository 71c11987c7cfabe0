SPECIFICATION FairSpec
CONSTANTS
    a = a
    b = b
    Player = {a, b}
    Conn = {1, 2}
    Session <- FirstTwice
    Match = {m1, m2}
    NoSession = NoSession
    NotQueued = NotQueued
    QueueTimeout = 0
    MaxTime = 0
CHECK_DEADLOCK FALSE
INVARIANTS
    RegisteredWhileOpen
PROPERTIES
    BusyEnds
    PairsAreServed
    StopReturns
    HoldsExclusively
