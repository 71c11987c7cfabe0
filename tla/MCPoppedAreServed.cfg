SPECIFICATION Spec
CONSTANTS
    Player = {a, b}
    Conn = {1}
    Session <- EachOnce
    Match = {m1, m2}
    NoSession = NoSession
    NotQueued = NotQueued
    QueueTimeout = 0
    MaxTime = 0
CHECK_DEADLOCK FALSE
PROPERTIES
    PoppedAreServed
