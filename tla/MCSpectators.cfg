SPECIFICATION Spec
CONSTANTS
    m1 = m1
    m2 = m2
    a = a
    b = b
    c = c
    Match = {m1, m2}
    HandlesOf <- AFightsTwice
    Fold <- Lower
    Watcher = {w1, w2}
    NoMatch = NoMatch
    Capacity = 1
    BufferSize = 1
CHECK_DEADLOCK FALSE
INVARIANTS
    TypeOK
    CapacityKept
    OnlyStopPanics
    OneCloser
    
PROPERTIES
    WatchEnds
    ChannelsAreClosed
