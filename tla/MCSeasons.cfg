SPECIFICATION Spec
CONSTANTS
    m1 = m1
    m2 = m2
    m3 = m3
    a = a
    b = b
    c = c
    d = d
    Match = {m1, m2, m3}
    PlayersOf <- Pairs
    Duration = 1
    MaxTime = 3
CHECK_DEADLOCK FALSE
INVARIANTS
    TypeOK
    HoldersNeverWait
PROPERTIES
    RecordsAtomically
    FinalizeEnds
