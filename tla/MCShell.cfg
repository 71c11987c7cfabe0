SPECIFICATION Spec
CONSTANTS
    older = older
    newer = newer
    Server <- MCServer
    Files <- MCFiles
    MaxStarts = 2
    Handle = {h1}
    Identity = {p1, p2}
    Nobody = Nobody
    Conn = {c1, c2}
    MaxLogins = 2
    MaxFights = 2
CHECK_DEADLOCK FALSE
INVARIANTS
    TypeOK
    SameIdentity
    QueueGate
    OneSessionEach
    RunsCounted
    MigratedInOrder
    SomebodyGetsThrough
PROPERTIES
    CompletionIsFinal
    HangUpsEnd
