SPECIFICATION Spec
CONSTANTS
    MaxTurns = 3
    BufferSize = 2
CHECK_DEADLOCK FALSE
INVARIANTS
    TypeOK
    OneAnswerPerSlot
    StreamFollowsReplay
PROPERTIES
    EveryStepCounts
    KeepsPromise
    MatchEnds
