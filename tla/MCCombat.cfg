CONSTANTS
    Fighter = {"alice", "bob"}
    NoOne = NoOne
    First = "alice"
    Stats <- FightersStats
    HPMax = 38
    StaminaMax = 12
    MomentumMax = 20
    ComboAbove = 3
    FatigueThreshold = 5
    Moves <- SomeMoves
    MaxTurns = 3
SPECIFICATION Spec
INVARIANTS TypeOK StanceFollowsMatch OutcomeIsEarned
PROPERTY EffectTiming
CHECK_DEADLOCK FALSE
