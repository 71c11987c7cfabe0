SPECIFICATION Spec
CONSTANTS
    Key = {k1, k2}
    Caller = {c1, c2}
    Cost = 3
    Rate = 2
    Burst = 4
    Ttl = 2
    MaxTime = 3
    MaxSetBacks = 1
SYMMETRY Symmetry
CHECK_DEADLOCK FALSE
INVARIANTS
    WithinBudget
