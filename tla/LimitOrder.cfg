SPECIFICATION Spec
CONSTANTS
    Threads = {t1, t2}
    Tables <- TwoChunks
    Plans <- OrderedPlans
    PushBound = 3
    BatchLimit = 4
CHECK_DEADLOCK FALSE
INVARIANTS
    OrderKept
