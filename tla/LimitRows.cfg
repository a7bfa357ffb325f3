SPECIFICATION FairSpec
CONSTANTS
    Threads = {t1, t2}
    Tables <- SomeTables
    Plans <- SomePlans
    PushBound = 3
    BatchLimit = 4
CHECK_DEADLOCK FALSE
INVARIANTS
    IInv
    RowsInv
    TypeOK
    EnoughRows
    RightRows
    FlagMeansEnough
    LinearWork
PROPERTIES
    QueryEnds
