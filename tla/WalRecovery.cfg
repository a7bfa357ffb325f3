SPECIFICATION FairSpec
CONSTANTS
    Txns = {t1, t2, e}
    Embeddings = {e}
    Blocks = {b1, b2}
    NoTxn = NoTxn
    Settings <- RecoverableWorlds
    MaxIteration = 3
CHECK_DEADLOCK FALSE
INVARIANTS
    IInv
    TypeOK
    AckedSurvive
    MemoryRecoverable
PROPERTIES
    CheckpointedVectorsKept
    KeepsContract
    Reopens
    CheckpointEnds
