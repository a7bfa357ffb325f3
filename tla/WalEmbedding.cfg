SPECIFICATION Spec
CONSTANTS
    Txns = {t1, e}
    Embeddings = {e}
    Blocks = {b1, b2}
    NoTxn = NoTxn
    Settings <- OneCrash
    MaxIteration = 2
CHECK_DEADLOCK FALSE
INVARIANTS
    EmbeddingsSurvive
