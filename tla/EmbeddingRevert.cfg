SPECIFICATION Spec
CONSTANTS
    a = a
    b = b
    i = i
    j = j
    Txns = {a, b, i, j}
    Loader = Loader
    Embeddings = {e}
    None = None
    Base <- TwoRows
    NullRows <- FirstNull
    Size <- Sizes
    Program <- Statements
INVARIANTS
    RevertedAlterFails
CHECK_DEADLOCK FALSE
