SPECIFICATION FairSpec
CONSTANTS
    a = a
    b = b
    i = i
    j = j
    Txns = {a, b, i}
    Loader = Loader
    Embeddings = {e}
    None = None
    Base <- TwoRows
    NullRows <- FirstNull
    Size <- Sizes
    Program <- Statements
INVARIANTS
    IInv
    TypeOK
    StorageInv
    EntryMatchesColumn
    InsertedRowsKept
    OnlyCommittedRows
    VectorsOfSnapshot
    TableWritable
PROPERTIES
    CatalogStable
    RowsStable
    TransactionsEnd
CHECK_DEADLOCK FALSE
