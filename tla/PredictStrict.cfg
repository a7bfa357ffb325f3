SPECIFICATION FairSpec
CONSTANTS
    Prompts <- TwoPrompts
    MaxRows = 3
    MaxChunks = 2
    Configs <- AllConfigs
    Lax <- Strict
    Null = Null
    Unset = Unset
    None = None
    Blank = Blank
    Unstorable = Unstorable
    Stray = Stray
INVARIANTS
    TypeOK
    SharedAnswers
    CacheAgrees
    AskedOnce
    CallsCountedOnce
    OnceInv
PROPERTIES
    ImplementsPromise
    ChunkEnds
