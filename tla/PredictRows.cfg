SPECIFICATION Spec
CONSTANTS
    Prompts <- TwoPrompts
    MaxRows = 3
    MaxChunks = 1
    Configs <- RowsNoCache
    Lax <- OnlyNoContent
    Null = Null
    Unset = Unset
    None = None
    Blank = Blank
    Unstorable = Unstorable
    Stray = Stray
INVARIANTS
    RowsHoldOwnAnswers
