SPECIFICATION Spec
CONSTANTS
    Prompts <- TwoPrompts
    MaxRows = 3
    MaxChunks = 1
    Configs <- BatchNoCache
    Lax <- OnlyGarbled
    Null = Null
    Unset = Unset
    None = None
    Blank = Blank
    Unstorable = Unstorable
    Stray = Stray
PROPERTIES
    UnparsedFallsBack
