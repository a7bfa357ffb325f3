SPECIFICATION Spec
CONSTANTS
    Prompts <- TwoPrompts
    MaxRows = 4
    MaxChunks = 1
    Configs <- AllConfigs
    Lax <- AnyReply
    Null = Null
    Unset = Unset
    None = None
    Blank = Blank
    Unstorable = Unstorable
    Stray = Stray
INVARIANTS
    IInv
    OwnAnswers
    OpenRowsFailedTwice
    InputOutlivesRequests
PROPERTIES
    SettledOnce
