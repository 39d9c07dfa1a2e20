SPECIFICATION Spec
CONSTANTS
    x = x
    y = y
    NoName = NoName
    Names <- MCNames
    Stmts <- SymbolStmts
    Programs <- ShortPrograms
    SizeOf <- Size
    EncodingOf <- Encode
    INT_MAX = 100
    UINT32_MAX = 9
    MaxLine = 9
    MaxColumn = 9
    INT32_MAX = 12
INVARIANT NothingIsPassedOver
