SPECIFICATION Spec
CONSTANTS
    x = x
    y = y
    NoName = NoName
    Names <- MCNames
    Stmts <- AllStmts
    Programs <- AllPrograms
    SizeOf <- Size
    EncodingOf <- Encode
    INT_MAX = 31
    UINT32_MAX = 9
    MaxLine = 9
    MaxColumn = 9
    INT32_MAX = 12
INVARIANTS OnlyOverflowInterrupts PassesAgree LabelsNameTheirSpans BranchesLand
           RelocationsStayInside ReferencesSettled SpansTile AlignmentHolds
           DebugRowsOrdered
