SPECIFICATION FrontEndSpec
CONSTANTS
    Sources <- MinusTexts
    Letters = {"L", "R"}
    Mnemonics <- MCMnemonics
    Registers <- MCRegisters
    ReservedStart = {"R"}
    Tolerated <- MCTolerated
    Width = 4
    MaxErrors = 2
    ByteStrings = {}
    TokenLists = {}
    ClassOf <- MCClassOf
    Spelling <- MCSpelling
    Arity <- MCArity
    Wide = {"wide"}
    LegacyRegisters = {"oldreg"}
    LegacyDirectives = {".old"}
    DispMax = 1
    MaxOperands = 3
INVARIANT ColumnsAreCodepoints
