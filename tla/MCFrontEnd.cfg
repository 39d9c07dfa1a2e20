SPECIFICATION FrontEndSpec
CONSTANTS
    Sources <- MCTexts
    Letters = {"L", "R"}
    Mnemonics <- MCMnemonics
    Registers <- MCRegisters
    ReservedStart = {"R"}
    Tolerated <- MCTolerated
    Width = 4
    MaxErrors = 2
    ByteStrings <- MCByteStrings
    TokenLists <- MCTokenLists
    ClassOf <- MCClassOf
    Spelling <- MCSpelling
    Arity <- MCArity
    Wide = {"wide"}
    LegacyRegisters = {"oldreg"}
    LegacyDirectives = {".old"}
    DispMax = 1
    MaxOperands = 3
INVARIANTS CharactersStayWhole PositionsFollowTheSource NothingDroppedSilently
           LiteralsAreExact LinesAreReadOrReported StatementsFollowTheLines
PROPERTY FrontEndEnds
