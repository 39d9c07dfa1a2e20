SPECIFICATION OutputSpec
CONSTANTS
    Names <- MCNames
    NameLen <- MCNameLen
    Inputs <- MCInputs
    Files <- MCFiles
    UINT32_MAX = 20000
    UINT16_MAX = 2
INVARIANTS SectionsReadBack RelocationsReadBack SymbolsReadBack
           CoffSectionsReadBack CoffSymbolsReadBack
           LineTableReadsBack LineTableIsPatched
