SPECIFICATION Spec
CONSTANTS
    Names <- MCNames
    NameLen <- MCNameLen
    Inputs <- HugeInputs
    UINT32_MAX = 20000
    UINT16_MAX = 2
INVARIANT SizesAreExactOrRefused
