SPECIFICATION Spec
CONSTANTS
    Inputs <- MCInputs
    RowSize = 2
INVARIANT ListingIsExact
