SPECIFICATION Spec
CONSTANTS
    MaxBlocks = 3
    NAZM_MAX_ERRORS = 3
INVARIANTS MemorySafe NothingLeaks ResultIsWhole FailuresAreReported Ownership
PROPERTIES CallsReturn
