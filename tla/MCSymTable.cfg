SPECIFICATION Spec
CONSTANTS
    a = a
    b = b
    Names <- MCNames
    Hash <- MCHash
    Buckets = 2
    Places <- MCPlaces
INVARIANTS AcceptanceIsOrderFree OutputListIsExact
PROPERTIES EntriesAreFinal ImplementsRules
