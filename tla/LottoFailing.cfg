SPECIFICATION Spec
CONSTANTS
    a = a
    b = b
    c = c
    Columns = {a, b, c}
    NumColumns = 3
    IOErrors = TRUE
    Kills = TRUE
INVARIANTS
    TypeOK
    SavedIsSubsequence
    StaleOnlyAfterFailedLoad
PROPERTIES
    HalfMadeForever
    ImplementsStore
SYMMETRY ColumnSymmetry
