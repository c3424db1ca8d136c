SPECIFICATION Spec
CONSTANTS
    a = a
    b = b
    c = c
    Columns = {a, b, c}
    NumColumns = 3
    IOErrors = FALSE
    Kills = TRUE
INVARIANTS
    NoTryTrap
SYMMETRY ColumnSymmetry
