SPECIFICATION FairSpec
CONSTANTS
    a = a
    b = b
    c = c
    Columns = {a, b, c}
    NumColumns = 3
    IOErrors = FALSE
    Kills = TRUE
INVARIANTS
    SavedIsPrefix
    TrapsNeedHalfMadeFile
    LoadedMirrorsFile
PROPERTIES
    HandlersEnd
