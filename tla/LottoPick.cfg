SPECIFICATION FairPickSpec
CONSTANTS
    MaxNumber = 5
    PicksPerColumn = 3
    NumColumns = 2
INVARIANTS
    PickTypeOK
    ColumnsAreRight
    PoolIsComplement
    PoolNeverEmpty
PROPERTIES
    DrawEnds
\* a draw is over when it has all its columns
CHECK_DEADLOCK FALSE
