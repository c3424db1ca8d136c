SPECIFICATION Spec
CONSTANTS
    n1 = n1
    n2 = n2
    n3 = n3
    t1 = t1
    t2 = t2
    Notes = {n1, n2, n3}
    NoNote = NoNote
    Texts = {t1, t2}
    MaxListed = 4
INVARIANTS
    TypeOK
    BackgroundIsSaved
    CountedRowsAreThere
    ListedIsStored
    ListMirrorsStore
    IdsAreUnique
PROPERTIES
    DeletionIsFinal
    ImplementsNoteStore
SYMMETRY MemoSymmetry
