SPECIFICATION Spec
CONSTANTS
    Empty = Empty
    t1 = t1
    t2 = t2
    Texts = {t1, t2, Empty}
    MaxMemos = 3
INVARIANTS
    TypeOK
    CopiesAgree
    CapturedRowIsMeant
PROPERTIES
    ImplementsMemoStore
