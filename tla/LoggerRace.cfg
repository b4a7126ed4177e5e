SPECIFICATION Spec
CONSTANTS
    t1 = t1
    t2 = t2
    None = None
    Root = "root"
    Names <- MCNames
    Above <- MCAbove
    TextExt <- MCTextExt
    LevelArgs = {}
    Threads = {t1, t2}
    MaxCalls = 2
INVARIANTS
    TypeOK
    RestingLinksDescend
PROPERTY
    ImplementsTree
CHECK_DEADLOCK FALSE
