SPECIFICATION Spec
CONSTANTS
    Names <- MCNames
    Above <- MCAbove
    TextExt <- MCTextExt
    LevelArgs <- MCLevels
    Root = Root
    None = None
INVARIANTS
    TypeOK
    ParentIsNearest
    PlaceholdersComplete
    LinksDescend
    FlagsAgree
PROPERTY
    ImplementsHierarchy
