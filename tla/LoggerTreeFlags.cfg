SPECIFICATION Spec
CONSTANTS
    Names <- MCNames
    Above <- MCAbove
    TextExt <- MCTextExt
    LevelArgs = {0}
    Root = Root
    None = None
INVARIANT FlagsAgreeAlways
