SPECIFICATION Spec
CONSTANTS
    Names <- ShadowNames
    Above <- ShadowAbove
    TextExt <- ShadowTextExt
    LevelArgs = {10}
    Root = Root
    None = None
INVARIANT ParentIsNearest
