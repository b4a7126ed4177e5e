SPECIFICATION Spec
CONSTANTS
    Names <- MCNames
    Above <- MCAbove
    TextExt <- MCTextExt
    LevelArgs = {10, 40}
    Root = Root
    None = None
INVARIANT EffectiveLevelInherited
