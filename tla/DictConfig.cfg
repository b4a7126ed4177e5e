SPECIFICATION DSpec
CONSTANTS
    Names <- MCNames
    Above <- MCAbove
    TextExt <- MCTextExt
    LevelArgs <- MCLevels
    OtherLevels <- MCOtherLevels
    MaxOthers = 1
    Configs <- MCConfigs
    Root = Root
    None = None
INVARIANTS
    ConfigTypeOK
    ConfiguredOrSpared
