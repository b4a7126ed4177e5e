SPECIFICATION Spec
CONSTANTS
    maxBytes = 3
    backupCount = 2
    mode = "a"
    None = None
    Texts <- MCTexts
    MaxEmits = 5
    MaxFaults = 2
INVARIANTS
    TypeOK
    UnbrokenHistory
    SizesBounded
    ReturnedIsOnFile
CHECK_DEADLOCK FALSE
