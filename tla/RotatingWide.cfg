SPECIFICATION Spec
CONSTANTS
    maxBytes = 4
    backupCount = 2
    mode = "a"
    None = None
    Texts <- WideTexts
    MaxEmits = 5
    MaxFaults = 0
INVARIANT
    SizesBounded
CHECK_DEADLOCK FALSE
