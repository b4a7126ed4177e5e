\* The peer comes and goes and the clock is set back once.
SPECIFICATION Spec
CONSTANTS
    RetryStart = 1
    RetryMax = 3
    RetryFactor = 2
    Timeout = 1
    Horizon = 9
    MaxRecords = 4
    MaxSetBacks = 1
    None = None
INVARIANTS
    TypeOK
    StreamsSound
    AttemptsBackOff
