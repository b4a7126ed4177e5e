SPECIFICATION TimedSpec
CONSTANTS
    Configs <- MCConfigs
    Starts = {3}
    Summer <- MCSummer
    Hour = 1
    Day = 4
    Horizon = 30
    MaxEmits = 3
    MaxRestarts = 1
    NoFile = NoFile
INVARIANTS
    TimedTypeOK
    OnSchedule
    FiledByPeriod
PROPERTY BackupsSurviveInUtc
CHECK_DEADLOCK FALSE
