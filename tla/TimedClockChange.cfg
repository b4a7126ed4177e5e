SPECIFICATION TimedSpec
CONSTANTS
    Configs <- Hourly
    Starts = {3}
    Summer <- MCSummer
    Hour = 1
    Day = 4
    Horizon = 20
    MaxEmits = 4
    MaxRestarts = 0
    NoFile = NoFile
PROPERTY BackupsSurvive
CHECK_DEADLOCK FALSE
