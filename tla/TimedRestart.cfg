SPECIFICATION TimedSpec
CONSTANTS
    Configs <- Nightly
    Starts = {3}
    Summer = {}
    Hour = 1
    Day = 4
    Horizon = 20
    MaxEmits = 4
    MaxRestarts = 1
    NoFile = NoFile
PROPERTY BackupsSurvive
CHECK_DEADLOCK FALSE
