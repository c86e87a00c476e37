SPECIFICATION FairSpec
CONSTANTS
    BufCap = 4
    CHILD_ERROR_MAX = 2
    MaxLines = 4
INVARIANTS
    NoDataLoss
    NoFalseKill
PROPERTIES
    WatchdogEnds
CHECK_DEADLOCK FALSE
