\* The buffer is larger than the run: nothing but exit() flushes it.
SPECIFICATION FairSpec
CONSTANTS
    BufCap = 8
    CHILD_ERROR_MAX = 1
    MaxLines = 2
PROPERTY HangIsKilled
CHECK_DEADLOCK FALSE
