SPECIFICATION Spec
CONSTANTS
    files_per_segment = 3
    MinSamples <- SomeMinSamples
    NChannels = 1
    CHILD_ERROR_MAX = 1
    MaxFiles = 7
    MaxSkip = 1
    MaxRestarts = 1
INVARIANTS
    StoredInOrder
    SegmentTimesTrue
    BurnedFilesAccounted
    ColumnsAgree
\* The feed may end, and the controller gives up after too many errors.
CHECK_DEADLOCK FALSE
