SPECIFICATION Spec
CONSTANTS
    scanlist <- Scan
    FIFOSAM = 2
    TBLOCK_LEN = 16
    ACQ132_BLOCKLEN = 4
    Settings <- Options
    FeedLines <- Feed
    HeapValues = {0, 7}
    WORD = 1024
    MaxKills = 1
    MaxRestarts = 1
INVARIANTS WindowTrue TimebaseTrue PublishedWhole AnnouncedKept
CHECK_DEADLOCK FALSE
