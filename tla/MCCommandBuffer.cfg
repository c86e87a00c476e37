\* Both policies, and every number of buffers that behaves differently.
\* Five lines are more than any of the queues holds.
SPECIFICATION FairSpec
CONSTANTS
    QueueSizes <- SmallQueues
    MaxLines = 5
    MaxEmpty = 2
INVARIANTS
    TypeInv
    NoAliasing
    Conservation
    NoDropNeverDiscards
    SoundWhileInputIs
PROPERTIES
    Freshness
    FeedSpec
    EveryLineIsServed
\* The process may end in _exit(), abort() or an undefined read.
CHECK_DEADLOCK FALSE
