SPECIFICATION FairSpec
CONSTANTS
    Triples <- FewTriples
    CommentLine = CommentLine
    BadLine = BadLine
    MaxLines = 3
    MaxEvents = 2
    FailCodes = {255}
    Garbage = {1}
INVARIANTS
    ValidatorIsCurrent
    EventNumbersUnique
    AnsweredInOrder
PROPERTY
    EveryLineTaken
\* The program may exit, complete, or wait for a feed that has ended.
CHECK_DEADLOCK FALSE
