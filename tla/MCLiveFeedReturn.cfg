\* One line and one worker that exits with -1 are enough.
SPECIFICATION Spec
CONSTANTS
    Triples <- FewTriples
    CommentLine = CommentLine
    BadLine = BadLine
    MaxLines = 2
    MaxEvents = 2
    FailCodes = {255}
    Garbage = {}
INVARIANT ReturnsEventsOrError
CHECK_DEADLOCK FALSE
