\* The default queue size of CommandBuffer::create, maxq = 4.
SPECIFICATION Spec
CONSTANTS
    QueueSizes <- DefaultQueue
    MaxLines = 1
    MaxEmpty = 5
INVARIANT AssertNeverFails
CHECK_DEADLOCK FALSE
