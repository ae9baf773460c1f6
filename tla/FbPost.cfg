SPECIFICATION Spec
CONSTANTS
    NumBuffers = 2
    SwapIntervals <- MCAnyInterval
    MaxSets = 2
    MaxEarly = 1
    IoctlFails = TRUE
    Frames = 8
INVARIANTS
    LockBalance
    QueueHeld
PROPERTIES
    ShownInOrder
    PostReturns
    EveryFrameShown
\* A display loop that has taken from the empty queue is not followed.
CHECK_DEADLOCK FALSE
