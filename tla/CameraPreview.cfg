SPECIFICATION Spec
CONSTANTS
    Calls <- MCPreviewCalls
    CallbackCalls = {"release"}
    Masks <- MCPreviewMasks
    Messages = {"VIDEO_FRAME"}
    Formats = {}
    Fail = {"heap", "thread", "start", "stop", "focus"}
    Timeouts = TRUE
    MaxOwed = 1
INVARIANTS
    OneFrameThread
    HeapInUse
    DriverFollows
PROPERTIES
    CallsReturn
CHECK_DEADLOCK FALSE
