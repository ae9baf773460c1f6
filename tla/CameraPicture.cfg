SPECIFICATION Spec
CONSTANTS
    Calls <- MCPictureCalls
    CallbackCalls = {}
    Masks <- MCPictureMasks
    Messages = {"COMPRESSED_IMAGE"}
    Formats = {"JPEG", "RAW"}
    Fail = {"heap", "thread", "start", "prepare", "snapshot", "get_picture", "encoder"}
    Timeouts = FALSE
    MaxOwed = 1
INVARIANTS
    PictureInUse
    NoPreviewInSnapshot
PROPERTIES
    PictureEnds
CHECK_DEADLOCK FALSE
