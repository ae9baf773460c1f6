SPECIFICATION Spec
CONSTANTS
    Calls <- MCSnapshotCalls
    CallbackCalls = {}
    Masks <- MCWholePicture
    Messages = {}
    Formats = {"JPEG"}
    Fail = {}
    Timeouts = FALSE
    MaxOwed = 0
PROPERTIES
    SnapshotModeCompletes
CHECK_DEADLOCK FALSE
