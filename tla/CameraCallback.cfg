SPECIFICATION Spec
CONSTANTS
    Calls <- MCCallbackCalls
    CallbackCalls = {"release"}
    Masks <- MCOnlyPreview
    Messages = {}
    Formats = {}
    Fail = {}
    Timeouts = FALSE
    MaxOwed = 0
PROPERTIES
    CallbackReturns
CHECK_DEADLOCK FALSE
