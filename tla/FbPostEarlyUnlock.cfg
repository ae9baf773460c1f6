SPECIFICATION Spec
CONSTANTS
    NumBuffers = 2
    SwapIntervals <- MCPaced
    MaxSets = 0
    MaxEarly = 0
    IoctlFails = FALSE
    Frames = 4
PROPERTIES
    GrabbedBeforeUnlock
