SPECIFICATION ComponentsSpec
CONSTANTS
    PageUnits = 4
    Sizes <- MCSizes
    HeapSizes <- MCHeapSizes
    Threads = {t1, t2}
    NoThread = NoThread
    Addresses = {1, 2}
    MaxFailures = 1
    Event = {e1, e2}
    NoEvent = NoEvent
    numEvents = 3
    Attitudes <- Up
    CURRENTMAXPITCH = 3
    CURRENTMAXROLL = 2
    CURRENTMAXYAW = 1
    MINEQUATIONS = 2
    MAXEQUATIONS = 3
    CALINTERVAL = 2
    MaxSamples = 6
    Pluggable = {"WIRED_HEADSET", "BLUETOOTH_SCO_CARKIT", "BLUETOOTH_SCO_HEADSET", "BLUETOOTH_A2DP", "FM_ALL"}
    Objects = {o1, o2}
    Workers = {w1, w2}
    Settings = {"whitebalance", "effect", "saturation", "preview-frame-rate", "iso", "exposure-compensation"}
    MaxChanges = 2
    MaxRefusals = 1
    Lines <- MCLines
    MaxLines = 3
INVARIANTS
    Tiled
    NoAdjacentFree
    ExclusiveWriter
    CountAccounted
    HolderMapped
    CalibrationKept
    NewestEquations
    CallKeepsItsRoute
    OneInstance
    SettingsAgree
    FiltersWhole
PROPERTIES
    HeapSpec
    SomeCallReturns
    ReaderIsQueue
    CreateReturns
    RoundTrip
