SPECIFICATION Spec
CONSTANTS
    Modes = {"normal", "in_call"}
    OutputRoutes <- MCOutputRoutes
    InputRoutes <- MCInputRoutes
    Requests <- MCRequests
    OutputRequests <- MCOutputRequests
    Filters <- MCFilters
    NoThread = NoThread
    Uninitialised = {"garbage"}
    MaxRequests = 2
    MaxFailures = 1
INVARIANTS
    RouteAgrees
    MaskFits
PROPERTIES
    LockReleased
