SPECIFICATION Spec
CONSTANTS
    numSensorDrivers = 2
    numEvents = 3
    Counts = {2}
    MaxQueued = 3
    MaxActivations = 3
    MaxFailures = 1
    Errno = 5
INVARIANTS
    NothingForgotten
    SwitchAgrees
PROPERTY
    SensorsReport
\* With the daemon stopped and nothing to activate, poll() waits for ever.
CHECK_DEADLOCK FALSE
