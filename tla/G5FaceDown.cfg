SPECIFICATION DaemonSpec
CONSTANTS
    Attitudes <- AnyAttitude
    CURRENTMAXPITCH = 3
    CURRENTMAXROLL = 2
    CURRENTMAXYAW = 1
    MINEQUATIONS = 2
    MAXEQUATIONS = 3
    CALINTERVAL = 2
    MaxSamples = 6
INVARIANT
    PitchInRange
