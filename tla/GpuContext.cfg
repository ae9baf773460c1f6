SPECIFICATION MCSpec
CONSTANTS
    t1 = t1
    t2 = t2
    Threads = {t1, t2}
    NoThread = NoThread
    h1 = h1
    h2 = h2
    h3 = h3
    Ids = {h1, h2, h3}
    Pages = 5
    Sizes <- MCSizes
    Kinds = {"fb", "pmem", "adsp", "ashmem"}
    Screens <- MCScreens
    MapMayFail = TRUE
    AloneKinds = {"fb"}
    MaxForeign = 1
    MaxAbandoned = 2
SYMMETRY Symmetry
INVARIANTS
    MaskIsHeld
    MappingsIntact
    NothingLeftBehind
