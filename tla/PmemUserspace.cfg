SPECIFICATION Spec
CONSTANTS
    t1 = t1
    t2 = t2
    Threads = {t1, t2}
    NoThread = NoThread
    PageUnits = 1
    Sizes <- MCSizes
    PmemSize = 3
    LimpSize = 2
    SizeErrors <- MCSizeErrors
    OpenErrnos <- MCErrnos
    Descriptors <- MCDescriptors
INVARIANTS
    WindowsDisjoint
    HeapAccounted
    DescriptorsAccounted
