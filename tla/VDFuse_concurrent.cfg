SPECIFICATION Spec
CONSTANTS
    Threads = {t1, t2}
    Handles = {h1, h2}
    Partitions = {1}
    Layouts <- MCLayouts
    DiskSize = 2
    MaxLen = 2
    readonly = FALSE
    ReadMayFail = TRUE
    NoThread = NoThread
    NoHandle = NoHandle
SYMMETRY MCSymmetry
INVARIANTS
    TypeOK
    OpenCountMatches
    TableReadAlone
    IOInBounds
    ExitOnlyQuiescent
    NoStaleLockout
    TableFresh
PROPERTIES
    ImplementsServer
