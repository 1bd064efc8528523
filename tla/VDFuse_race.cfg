SPECIFICATION Spec
CONSTANTS
    Threads = {t1, t2}
    Handles = {h1, h2}
    Partitions = {1}
    Layouts <- MCLayouts
    DiskSize = 2
    MaxLen = 2
    readonly = FALSE
    ReadMayFail = FALSE
    NoThread = NoThread
    NoHandle = NoHandle
PROPERTIES
    IOInterlock
