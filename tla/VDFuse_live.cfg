SPECIFICATION FairSpec
CONSTANTS
    Threads = {t1, t2}
    Handles = {h1, h2}
    Partitions = {1}
    Layouts <- MCLiveLayouts
    DiskSize = 1
    MaxLen = 1
    readonly = TRUE
    ReadMayFail = TRUE
    NoThread = NoThread
    NoHandle = NoHandle
PROPERTIES
    LocksReleased
    OpenAndReleaseAnswered
