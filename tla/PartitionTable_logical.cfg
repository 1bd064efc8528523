SPECIFICATION Spec
CONSTANTS
    Images <- MCImages
    Garbage <- MCGarbage
    DiskBytes = 8192
    HOSTPARTITION_MAX = 7
    BLOCKSIZE = 512
    EBR_START = 446
INVARIANTS
    LogicalsServed
