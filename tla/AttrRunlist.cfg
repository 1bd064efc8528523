SPECIFICATION Spec
CONSTANTS
    ByteBits = 2
    MaxClusters = 4
    Lcns = {0, 1, 2, 5}
    Room = 6
    MayFail = TRUE
INVARIANTS RunlistTrue NeverRefused DiskTrue
CHECK_DEADLOCK FALSE
