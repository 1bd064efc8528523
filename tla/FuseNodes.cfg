SPECIFICATION Spec
CONSTANTS
    Names = {n1, n2}
    MaxHide = 2
    IdSpace = 5
    MaxObjects = 3
    MaxLookups = 1
    MaxHandles = 1
    MayFail = TRUE
SYMMETRY Symmetry
INVARIANTS RefsExact OneNodePerName OpenReachable HiddenIsOpen
CHECK_DEADLOCK FALSE
