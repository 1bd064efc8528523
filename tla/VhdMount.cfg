SPECIFICATION Spec
CONSTANTS
    Script <- CombinedScript
    CommandLines <- MCCommandLines
    RealTypes = {"ext4", "xfs"}
    MayFail = TRUE
INVARIANTS NoForeignRoot HostShown VloopRootFound
