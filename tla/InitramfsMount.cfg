SPECIFICATION Spec
CONSTANTS
    Flavors = {"arch-kloop", "arch-vloop", "debian-kloop", "debian-vloop"}
    RealTypes = {"ext4", "xfs"}
INVARIANTS ImageNotHost HostMoved
