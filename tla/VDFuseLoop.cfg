SPECIFICATION LoopSpec
CONSTANTS
    MaxEvents = 3
    Faults = {"ntfs", "vdfuse", "losetup", "bind"}
INVARIANTS RootServed
PROPERTIES GoodBoots BootDecided ImageReleased
