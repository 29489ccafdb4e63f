\* Two breakpoint slots of three and an address the kernel refuses.
SPECIFICATION Spec
CONSTANTS
    W = 1
    Slots = 2
    DbgRegs = 3
    HwAddr = {4, 8, 9}
    Invalid = {9}
    Values <- OneValue
INVARIANTS
    CacheIsImage
    HwArmed
    NoOrphanSlot
PROPERTIES
    NoWriteLost
