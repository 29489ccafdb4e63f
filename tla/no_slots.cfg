\* A processor, or a virtual machine, without breakpoint slots.
SPECIFICATION Spec
CONSTANTS
    W = 1
    Slots = 0
    DbgRegs = 3
    HwAddr = {4, 8}
    Invalid = {}
    Values <- OneValue
INVARIANTS
    HwArmed
