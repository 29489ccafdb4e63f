\* One-bit words and three values of a register; one breakpoint slot.
SPECIFICATION Spec
CONSTANTS
    W = 1
    Slots = 1
    DbgRegs = 1
    HwAddr = {4}
    Invalid = {}
    Values <- ThreeValues
INVARIANTS
    TypeOK
    ReadsBack
PROPERTIES
    WritesAreArchitectural
