\* The step over a breakpoint on a store has already stored.
SPECIFICATION Spec
CONSTANTS
    CodeSize = 4
    Effect <- MCEffect
    Succ <- MCSucc
    Val = {0, 1}
    Alu <- MCAlu
    MaxId = 2
    UserAddrs = {0, 2}
PROPERTIES StopLeavesMemory
