\* Two adjacent breakpoints, both removed.
SPECIFICATION Spec
CONSTANTS
    CodeSize = 4
    Effect <- MCEffect
    Succ <- MCSucc
    Val = {0, 1}
    Alu <- MCAlu
    MaxId = 2
    UserAddrs = {0, 1}
INVARIANTS RemovalRestores
