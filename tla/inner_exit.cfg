\* The process exits in the step over a breakpoint.
SPECIFICATION Spec
CONSTANTS
    CodeSize = 4
    Effect <- MCEffect
    Succ <- MCSucc
    Val = {0, 1}
    Alu <- MCAlu
    MaxId = 2
    UserAddrs = {0, 3}
INVARIANTS PidClearedOnExit
