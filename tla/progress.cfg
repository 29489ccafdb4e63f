\* Continue and step, repeated for ever, from a breakpoint.
SPECIFICATION UserSpec
CONSTANTS
    CodeSize = 3
    Effect <- MCEffect
    Succ <- MCSucc
    Val = {0, 1}
    Alu <- MCAlu
    MaxId = 1
    UserAddrs = {0}
PROPERTIES ProgramEnds
