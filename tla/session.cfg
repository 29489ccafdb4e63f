\* The client's calls against everything the traced process may do, under the
\* fairness of the debugger, the kernel and the process.
SPECIFICATION FairSpec
CONSTANTS
    CodeSize = 4
    Effect <- MCEffect
    Succ <- MCSucc
    Val = {0, 1}
    Alu <- MCAlu
    MaxId = 2
    UserAddrs = {0, 2}
INVARIANTS
    TypeOK
    SitesArmed
    TableConsistent
    CacheCoherent
    NoLostWakeup
    ReleasedClean
    EndsAsPromised
PROPERTIES
    NoBreakpointMissed
    StepOverInvisible
    ProgramAsWritten
    StepReturns
    DestroyReturns
    InterruptEndsWait
