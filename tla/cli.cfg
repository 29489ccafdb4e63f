\* A user at the prompt: every line after every other.
SPECIFICATION MCSpec
CONSTANTS
    CodeSize = 3
    Effect <- MCEffect
    Succ <- MCSucc
    Val = {0, 5, 21}
    Alu <- MCAlu
    MaxId = 1
    UserAddrs = {0}
    W = 4
    IntBits = 8
    Names <- MCNames
    Texts <- MCTexts
    Lines <- MCLines
    AddrOf <- MCAddrOf
    IdOf <- MCIdOf
    NameOf <- MCNameOf
    TextOf <- MCTextOf
INVARIANTS
    CliTypeOK
    PromptMeansStopped
    CleanRelease
    WroteMeansWritten
    NamesExact
    ValuesExact
PROPERTIES
    HitsAreTrue
