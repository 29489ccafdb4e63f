\* One call of launch, traced or not, or of attach.
SPECIFICATION Spec
INVARIANTS
    TypeOK
    OnlyProgramsReturned
    HandedOver
PROPERTIES
    NoZombieLeft
    FailureReported
    LaunchReturns
