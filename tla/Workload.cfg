SPECIFICATION Spec
CONSTANTS
    Replicas = 4
    Programs <- MCPrograms
    Limit = 4
    Half = 4
    MaxFailures = 1
INVARIANTS
    TypeOK
    GoAfterAll
    GeneratedDistinct
    ExpectedAreOrdered
    SuccessMeansAnswered
PROPERTY EventuallyDone
CHECK_DEADLOCK FALSE
