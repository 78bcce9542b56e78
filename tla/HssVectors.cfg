SPECIFICATION Spec
CONSTANTS
    MaxRequests = 3
    Concurrent = 2
    UeSqn = 1
INVARIANTS
    TypeOK
    NothingDangling
    SlotsAgree
    SqnFresh
    NobodyStranded
PROPERTIES
    LastResyncVerifies
CHECK_DEADLOCK FALSE
