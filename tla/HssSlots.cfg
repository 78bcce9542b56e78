SPECIFICATION Spec
CONSTANTS
    MaxRequests = 2
    Concurrent = 1
    UeSqn = 1
INVARIANTS
    SlotHeldByWork
CHECK_DEADLOCK FALSE
