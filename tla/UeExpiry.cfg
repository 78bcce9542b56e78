\* One connection whose release timer expires. Ends with a violation.
SPECIFICATION Spec
CONSTANTS
    Enbs = {e1}
    MaxConnections = 1
    MaxLosses = 0
    e1 = e1
INVARIANT
    ExpiryMakesIdle
CHECK_DEADLOCK FALSE
