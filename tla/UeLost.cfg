\* One connection whose eNB is lost before MME_APP took it up. Ends with a violation.
SPECIFICATION Spec
CONSTANTS
    Enbs = {e1}
    MaxConnections = 1
    MaxLosses = 1
    e1 = e1
INVARIANT
    LostReleased
CHECK_DEADLOCK FALSE
