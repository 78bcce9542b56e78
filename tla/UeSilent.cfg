\* A UE that is idle and never heard of again. Ends with a violation.
SPECIFICATION Spec
CONSTANTS
    Enbs = {e1}
    MaxConnections = 1
    MaxLosses = 0
    e1 = e1
PROPERTY
    SilentUeDetached
CHECK_DEADLOCK FALSE
