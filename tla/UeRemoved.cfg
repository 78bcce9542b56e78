\* Two connections, the second made while the first is released. Ends with a violation.
SPECIFICATION Spec
CONSTANTS
    Enbs = {e1, e2}
    MaxConnections = 2
    MaxLosses = 0
    e1 = e1
    e2 = e2
SYMMETRY EnbSymmetry
INVARIANT
    RemovedWithoutReference
CHECK_DEADLOCK FALSE
