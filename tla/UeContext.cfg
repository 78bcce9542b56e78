\* Two connections of the UE at two eNBs, one of which may go down.
SPECIFICATION Spec
CONSTANTS
    Enbs = {e1, e2}
    MaxConnections = 2
    MaxLosses = 1
    e1 = e1
    e2 = e2
SYMMETRY EnbSymmetry
INVARIANTS
    TypeOK
    ConnectionAgrees
    ReleasesEnd
CHECK_DEADLOCK FALSE
