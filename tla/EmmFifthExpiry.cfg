SPECIFICATION Spec
CONSTANTS
    ATTACH_COUNTER_MAX = 5
    AUTHENTICATION_COUNTER_MAX = 2
    SECURITY_COUNTER_MAX = 2
    EMM_AUTHENTICATION_SYNC_FAILURE_MAX = 2
    MaxAttach = 1
PROPERTIES
    FourRepetitions
CHECK_DEADLOCK FALSE
