SPECIFICATION Spec
CONSTANTS
    ATTACH_COUNTER_MAX = 3
    AUTHENTICATION_COUNTER_MAX = 2
    SECURITY_COUNTER_MAX = 2
    EMM_AUTHENTICATION_SYNC_FAILURE_MAX = 2
    MaxAttach = 2
PROPERTIES
    NoChallengeInResync
CHECK_DEADLOCK FALSE
