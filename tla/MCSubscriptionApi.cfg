CONSTANTS
    t1 = t1
    t2 = t2
    k1 = k1
    u1 = u1
    u2 = u2
    Thread <- MCThread
    Key <- MCKey
    Url <- MCUrl
    RateLimit = 1
    MaxRequests = 3
    MaxMinute = 2
    MaxRestarts = 1
SPECIFICATION Spec
INVARIANTS RateEnforced RegistrySound AnswersHold
PROPERTIES NoFalseReject
CHECK_DEADLOCK FALSE
