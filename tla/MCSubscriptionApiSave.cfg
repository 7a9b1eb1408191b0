CONSTANTS
    t1 = t1
    t2 = t2
    k1 = k1
    u1 = u1
    u2 = u2
    Thread <- MCThread
    Key <- MCKey
    Url <- MCUrl
    RateLimit = 2
    MaxRequests = 2
    MaxMinute = 0
    MaxRestarts = 0
SPECIFICATION Spec
INVARIANTS SavedWithoutLocking
CHECK_DEADLOCK FALSE
