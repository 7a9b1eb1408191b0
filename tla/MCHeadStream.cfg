CONSTANTS
    MaxRetries = 2
    Base = 2
    Cap = 3
    MaxHeads = 4
    MaxStreams = 3
    MaxDrops = 3
SPECIFICATION StreamSpec
INVARIANTS HeadsOnceInOrder CallsEndClean
PROPERTY SubscriptionsReturned
CHECK_DEADLOCK FALSE
