CONSTANTS
    c1 = c1
    c2 = c2
    a1 = a1
    a2 = a2
    Client <- MCClient
    Address <- MCAddress
    Filters <- MCFilters
    Blocks <- MCBlocks
    MaxQueue = 2
    MaxRequests = 2
SPECIFICATION FairSpec
INVARIANTS StreamsSound NoGapWithoutDrop
PROPERTIES DrainLosesNoEvent StopCloses ReplayCompletes
CHECK_DEADLOCK FALSE
