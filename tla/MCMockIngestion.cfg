CONSTANTS
    a1 = a1
    a2 = a2
    a3 = a3
    Address <- MCAddress
    Whitelist <- MCWhitelist
    Undecoded <- MCUndecoded
    Client <- MCClient
    Filters <- MCFilters
    Blocks <- MCBlocks
    Block <- MCBlock
    Log <- AllLogs
    Event <- MCEvent
    Capacity = 2
    MaxWrites = 9
    MaxMessages = 9
    MaxQueue = 3
    MaxRequests = 4
    InboxSize = 1
    WireSize = 1
SPECIFICATION RunFairSpec
INVARIANTS EventsFromChain IngestsWholeReplay
PROPERTIES StopsPropagate
CHECK_DEADLOCK FALSE
