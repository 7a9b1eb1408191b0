CONSTANTS
    t1 = t1
    t2 = t2
    t3 = t3
    Task <- MCTask
    Event <- MCEvent
    Capacity = 2
    MaxWrites = 5
SPECIFICATION FairSpec
INVARIANTS LockSound SnapshotStable WritesKept
PROPERTIES EveryCallEnds
CHECK_DEADLOCK FALSE
