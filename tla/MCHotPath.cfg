CONSTANTS
    Unset = Unset
    Event <- MCEvent
    Capacity = 5
    MaxWrites = 6
    ZeroAddress = 0
    Span = 2
    Decay <- MCDecay
    Low = 0
    High = 4
    Subscriber = {u1, u2}
    Retries = 1
SPECIFICATION HotSpec
INVARIANTS SnapshotSound TensorsConsistent AlertsSettled
PROPERTIES ImplementsDeque EmissionEnds
CHECK_DEADLOCK FALSE
