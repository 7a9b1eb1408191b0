CONSTANTS
    Block <- MCBlock
    Log <- MCLog
    Event <- MCEvent
    Capacity = 2
    MaxWrites = 4
    MaxMessages = 4
SPECIFICATION PipeFairSpec
INVARIANTS IngestionSound
PROPERTIES LogsNeverEndIngestion StopEnds
CHECK_DEADLOCK FALSE
