CONSTANTS
    MaxQueue = 1
    MaxFrames = 3
    MaxStarts = 1
    OutPipeSize = 1
    BadFrames <- MCBadFrames
SPECIFICATION Spec
INVARIANTS DropCounterExact
CHECK_DEADLOCK FALSE
