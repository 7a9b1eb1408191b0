CONSTANTS
    MaxQueue = 2
    MaxFrames = 4
    MaxStarts = 2
    OutPipeSize = 1
    BadFrames <- MCBadFrames
SPECIFICATION FairSpec
INVARIANTS SlotsAccounted FramesAccounted AliveUntilStopped
PROPERTIES DrainedByCleanStop QueueDrains CallsReturn
CHECK_DEADLOCK FALSE
