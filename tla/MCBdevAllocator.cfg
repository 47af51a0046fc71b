SPECIFICATION FairSpec
CONSTANTS
    NumWorkers = 2
    Tasks = {t1, t2}
    BlockSizes <- MCBlockSizes
    Alignment = 3
    TotalSize = 16
    MaxBlocks = 2
    Sizes = {0, 4, 7, 12}
    MaxAllocs = 4
INVARIANTS TypeOK NoOverlap WithinDevice  Conservation
PROPERTIES Answered IsBlockDevice
CHECK_DEADLOCK FALSE
