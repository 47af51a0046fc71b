SPECIFICATION Spec
CONSTANTS
    n1 = n1
    n2 = n2
    b1 = b1
    b2 = b2
    c1 = c1
    c2 = c2
    blk1 = blk1
    blk2 = blk2
    blk3 = blk3
    Absent = Absent
    Names = {n1, n2}
    BlobNames = {b1}
    Clients = {c1, c2}
    Workers = 1
    On <- OneWorker
    FlushOn = 0
    Blocks = {blk1, blk2}
    Volatile = {blk2}
    Modes = {"whole", "append", "patch"}
    Preferred <- RemoteForN2
    RemoteIds = {3}
    MaxId = 3
    LogCapacity = 2
    TornWrites = TRUE
    CrashInFlush = TRUE
    MaxOps = 4
    MaxFlushes = 1
    MaxCrashes = 1
INVARIANTS  TagIdsDistinct
 
CHECK_DEADLOCK FALSE
