SPECIFICATION Spec
CONSTANTS
    ram = ram
    ssd = ssd
    b1 = b1
    b2 = b2
    c1 = c1
    c2 = c2
    Targets <- MCTargets
    Blobs = {b1, b2}
    Clients = {c1, c2}
    Flusher = flusher
    Capacity <- SmallDevices
    Level <- MCLevel
    TargetScore <- MCTargetScore
    TopScore = 1
    SmallBlock = 1
    MaxBlock = 3
    Calls <- AllCalls
    FlushLevel = 1
    FlushWhileBusy = FALSE
    MaxOps = 3
    MaxChores = 2
INVARIANTS StorageInv Integrity ReadsReturn
SYMMETRY Symmetry
CHECK_DEADLOCK FALSE
