SPECIFICATION FairSpec
CONSTANTS
    Producers = {p1, p2}
    Depth = 2
    Modes = {"wait", "error"}
    Periodic = TRUE
    MaxPush = 4
INVARIANT RingInv
PROPERTIES IsFifo Delivered
CHECK_DEADLOCK FALSE
