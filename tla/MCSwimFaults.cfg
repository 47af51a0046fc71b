SPECIFICATION Spec
CONSTANTS
    c1 = c1
    Nodes = {0, 1, 2}
    Observers = {0, 1}
    kIndirectProbeHelpers = 3
    Containers = {c1}
    Home <- MCHome
    Mortal = {0, 1, 2}
    MaxCrashes = 1
    MaxLeaves = 1
    MaxLost = 2
    MaxRefused = 0
    MaxFaults = 2
INVARIANTS MembershipInv SingleHost
CHECK_DEADLOCK FALSE
