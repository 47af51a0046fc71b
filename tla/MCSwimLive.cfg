SPECIFICATION FairSpec
CONSTANTS
    c1 = c1
    Nodes = {0, 1, 2}
    Observers = {0, 1}
    kIndirectProbeHelpers = 3
    Containers = {c1}
    Home <- MCHome
    Mortal = {0, 1, 2}
    MaxCrashes = 1
    MaxLeaves = 0
    MaxLost = 0
    MaxRefused = 1
    MaxFaults = 1
PROPERTIES Detected Recovered
CHECK_DEADLOCK FALSE
