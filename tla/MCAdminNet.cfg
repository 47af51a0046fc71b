SPECIFICATION Spec
CONSTANTS
    n0 = n0
    n1 = n1
    n2 = n2
    t1 = t1
    t2 = t2
    t3 = t3
    c1 = c1
    c2 = c2
    a1 = a1
    a2 = a2
    Nodes = {n0, n1, n2}
    Zero = n0
    Tasks = {t1, t2, t3}
    Origin <- LastElsewhere
    Queries <- Three
    Subtasks = {}
    NetTimeout <- Default
    Containers = {c1, c2}
    Home <- MCHome
    Addresses = {a1}
    RetryTimeouts = TRUE
    RefuseSend = TRUE
    Suspectors = {n0, n1, n2}
    MaxSuspicions = 2
    MaxCrashes = 1
    MaxRestarts = 1
    MaxMoves = 1
    MaxFaults = 2
INVARIANTS NetInv OwnResults CompleteMeansAll
CHECK_DEADLOCK FALSE
