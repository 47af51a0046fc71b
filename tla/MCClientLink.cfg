SPECIFICATION FairSpec
CONSTANTS
    h1 = h1
    h2 = h2
    Callers = {1, 2}
    Addresses = {1, 2, 3, 4, 5, 6}
    Hosts = {h1, h2}
    Original = h1
    Cases <- MCCases
    MaxAttempts = 1
INVARIANTS LinkInv OwnAnswer
 
