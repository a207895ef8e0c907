CONSTANTS
    l1 = l1
    l2 = l2
    l3 = l3
    p1 = p1
    p2 = p2
    p3 = p3
    Loop = {l1, l2, l3}
    Process = {p1, p2}
    ProcessOf <- Shared
    Nobody = nobody
    LeaseTime = 4
    Interval = 6
    RetryDelay = 2
    MaxCrashes = 2
    SlowLoops = TRUE
SPECIFICATION Spec
PROPERTIES HolderUndisturbed
