SPECIFICATION MCSpec
CONSTANTS
    l1 = l1
    l2 = l2
    l3 = l3
    p1 = p1
    p2 = p2
    p3 = p3
    Loop = {l1, l2, l3}
    Process = {p1, p2, p3}
    ProcessOf <- Spread
    Nobody = nobody
    LeaseTime = 4
    Interval = 6
    RetryDelay = 2
    MaxCrashes = 2
    SlowLoops = TRUE
INVARIANTS RunsAlone
PROPERTIES HolderUndisturbed LeaseRunsAgain ClientsCatchUp CatalogsCatchUp EveryJobSettles EveryoneServed EveryImportIsServed
CHECK_DEADLOCK FALSE
