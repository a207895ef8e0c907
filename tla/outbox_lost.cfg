SPECIFICATION Spec
CONSTANTS
    Worker = {w1}
    Client = {c1}
    Key = {list}
    SuccessorKey = {list}
    WatchKey = {}
    EntryKey = {}
    BatchKey = {}
    Payload = {p1, p2}
    NoKey = NoKey
    NoPayload = NoPayload
    MaxJobs = 2
    MaxAttempts = 1
    ClaimLimit = 1
    BatchSize = 1
    MaxDisruptions = 0
    Limited = FALSE
    SlowWorkers = FALSE
    ClientOverlap = TRUE
CHECK_DEADLOCK FALSE
INVARIANTS NewestDelivered
