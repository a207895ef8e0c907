SPECIFICATION MCSpec
CONSTANTS
    update = update
    first = first
    second = second
    rating = rating
    Worker = {w1, w2}
    Client = {c1}
    Key = {update, first, second, rating}
    SuccessorKey = {update, rating}
    WatchKey = {update, first, second}
    EntryKey = {rating}
    BatchKey = {first, second}
    Payload = {p1, p2}
    NoKey = NoKey
    NoPayload = NoPayload
    MaxJobs = 2
    MaxAttempts = 2
    ClaimLimit = 2
    BatchSize = 2
    MaxDisruptions = 3
    Limited = TRUE
    SlowWorkers = FALSE
    ClientOverlap = FALSE
SYMMETRY Symmetric
INVARIANTS OneHolderPerUpdate NewestDelivered PendingUpdateHasJob SucceededUpdateIsCurrent
PROPERTIES NoPushAfterDelete RatingNeverStale
CHECK_DEADLOCK FALSE
