SPECIFICATION MCSpec
CONSTANTS
    Session = {a1, a2}
    Capacity = 4
    Cost = 2
    MinRetry = 1
    MaxClock = 3
    MaxRollbacks = 1
    Workers = {s1, s2, s3}
    None = none
    MaxToken = 3
    MaxFaults = 1
    Provider = {"trakt", "publicmetadb", "anilist"}
    Rating = {s1, s2, s3}
    MaxJobs = 3
    MaxAttempts = 2
    MaxEvents = 3
    Items = {"a", "b", "c"}
    Parts <- TwoParts
    PerPage = 1
    MaxPages = 2
    MaxChanges = 2
    Episodes = {"e"}
    Absolute = {"a"}
    Show = "show"
    NoEpisode = "none"
    Kinds = {"played", "unplayed", "stopped", "start", "dropped", "undropped", "watchlisted", "unwatchlisted", "rated"}
    Limit = 1
    MaxTime = 3
    MaxReceipts = 3
    MaxEdits = 1
    MaxClashes = 1
    Sessions = {quick, full}
    Full = {full}
    Titles = {"t", "u"}
    Sources = {"trakt", "simkl", "letterboxd", "anilist", "publicmetadb", "stremio"}
    NCategories = 2
    CategoryOfTitle <- MovieAndShow
    MaxDay = 2
    Lookback = 0
    MaxPlays = 2
    MaxWatches = 2
    MaxMishaps = 1
    MaxActs = 1
SYMMETRY Symmetric
INVARIANTS RequestsBounded NewestMarkWins RemovalsAreExact TokensAreCurrent ImportedOnce
    CursorMissesNothing KeepsWhatIsListed RatingsSettle
PROPERTIES RetryIsGranted RefreshedOnce RemovedStaysRemoved
CHECK_DEADLOCK FALSE
