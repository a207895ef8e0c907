SPECIFICATION MCSpec
CONSTANTS
    Client = {a1, a2}
    Value = {0, 1}
    Transaction = {{"entries", "watches"}, {"watchlist", "catalog"}}
    Tries = 2
    MaxWrites = 2
    MaxFailures = 1
    Workers = {a1, a2}
    Clients = {b1, b2}
    Queues <- Orders
    Settings = {"order", "every"}
    MaxStamp = 5
    MaxRequests = 2
    MaxFaults = 1
    Watch = {a1, a2}
    Provider = {"letterboxd", "trakt", "simkl", "publicmetadb"}
    Day = {1, 2}
    MaxPlays = 4
    MaxAttempts = 2
    MaxEvents = 2
    Titles = {"film", "show", "part"}
    TypeOf <- TypesOfTitles
    NumberOf <- SameNumber
    Sources = {"trakt", "watchlist", "metadata", "manual"}
    GivenIds = {{"imdb"}, {"imdb", "tmdb"}, {"trakt"}, {"tmdb", "trakt"}, {"imdb", "tvdb"}, {"place"}, {"tmdb", "place"}}
    Writers = {a1, a2}
    Rows = {1, 2, 3}
    MaxEntries = 3
    Watches = {b1, b2}
    Days = {1, 2}
    Media = {"m1", "m2"}
    NameOf <- OneName
    IdsOf <- OneIdEach
    MaxEdits = 3
    MediaItems = {a1, a2}
    KindsOfIds = {"imdb", "tmdb"}
    Episodes = {"e1", "e2"}
    WatchRows = {b1, b2}
    ListSources = {"p"}
    ListStatus = {"dropped", "added"}
    MaxQueued = 2
    MaxChanges = 3
    LookupWorkers = {a1, a2}
    LookupProviders = {b1, b2}
    MaxLookups = 2
    LookupBatch = 2
    KindOf <- KindsOfQueries
    Capable <- AllCapable
    MaxFound = 1
    MaxLookupFaults = 1
    MaxSlow = 1
    a1 = a1
    a2 = a2
    b1 = b1
    b2 = b2
SYMMETRY Symmetric
INVARIANTS TypesOK ClientsHoldTheirVersion ProviderMirrorsHistory RunsAreWhole ChoicesAreWhole
PROPERTIES SnapshotNeverOlder RowsAreTitles NoPlayLost MergeKeepsAll MarksAreKept
CHECK_DEADLOCK FALSE
