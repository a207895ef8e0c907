SPECIFICATION HistorySpec
CONSTANTS
    Sessions = {s1}
    Full = {s1}
    Titles = {"t"}
    Sources = {"anilist"}
    NCategories = 1
    CategoryOfTitle <- OneTitle
    MaxDay = 2
    Lookback = 1
    MaxPlays = 1
    MaxWatches = 1
    MaxMishaps = 0
    MaxActs = 1
INVARIANT SnapshotKeepsClear
CHECK_DEADLOCK FALSE
