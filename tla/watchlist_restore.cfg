CONSTANTS
    Show = {s1}
    Movie = {}
    Unreleased = {}
    MaxEpisodes = 1
    MaxEvents = 4
SPECIFICATION MCSpec
PROPERTY RestoredNotHidden
CHECK_DEADLOCK FALSE
