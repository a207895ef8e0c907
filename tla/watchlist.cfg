CONSTANTS
    Show = {s1}
    Movie = {m1}
    Unreleased = {}
    MaxEpisodes = 1
    MaxEvents = 3
SPECIFICATION MCSpec
INVARIANTS AskedStays NoOrphans MirrorsProvider
PROPERTIES DropIsSticky DroppedKeepsRow
CHECK_DEADLOCK FALSE
