CONSTANTS
    e = e
    c = c
    x = x
    y = y
    None = None
    Module = {e, c, x, y}
    Entry = e
    Source <- MendedSource
    Transformed = {e, c, x, y}
    Slot = {s1}
    MaxOutbox = 1
    MaxBatch = 1
    EditWhen = "quiet"
    WatcherErrors = TRUE
SPECIFICATION GivenFairSpec
INVARIANTS OnlyMissedBehind StubsArePresent UpdatesExact
PROPERTIES CatchesUp RefreshReachesImporters ReloadsWhole
