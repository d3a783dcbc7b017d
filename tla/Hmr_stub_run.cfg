CONSTANTS
    e = e
    c = c
    x = x
    y = y
    None = None
    Module = {e, c, x, y}
    Entry = e
    Source <- ChainSource
    Transformed = {e, c, x, y}
    Slot = {s1}
    MaxOutbox = 1
    MaxBatch = 1
    EditWhen = "quiet"
    WatcherErrors = FALSE
SPECIFICATION HmrSpec
INVARIANT StubNeverRun
