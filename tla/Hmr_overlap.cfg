CONSTANTS
    e = e
    c = c
    x = x
    y = y
    None = None
    Module = {e, c}
    Entry = e
    Source <- TinySource
    Transformed = {c}
    Slot = {s1, s2}
    MaxOutbox = 1
    MaxBatch = 1
    EditWhen = "anytime"
    WatcherErrors = TRUE
SPECIFICATION HmrSpec
SYMMETRY SlotSymmetry
INVARIANTS TypeOK ClientTypeOK RequireFinds ClientModulesTracked
PROPERTY NeverForgotten
