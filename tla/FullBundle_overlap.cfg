CONSTANTS
    None = None
    Request = {r1, r2}
    Platform = {ios}
    Chunks = 2
    Helpers = {1, 2}
    MaxVersion = 2
    BannerLines = 3
    GraphLines <- Growing
SPECIFICATION Spec
INVARIANT KnownIsServed
CHECK_DEADLOCK FALSE
