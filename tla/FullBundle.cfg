CONSTANTS
    None = None
    Request = {r1, r2}
    Platform = {ios, android}
    Chunks = 3
    Helpers = {2, 3}
    MaxVersion = 3
    BannerLines = 3
    GraphLines <- Growing
SPECIFICATION FairSpec
INVARIANTS LoneIsWhole FirstHelperOnly FirstBundlePlaced
PROPERTY Answered
CHECK_DEADLOCK FALSE
