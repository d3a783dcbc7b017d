CONSTANTS
    transform = transform
    assets = assets
    None = None
    Process = {p}
    Caches <- TwoCaches
    Key = {k1, k2}
    Data = {d1, d2}
    Plugins = {v}
    Call = {x1, x2}
SPECIFICATION Spec
INVARIANTS TypeOK AnswersExact
PROPERTY ExitSaves
