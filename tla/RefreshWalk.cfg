CONSTANTS
    a = a
    b = b
    c = c
    None = None
    Module = {a, b, c}
    Entry = a
    Source <- AnySource
    Transformed = {a, b, c}
    NodeModules = {c}
    Registries <- StartedOnAnyGraph
SPECIFICATION WalkSpec
INVARIANTS WalkAgrees RerunAgrees RegistersOwn RunsOnce
CHECK_DEADLOCK FALSE
