CONSTANTS
    None = None
    Session = {s1, s2, s3}
SPECIFICATION FairSpec
INVARIANTS TypeOK WatchedWhileOpen
PROPERTIES WatcherReleased Rejoins
