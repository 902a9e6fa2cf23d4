SPECIFICATION FairSpec
CHECK_DEADLOCK FALSE
CONSTANTS
    Size = 2
    Sockets = {x1, x2, x3}
    Clients = {c1}
    Explicits = {e1, e2}
    Limit = 2
    None = None
INVARIANTS
    PlacesOwnSockets
    WatchedArePlaced
PROPERTIES
    SessionsEndWhole
    HandlesRotate
    SilentPlacesFreed
