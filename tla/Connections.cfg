CONSTANTS
    Ids = {i1}
    Commands = {k1, k2, k3}
    Watched = {k1}
    Handles = {h1, h2}
    h2 = h2
    k3 = k3
    None = None
    CloseEnds = TRUE
SPECIFICATION PartSpec
INVARIANTS NothingLeaks MapsAgree BarredWritersNeverWrite
PROPERTIES CommandsEnd
CHECK_DEADLOCK FALSE
