CONSTANTS
    Ids = {i1}
    Commands = {k1, k2}
    Watched = {}
    Handles = {h1, h2}
    None = None
    CloseEnds = TRUE
SPECIFICATION Spec
INVARIANTS ReadOnlyBlocksWrites
CHECK_DEADLOCK FALSE
