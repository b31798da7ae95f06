CONSTANTS
    Runs = {r1, r2}
    PoolUsers = {u1}
    Sessions = {s1, s2}
    PoolSize = 2
    None = None
    MayClose = TRUE
SPECIFICATION FairSpec
PROPERTIES CloseReturns
CHECK_DEADLOCK FALSE
