SPECIFICATION ResultsSpec
CONSTANTS
    Configs <- MCConfigs
    FlushRows = 2
    MaxRows = 14
    BatchRows = 2
    ChannelSize = 1
    Conns = {c1, c2}
    Stores = {s1, s2}
    Commands = {k1, k2}
    MaxRetained = 1
    None = None
INVARIANTS
    WindowsAreExact
    StoreIsSound
    RegistryIsSound
    StreamIsSound
    HeldRowsAreBounded
PROPERTIES
    TakenStoresClose
    KeepsPagePromise
    RunIsAnswered
CHECK_DEADLOCK FALSE
