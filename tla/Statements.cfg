SPECIFICATION StatementSpec
CONSTANTS
    Runs = {r1, r2}
    PoolUsers = {u1}
    Sessions = {s1, s2}
    PoolSize = 2
    None = None
    MayClose = TRUE
    Alphabets <- MCAlphabets
    MaxScanChars = 4
    MaxDoc = 6
    Relations <- MCRelations
    AliasSeeds <- MCAliasSeeds
    Phrases <- MCPhrases
    MaxPhrases = 4
INVARIANTS
    OneStatementAtATime
    CancelHitsItsTarget
    TransactionIsHeld
    TextIsReadAlike
    NamesAreReadAlike
PROPERTIES RunsAreServed
CHECK_DEADLOCK FALSE
