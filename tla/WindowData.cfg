SPECIFICATION DataSpec
CONSTANTS
    c1 = c1
    s1 = s1
    s2 = s2
    s3 = s3
    t1 = t1
    Unconnected = Unconnected
    NoTab = NoTab
    Profiles <- MCProfiles
    SqlTabs <- MCSqlTabs
    TableTabs <- MCTableTabs
    SQL <- MCSQL
    MaxLaunches = 2
    MaxEdits = 3
    Keys <- MCKeys
    Values <- MCValues
    Databases <- MCDatabases
    OtherAnswers <- MCOtherAnswers
    UndoDepth = 1
    MaxChanges = 2
    MaxCalls = 2
    MaxSaves = 1
    Original <- MCOriginal
    Typed <- MCTyped
    Blocks <- MCBlocks
    Threshold = 4
    CellThreshold = 7
    Controls <- MCControls
    MaxSteps = 2
    Logged = 4
    Beyond = 1
    MaxParents = 2
INVARIANTS
    EditorIsSound
    SavedWhenIdle
    UndoLeadsBack
    EditsAreSound
    ViewIsSound
    PasteFillsWhatIsShown
    GraphIsSound
PROPERTIES
    ExitKeepsEveryWorkspace
    BackgroundTextIsKept
CHECK_DEADLOCK FALSE
