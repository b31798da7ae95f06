SPECIFICATION CallsSpec
CONSTANTS
    MaxRuns = 3
    MaxInFlight = 2
    Total = 9
    PageSize = 2
    MaxResidentPages = 2
    Height = 2
    FirstRows = {2, 3, 8}
    MaxScrolls = 4
    MaxResults = 2
    MaxId = 2
    MaxCommands = 3
    MaxFormSteps = 2
    UsedUp <- MCUsedUp
    Catalog <- MCCatalog
    ScopeOf <- MCScopeOf
    Default <- MCDefault
    Chords <- MCChords
    Bare <- MCBare
    Escape = "Escape"
    Clipboard = {"ModK"}
    Reserved <- MCReserved
    Suggested <- MCSuggested
    MaxPresses = 3
    Repos = {"a", "b"}
    NotARepo = "c"
    Nothing = Nothing
    Files = {"f"}
    MaxSteps = 2
    MaxCommits = 3
INVARIANTS
    RunsAreSound
    PagingIsSound
    ConnectionsAreSound
    KeysRunTheirCommand
    KeysAreSound
    PanelIsSound
PROPERTIES
    PagingComesToRest
    ObjectsArrive
CHECK_DEADLOCK FALSE
