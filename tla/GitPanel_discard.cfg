SPECIFICATION PanelSpec
CONSTANTS
    Repos = {"a", "b"}
    NotARepo = "c"
    Nothing = Nothing
    Files = {"f"}
    MaxSteps = 4
    MaxCommits = 3
INVARIANT FileCommandsActOnTheListedFile
CHECK_DEADLOCK FALSE
