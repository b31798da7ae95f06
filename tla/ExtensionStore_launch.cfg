CONSTANTS
    Ids = {e1}
    Versions = {1, 2}
    Slots = {o1}
    Nobody = Nobody
    LibrariesLock = FALSE
    MaxOperations = 3
    MaxEvents = 2
SPECIFICATION ExtSpec
PROPERTIES LaunchKeepsWhatIsInstalled
CHECK_DEADLOCK FALSE
