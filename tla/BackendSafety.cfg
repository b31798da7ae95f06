CONSTANTS
    Connections = {c1}
    Tasks = {t1, t2}
    Runs = {r1, r2}
    None = None
    MaxSchema = 2
    MetadataMayFail = {"background", "job", "list"}
    Ids = {e1, e2}
    Versions = {1, 2}
    Slots = {o1, o2}
    Nobody = Nobody
    LibrariesLock = TRUE
    MaxOperations = 2
    MaxEvents = 2
SPECIFICATION SafetySpec
SYMMETRY SafetySymmetry
INVARIANTS Fresh ReadYourChange ExtensionsAreSound
PROPERTIES ImplementsSchemaCache
CHECK_DEADLOCK FALSE
