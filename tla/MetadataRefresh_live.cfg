CONSTANTS
    Connections = {c1}
    Tasks = {t1, t2}
    Runs = {r1}
    None = None
    MaxSchema = 2
    MetadataMayFail = {"list"}
SPECIFICATION FairSpec
PROPERTIES MutationRefreshes
