SPECIFICATION FairSpec
CONSTANTS
    Servers = {s1}
    Paths = {p1}
    Clients = {c1, c2}
    NoPath = NoPath
    NoLoop = NoLoop
    Wake = Wake
    MaxConnections = 1
    MaxListens = 2
    MaxCloses = 2
    MaxErrors = 1
CHECK_DEADLOCK FALSE
INVARIANTS ClientsReachServers CountsAgree
PROPERTIES CloseIsAnnounced
