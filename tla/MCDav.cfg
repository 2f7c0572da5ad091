SPECIFICATION Spec
CONSTANTS
    Hosts = {"s", "t", "plain"}
    Secure = {"s", "t"}
    Members = {"a", "b"}
    InitThere = {{"a"}}
    Layouts <- MCLayouts
    Base <- MCBase
    SearchPaths <- MCSearchPaths
    MaxRedirects = 5
    MaxCalls = 3
    MaxChanges = 2
    MaxFaults = 1
    None = None
INVARIANTS CacheIsAsOf DiscoveryIsComplete
PROPERTIES NoBlindOverwrite EveryCallEnds
CHECK_DEADLOCK FALSE
