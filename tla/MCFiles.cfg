SPECIFICATION MirrorSpec
CONSTANTS
    Paths <- MCPaths
    Root = ""
    Parent <- MCParent
    Cards = {"card"}
    Rank <- MCRank
    Rom <- MCRom
    Archived = {"g.20260101-120000"}
    Excluded = {}
    Versions = {1, 2}
    Size <- MCSize
    CutSize <- MCCutSize
    None = None
    Dir = Dir
    InitDevice <- MCInit
    UserPaths = {"d", "d/g"}
    InitKept <- MCKept
    InitArchive <- MCArchive
    Walks <- MCWalks
    Sound = TRUE
    Senders = {"app"}
    SendPaths = {"d/g"}
    Stamps = {1}
    MaxEvents = 3
    MaxFaults = 1
INVARIANTS BackedUpOrReported RestoredOrReported RemovedOrReported ManifestIsTrue
PROPERTIES PriorVersionsAreKept
CHECK_DEADLOCK FALSE
