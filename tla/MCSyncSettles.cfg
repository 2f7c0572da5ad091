SPECIFICATION Spec
CONSTANTS
    LocalIds = {l1, l2}
    RemoteIds = {r1, r2}
    None = None
    Values <- TwoTitles
    Keys <- MCKeys
    match_key <- KeyOf
    LocalForm <- ToDevice
    RemoteForm <- ToRemote
    TornForm <- ToDevice
    ReadOnly = {}
    Folder = FALSE
    FileNames <- Unnamed
    Reuse = TRUE
    InitLocal <- AnyDevice
    InitRemote <- AnyRemote
    Runs <- MixedRuns
    Creates <- TwoTitles
    Edits <- EditOfA
    Deletable = {l1, l2, r1, r2}
    Unreadable = TRUE
    Interfere = FALSE
    Faults = {"fail", "lost", "crash", "state"}
    MaxUserOps = 1
    MaxFaults = 1
SYMMETRY Symmetry
INVARIANTS LinksOneToOne SettledPlanIsEmpty SettledInStep
PROPERTIES RemoteContentKept DeviceCopyInSnapshot
