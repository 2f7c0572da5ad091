SPECIFICATION Spec
CONSTANTS
    LocalIds = {l1, l2}
    RemoteIds = {r1, r2}
    None = None
    Values <- FolderNotes
    Keys <- MCKeys
    match_key <- KeyOf
    LocalForm <- ToDevice
    RemoteForm <- ToRemote
    TornForm <- ToDevice
    ReadOnly <- Recurring
    Folder = FALSE
    FileNames <- Unnamed
    Reuse = FALSE
    InitLocal <- OneOnDevice
    InitRemote <- OneOnRemote
    Runs <- MixedRuns
    Creates <- FolderNotes
    Edits <- AnyEdit
    Deletable = {l1, l2, r1, r2}
    Unreadable = FALSE
    Interfere = TRUE
    Faults = {"fail", "lost", "crash", "state"}
    MaxUserOps = 2
    MaxFaults = 1
SYMMETRY Symmetry
PROPERTIES DeletesFollowTheUser
