SPECIFICATION Spec
CONSTANTS
    LocalIds = {l1}
    RemoteIds = {r1}
    None = None
    Values <- FolderNotes
    Keys <- MCKeys
    match_key <- KeyOf
    LocalForm <- ToDevice
    RemoteForm <- ToRemote
    TornForm <- ToDevice
    ReadOnly = {}
    Folder = FALSE
    FileNames <- Unnamed
    Reuse = TRUE
    InitLocal <- AnyDevice
    InitRemote <- AnyRemote
    Runs <- DeviceWins
    Creates = {}
    Edits <- AnyEdit
    Deletable = {}
    Unreadable = FALSE
    Interfere = FALSE
    Faults = {"fail"}
    MaxUserOps = 1
    MaxFaults = 1
SYMMETRY Symmetry
PROPERTIES DeviceContentKept
