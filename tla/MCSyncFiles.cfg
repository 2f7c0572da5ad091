SPECIFICATION LiveSpec
CONSTANTS
    LocalIds <- TextFiles
    RemoteIds = {r1, r2}
    None = None
    Values <- FileNotes
    Keys <- FileTitles
    match_key <- KeyOf
    LocalForm <- ToTextFile
    RemoteForm <- ToRemote
    TornForm <- Torn
    ReadOnly = {}
    Folder = TRUE
    FileNames <- FilesFor
    Reuse = FALSE
    InitLocal <- NoneOrA
    InitRemote <- NewestA2
    Runs <- RemoteWins
    Creates = {}
    Edits <- ForwardEdit
    Deletable <- TextFiles
    Unreadable = FALSE
    Interfere = FALSE
    Faults = {"fail", "lost", "torn", "crash", "state"}
    MaxUserOps = 2
    MaxFaults = 2
INVARIANTS NoDuplicates TornIsRepaired
PROPERTIES Converges
