SPECIFICATION FairSpec
CONSTANTS
    saveA = saveA
    saveB = saveB
    Slots <- MCSlots
    MaxSessions = 2
    Paths <- MCPaths
    Card <- MCCard
    Full = 2
    MaxUpload = 1
    Readers <- MCReaders
    Renamers <- MCRenamers
    Absent = Absent
CHECK_DEADLOCK FALSE
INVARIANT TypeOK
INVARIANT NothingLeaks
INVARIANT EntryForItsClient
PROPERTY DownloadWhole
PROPERTY StopEnds
PROPERTY ReadersServed
