SPECIFICATION Spec
CONSTANTS
    s1 = s1
    s2 = s2
    f1 = f1
    f2 = f2
    drive = drive
    webdav = webdav
    Saves <- OneSave
    Files <- TwoFiles
    Backends <- TwoClouds
    FilesOf <- MCFilesOf
    MaxVer = 3
    MaxId = 3
    MaxMishaps = 3
    BlindScan = FALSE
    Replaces = TRUE
    Absent = Absent
    Partial = Partial
CHECK_DEADLOCK FALSE
INVARIANT TypeOK
INVARIANT CaptureOrder
PROPERTY NoRollback
PROPERTY MarkedExact
PROPERTY RetiredOnlyWhenSafe
