SPECIFICATION FairSpec
CONSTANTS
    s1 = s1
    s2 = s2
    f1 = f1
    f2 = f2
    drive = drive
    webdav = webdav
    Saves <- TwoSaves
    Files <- OneFile
    Backends <- OneCloud
    FilesOf <- MCFilesOf
    MaxVer = 2
    MaxId = 2
    MaxMishaps = 2
    BlindScan = FALSE
    Replaces = TRUE
    Absent = Absent
    Partial = Partial
CHECK_DEADLOCK FALSE
INVARIANT HeadOwned
PROPERTY ImplementsLog
PROPERTY QueueDrains
