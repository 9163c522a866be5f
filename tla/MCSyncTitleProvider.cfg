SPECIFICATION SpecProviders
CONSTANTS
    f1 = f1
    f2 = f2
    Consoles = {c1}
    Backends = {drive, webdav}
    Files = {f1, f2}
    FilesOf <- MCFilesOf
    MaxVer = 2
    MaxMishaps = 0
    Overlap = FALSE
    NoMark = NoMark
CHECK_DEADLOCK FALSE
PROPERTY NoSilentLoss
