SPECIFICATION Spec
CONSTANTS
    f1 = f1
    f2 = f2
    Files = {f1, f2}
    FilesOf <- MCFilesOf
    MaxVer = 2
    Programs = {"app", "sysmodule"}
    MaxMishaps = 0
    NoDir = NoDir
CHECK_DEADLOCK FALSE
PROPERTY ErasesOnlyWhatIsCopied
