SPECIFICATION Spec
CONSTANTS
    f1 = f1
    f2 = f2
    Files = {f1, f2}
    FilesOf <- MCFilesOf
    MaxVer = 3
    Programs = {"app"}
    MaxMishaps = 3
    NoDir = NoDir
CHECK_DEADLOCK FALSE
INVARIANT SaveWhole
INVARIANT CopyWhole
PROPERTY ErasesOnlyWhatIsCopied
PROPERTY OneSaveRemains
