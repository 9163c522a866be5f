CONSTANTS
    ana = ana
    bia = bia
    f1 = f1
    f2 = f2
    Saves = {ana, bia}
    Folders = {"game"}
    Files = {f1, f2}
    FolderOf <- MCFolderOf
    FilesOf <- MCFilesOf
    MaxVer = 2
    MaxMishaps = 2
    CutUploads = FALSE
    NoBox = NoBox
SYMMETRY MCSymmetry
SPECIFICATION Spec
INVARIANT TypeOK
INVARIANT FinalReadable
INVARIANT OneArchiveRemains
INVARIANT FailureKeepsOld
PROPERTY RestoresOneSave
