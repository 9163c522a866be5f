SPECIFICATION Spec
CONSTANTS
    f1 = f1
    f2 = f2
    Consoles = {c1, c2}
    Backends = {drive}
    Files = {f1, f2}
    FilesOf <- MCFilesOf
    MaxVer = 3
    MaxMishaps = 2
    Overlap = FALSE
    NoMark = NoMark
CHECK_DEADLOCK FALSE
SYMMETRY Symmetry
CONSTRAINT BlindBound
INVARIANT SavesWholeUntilCut
PROPERTY NoSilentLoss
PROPERTY MarkerMeansEqual
