SPECIFICATION Spec
SYMMETRY Symmetry
CONSTANTS
    ana = ana
    bia = bia
    box = box
    nAna = nAna
    nBia = nBia
    nBox = nBox
    nNew = nNew
    Accounts = {ana, bia, box}
    Device = box
    Names = {nAna, nBia, nBox, nNew}
    Nick <- Nick3
    Plain = Plain
    NoOne = NoOne
    NoName = NoName
    FlatName = FlatName
    Old = TRUE
    OneDir = FALSE
    Stay = 2
    MaxSave = 2
    MaxRenames = 1
    MaxMishaps = 1
INVARIANT TypeOK
INVARIANT OwnSave
INVARIANT OwnBackup
INVARIANT NotOrphaned
