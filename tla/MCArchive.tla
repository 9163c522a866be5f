----------------------------- MODULE MCArchive -----------------------------
\* A game of two accounts whose folders have one name; the two accounts are
\* interchangeable.
EXTENDS Archive, TLC

CONSTANTS ana, bia, f1, f2

MCFolderOf == ana :> "game" @@ bia :> "game"
MCSymmetry == Permutations({ana, bia})
MCFilesOf == <<{f1, f2}, {f1}>>
=============================================================================
