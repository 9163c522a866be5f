--------------------------- MODULE MCBackupQueue ---------------------------
(* Small instances of the snapshot queue for TLC. *)
EXTENDS BackupQueueLog

CONSTANTS s1, s2, f1, f2, drive, webdav

\* The game deletes f2 in its second version and f1 in its third, so that every
\* upload has something to prune.
MCFilesOf == [v \in 1..MaxVer |->
    Files \cap CASE v = 1 -> {f1, f2} [] v = 2 -> {f1} [] OTHER -> {f2}]

OneSave   == {s1}
TwoSaves  == {s1, s2}
OneFile   == {f1}
TwoFiles  == {f1, f2}
OneCloud  == {drive}
TwoClouds == {drive, webdav}
=============================================================================
