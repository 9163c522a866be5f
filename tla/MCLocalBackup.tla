--------------------------- MODULE MCLocalBackup ---------------------------
(* Small instances of the card copy for TLC. *)
EXTENDS LocalBackup

CONSTANTS f1, f2

\* The second save adds no file and drops one; the third brings it back.
MCFilesOf == [v \in 1..MaxVer |-> IF v = 2 THEN {f1} ELSE {f1, f2}]
=============================================================================
