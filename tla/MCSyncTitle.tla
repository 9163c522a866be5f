---------------------------- MODULE MCSyncTitle ----------------------------
(* Small instances of the one-click sync for TLC. *)
EXTENDS SyncTitle, TLC

CONSTANTS f1, f2

\* Consoles are interchangeable.
Symmetry == Permutations(Consoles)

\* Odd saves have both files, even ones lost f2: syncs have extras to prune.
MCFilesOf == [v \in 1..MaxVer |-> IF v % 2 = 0 THEN {f1} ELSE {f1, f2}]

\* Bound: a blind job is the only mishap, and what comes of it is followed for two
\* saves; mishaps of the other kinds come in twos and are followed for MaxVer.
BlindBound == "blind" \in harm => mishaps = 1 /\ played <= 2
=============================================================================
