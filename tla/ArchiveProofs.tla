--------------------------- MODULE ArchiveProofs ---------------------------
(***************************************************************************)
(* Proofs about the archive, for every number of saves, folders, files,    *)
(* versions and mishaps.                                                   *)
(***************************************************************************)
EXTENDS Archive, FiniteSetTheorems, TLAPS

USE ArchiveAssumption, NoBoxAssumption

-----------------------------------------------------------------------------
(* Type correctness.  TypeOK is not inductive: files are added to a container
   that must be there, and restored from one that must be there. *)

AtWork ==
    /\ pc \in {"next", "add"} => disk["parcial"] \in Box /\ temp = "parcial"
    /\ pc = "add" => cur \in Saves /\ FolderOf[cur] \in seen
    /\ pc = "fetch" => temp = "baixando" /\ cloud # NoBox
    /\ pc = "take" => cur \in Saves /\ from \in Folders /\ disk["final"] # NoBox

TypeInv == TypeOK /\ AtWork

\* What a save holds, whole or in pieces, is a tree.
LEMMA EmptyIsTree == Empty \in Trees
  BY DEF Empty, Trees, Contents

LEMMA SaveIsTree ==
    ASSUME NEW s \in Saves, NEW v \in 1..MaxVer
    PROVE  Tree(s, v) \in Trees
  BY DEF Tree, Trees, Contents

\* An empty container, and one cut short.
LEMMA FreshIsBox == Fresh \in Box
  BY EmptyIsTree DEF Fresh, Box, Doubts

LEMMA CutIsBox == ASSUME NEW b \in Box PROVE Cut(b) \in Box
  BY DEF Cut, Box

\* Storing one entry in a container.
LEMMA StoreInBox ==
    ASSUME NEW b \in Box, NEW g \in Folders, NEW f \in Files, NEW c \in Contents
    PROVE  [b EXCEPT !.at[g][f] = c] \in Box
  BY DEF Box, Trees

\* What is among the files of a tree.
LEMMA InFiles == ASSUME NEW t PROVE In(t) \subseteq Files
  BY DEF In

\* Meeting one more folder.
LEMMA SeenCount ==
    ASSUME NEW S \in SUBSET Folders, NEW g \in Folders
    PROVE  /\ Cardinality(S) \in Nat /\ Cardinality(S \cup {g}) \in Nat
           /\ Cardinality(S) <= Cardinality(S \cup {g})
           /\ g \notin S => Cardinality(S \cup {g}) = Cardinality(S) + 1
<1>1. IsFiniteSet(S)
  BY FS_Subset
<1>2. IsFiniteSet(S \cup {g})
  <2>1. S \cup {g} \in SUBSET Folders
    OBVIOUS
  <2>2. QED
    BY <2>1, FS_Subset
<1>3. Cardinality(S \cup {g}) = IF g \in S THEN Cardinality(S) ELSE Cardinality(S) + 1
  BY <1>1, FS_AddElement
<1>4. Cardinality(S) \in Nat /\ Cardinality(S \cup {g}) \in Nat
  BY <1>1, <1>2, FS_CardinalityType
<1>5. QED
  BY <1>1, <1>2, <1>3, <1>4

LEMMA InitTypeInv == Init => TypeInv
<1> SUFFICES ASSUME Init PROVE TypeInv
  OBVIOUS
<1> USE DEF Init
<1>1. save \in [Saves -> Trees]
  BY EmptyIsTree, SaveIsTree
<1>2. played \in [Saves -> 0..MaxVer]
  OBVIOUS
<1>3. Cardinality({}) = 0
  BY FS_EmptySet
<1>4. staging \in [Folders -> Trees] /\ disk \in [Slots -> Box4]
  BY EmptyIsTree DEF Box4
<1>5. TypeOK
  <2>1. stored \in 0..Cardinality(seen) /\ mishaps \in 0..MaxMishaps
    BY <1>3
  <2>2. doubt \in [Saves -> Doubts] /\ debris \in Doubts
    BY DEF Doubts
  <2>3. QED
    BY <1>1, <1>2, <1>4, <2>1, <2>2 DEF TypeOK, Box4
<1>6. AtWork
  BY <1>3 DEF AtWork
<1>7. QED
  BY <1>5, <1>6 DEF TypeInv

\* Between jobs nothing is under way.
LEMMA OverType ==
    ASSUME TypeInv, Over, UNCHANGED <<save, played, staging, doubt>>,
           disk' \in [Slots -> Box4], cloud' \in Box4, old' \in Box4, made' \in BOOLEAN,
           told' \in {"none", "done", "failed"}, mishaps' \in 0..MaxMishaps
    PROVE  TypeInv'
<1>1. Cardinality({}) = 0
  BY FS_EmptySet
<1>2. AtWork'
  BY <1>1 DEF AtWork, Over
<1>3. stored' \in 0..Cardinality(seen')
  BY <1>1 DEF Over
<1>4. debris' \in Doubts
  BY DEF Over, Doubts
<1>5. TypeOK'
  BY <1>3, <1>4 DEF TypeInv, TypeOK, Over
<1>6. QED
  BY <1>2, <1>5 DEF TypeInv

LEMMA EndsType ==
    ASSUME TypeInv, NEW t \in {"none", "done", "failed"}, Ends(t),
           UNCHANGED <<save, played, staging, doubt>>,
           disk' \in [Slots -> Box4], cloud' \in Box4, mishaps' \in 0..MaxMishaps
    PROVE  TypeInv'
<1>1. Over /\ told' = t /\ old' \in Box4 /\ made' \in BOOLEAN
  BY DEF Ends, TypeInv, TypeOK, Box4
<1>2. QED
  BY <1>1, OverType

LEMMA WorseType == ASSUME NEW m \in Doubts, NEW n \in Doubts PROVE Worse(m, n) \in Doubts
  BY DEF Doubts, Worse

\* One file of the card written, removed or renamed.
LEMMA DiskType ==
    ASSUME disk \in [Slots -> Box4]
    PROVE  /\ \A d \in Slots : [disk EXCEPT ![d] = NoBox] \in [Slots -> Box4]
           /\ \A d \in Slots, b \in Box4 : [disk EXCEPT ![d] = b] \in [Slots -> Box4]
           /\ \A d, e \in Slots :
                 [disk EXCEPT ![d] = NoBox, ![e] = disk[d]] \in [Slots -> Box4]
  BY DEF Box4

LEMMA MishapType == TypeOK /\ (Mishap \/ NoMishap) => mishaps' \in 0..MaxMishaps
  BY DEF TypeOK, Mishap, NoMishap

LEMMA AbortType == TypeInv /\ Abort /\ (Mishap \/ NoMishap) => TypeInv'
<1> SUFFICES ASSUME TypeInv, Abort, Mishap \/ NoMishap PROVE TypeInv'
  OBVIOUS
<1>1. disk' \in [Slots -> Box4]
  BY DiskType DEF Abort, Removed, TypeInv, TypeOK, Slots
<1>2. QED
  BY <1>1, EndsType, MishapType DEF Abort, TypeInv, TypeOK

LEMMA NextTypeInv == TypeInv /\ [Next]_vars => TypeInv'
<1> SUFFICES ASSUME TypeInv, [Next]_vars PROVE TypeInv'
  OBVIOUS
<1> USE DEF ends, local, past, GoTo, Begins
<1>0. CASE UNCHANGED vars
  BY <1>0 DEF TypeInv, TypeOK, AtWork, vars
<1>1. ASSUME NEW s \in Saves, Play(s) PROVE TypeInv'
  <2>1. played[s] + 1 \in 1..MaxVer
    BY <1>1 DEF Play, TypeInv, TypeOK
  <2>2. /\ save' \in [Saves -> Trees] /\ played' \in [Saves -> 0..MaxVer]
        /\ doubt' \in [Saves -> Doubts]
    BY <1>1, <2>1, SaveIsTree DEF Play, TypeInv, TypeOK, Doubts
  <2>3. QED
    BY <1>1, <2>2 DEF Play, TypeInv, TypeOK, AtWork
<1>2. ASSUME NEW s \in Saves, PassOver(s) PROVE TypeInv'
  <2>1. seen \in SUBSET Folders /\ FolderOf[s] \in Folders
    BY DEF TypeInv, TypeOK
  <2>2. Cardinality(seen) <= Cardinality(seen')
    BY <1>2, <2>1, SeenCount DEF PassOver, Reach
  <2>3. Cardinality(seen) \in Nat /\ Cardinality(seen') \in Nat
    BY <1>2, <2>1, SeenCount DEF PassOver, Reach
  <2>4. TypeOK'
    BY <1>2, <2>1, <2>2, <2>3 DEF PassOver, Reach, TypeInv, TypeOK
  <2>5. AtWork'
    BY <1>2 DEF PassOver, Reach, TypeInv, AtWork
  <2>6. QED
    BY <2>4, <2>5 DEF TypeInv
<1>3. ASSUME NEW s \in Saves, Mounted(s) PROVE TypeInv'
  <2>1. seen \in SUBSET Folders /\ FolderOf[s] \in Folders /\ FolderOf[s] \notin seen
    BY <1>3 DEF TypeInv, TypeOK, Mounted, Repeated
  <2>2. /\ Cardinality(seen') = Cardinality(seen) + 1 /\ Cardinality(seen) \in Nat
    BY <1>3, <2>1, SeenCount DEF Mounted, Reach
  <2>3. stored' \in 0..Cardinality(seen')
    BY <1>3, <2>2 DEF Mounted, TypeInv, TypeOK
  <2>4. todo' \subseteq Files
    BY <1>3, InFiles DEF Mounted
  <2>5. TypeOK'
    BY <1>3, <2>1, <2>3, <2>4 DEF Mounted, Reach, TypeInv, TypeOK
  <2>6. AtWork'
    BY <1>3 DEF Mounted, Reach, TypeInv, AtWork
  <2>7. QED
    BY <2>5, <2>6 DEF TypeInv
<1>4. ASSUME NEW list \in SUBSET Saves, Pack(list) PROVE TypeInv'
  <2>1. Fresh \in Box4 /\ Cardinality({}) = 0
    BY FreshIsBox, FS_EmptySet DEF Box4
  <2>2. disk' \in [Slots -> Box4] /\ disk'["parcial"] \in Box
    BY <1>4, <2>1, FreshIsBox DEF Pack, TypeInv, TypeOK, Slots
  <2>3. stored' \in 0..Cardinality(seen') /\ old' \in Box4
    BY <1>4, <2>1 DEF Pack, TypeInv, TypeOK, Slots
  <2>4. TypeOK'
    BY <1>4, <2>2, <2>3 DEF Pack, TypeInv, TypeOK
  <2>5. AtWork'
    BY <1>4, <2>1, <2>2 DEF Pack, AtWork
  <2>6. QED
    BY <2>4, <2>5 DEF TypeInv
<1>5. CASE StopAsked \/ AddFails \/ NothingWentIn \/ CloseFails
  BY <1>5, AbortType DEF StopAsked, AddFails, NothingWentIn, CloseFails
<1>6. ASSUME NEW f \in Files, AddFile(f) PROVE TypeInv'
  <2>1. /\ cur \in Saves /\ FolderOf[cur] \in Folders /\ disk["parcial"] \in Box
        /\ save[cur][f] \in Contents
    BY <1>6 DEF AddFile, TypeInv, TypeOK, AtWork, Trees
  <2> DEFINE b == [disk["parcial"] EXCEPT !.at[FolderOf[cur]][f] = save[cur][f]]
  <2>2. b \in Box
    BY <2>1, StoreInBox
  <2>3. disk' = [disk EXCEPT !["parcial"] = b]
    BY <1>6 DEF AddFile
  <2>4. disk' \in [Slots -> Box4] /\ disk'["parcial"] \in Box
    BY <2>2, <2>3 DEF TypeInv, TypeOK, Slots, Box4
  <2>5. QED
    BY <1>6, <2>4 DEF AddFile, TypeInv, TypeOK, AtWork
<1>7. CASE Added
  <2> DEFINE n == Worse(doubt[cur], IF todo = {} THEN 0 ELSE 1)
             b == [disk["parcial"] EXCEPT !.doubt[FolderOf[cur]] = n]
  <2>1. cur \in Saves /\ FolderOf[cur] \in Folders /\ disk["parcial"] \in Box
    BY <1>7 DEF Added, TypeInv, AtWork
  <2>2. n \in Doubts
    <3>1. doubt[cur] \in Doubts /\ 0 \in Doubts /\ 1 \in Doubts
      BY <2>1 DEF TypeInv, TypeOK, Doubts
    <3>2. QED
      BY <3>1, WorseType
  <2>3. b \in Box
    BY <2>1, <2>2 DEF Box
  <2>4. disk' = [disk EXCEPT !["parcial"] = b]
    BY <1>7 DEF Added
  <2>5. disk' \in [Slots -> Box4] /\ disk'["parcial"] \in Box
    BY <2>3, <2>4 DEF TypeInv, TypeOK, Slots, Box4
  <2>6. mishaps' \in 0..MaxMishaps
    BY <1>7, MishapType DEF Added, TypeInv
  <2>7. QED
    BY <1>7, <2>5, <2>6 DEF Added, TypeInv, TypeOK, AtWork
<1>8. CASE Close
  <2> DEFINE b == [disk["parcial"] EXCEPT !.header = TRUE, !.index = TRUE]
  <2>1. b \in Box
    BY <1>8 DEF Close, TypeInv, AtWork, Box
  <2>2. disk' = [disk EXCEPT !["parcial"] = b]
    BY <1>8 DEF Close
  <2>3. disk' \in [Slots -> Box4]
    BY <2>1, <2>2 DEF TypeInv, TypeOK, Slots, Box4
  <2>4. QED
    BY <1>8, <2>3 DEF Close, TypeInv, TypeOK, AtWork
<1>9. CASE DropAnterior
  BY <1>9, DiskType DEF DropAnterior, Removed, TypeInv, TypeOK, AtWork, Slots
<1>10. CASE MoveAside
  <2>1. disk' \in [Slots -> Box4]
    BY <1>10, DiskType DEF MoveAside, Moved, TypeInv, TypeOK, Slots
  <2>2. mishaps' \in 0..MaxMishaps
    BY <1>10, MishapType DEF MoveAside, TypeInv
  <2>3. QED
    BY <1>10, <2>1, <2>2 DEF MoveAside, TypeInv, TypeOK, AtWork
<1>11. CASE Put
  <2>1. disk' \in [Slots -> Box4]
    BY <1>11, DiskType DEF Put, Moved, TypeInv, TypeOK, Slots
  <2>2. QED
    BY <1>11, <2>1 DEF Put, TypeInv, TypeOK, AtWork
<1>12. CASE PutFails
  <2>1. mishaps' \in 0..MaxMishaps
    BY <1>12, MishapType DEF PutFails, TypeInv
  <2>2. QED
    BY <1>12, <2>1 DEF PutFails, TypeInv, TypeOK, AtWork
<1>13. CASE Undo
  <2>1. disk' \in [Slots -> Box4]
    BY <1>13, DiskType DEF Undo, Moved, TypeInv, TypeOK, Slots
  <2>2. mishaps' \in 0..MaxMishaps
    BY <1>13, MishapType DEF Undo, TypeInv
  <2>3. QED
    BY <1>13, <2>1, <2>2 DEF Undo, TypeInv, TypeOK, AtWork
<1>14. CASE Forget
  <2>1. disk' \in [Slots -> Box4]
    BY <1>14, DiskType DEF Forget, Removed, TypeInv, TypeOK, Slots
  <2>2. QED
    BY <1>14, <2>1, EndsType, MishapType DEF Forget, TypeInv, TypeOK
<1>15. CASE Tidy
  <2>1. disk' \in [Slots -> Box4]
    BY <1>15, DiskType DEF Tidy, Removed, TypeInv, TypeOK, Slots
  <2>2. QED
    BY <1>15, <2>1, OverType, MishapType DEF Tidy, TypeInv, TypeOK, Box4
<1>16. CASE Upload \/ UploadBreaks
  <2>1. disk["final"] # NoBox => disk["final"] \in Box /\ Cut(disk["final"]) \in Box
    BY CutIsBox DEF TypeInv, TypeOK, Slots, Box4
  <2>2. disk["final"] # NoBox
    BY <1>16 DEF Upload, UploadBreaks, IsBox
  <2>3. cloud' \in Box4
    BY <1>16, <2>1, <2>2 DEF Upload, UploadBreaks, TypeInv, TypeOK, Box4, Slots
  <2>4. mishaps' \in 0..MaxMishaps
    BY <1>16, MishapType DEF Upload, UploadBreaks, TypeInv, NoMishap
  <2>5. QED
    BY <1>16, <2>3, <2>4, EndsType DEF Upload, UploadBreaks, TypeInv, TypeOK
<1>17. CASE Download
  <2>1. disk' \in [Slots -> Box4] /\ old' \in Box4
    BY <1>17, FreshIsBox DEF Download, TypeInv, TypeOK, Slots, Box4
  <2>2. QED
    BY <1>17, <2>1 DEF Download, TypeInv, TypeOK, AtWork
<1>18. CASE Fetched
  <2>1. disk' \in [Slots -> Box4]
    BY <1>18 DEF Fetched, TypeInv, TypeOK, Slots
  <2>2. QED
    BY <1>18, <2>1 DEF Fetched, TypeInv, TypeOK, AtWork
<1>19. CASE FetchFails
  <2>1. mishaps' \in 0..MaxMishaps
    BY <1>19, MishapType DEF FetchFails, TypeInv
  <2>2. QED
    BY <1>19, <2>1 DEF FetchFails, TypeInv, TypeOK, AtWork
<1>20. ASSUME NEW g \in Folders, NEW s \in Saves, Restore(g, s) PROVE TypeInv'
  <2>1. todo' \subseteq Files
    BY <1>20, InFiles DEF Restore, Entries
  <2>2. PICK stay \in SUBSET In(staging[g]) :
          /\ staging' = [staging EXCEPT ![g] = Only(staging[g], stay)]
          /\ debris' = (IF stay = {} THEN 0 ELSE 2)
          /\ Mishap \/ NoMishap
    BY <1>20 DEF Restore
  <2>3. Only(staging[g], stay) \in Trees
    BY DEF TypeInv, TypeOK, Trees, Only, Contents
  <2>4. /\ staging' \in [Folders -> Trees] /\ old' \in Box4
        /\ debris' \in Doubts /\ mishaps' \in 0..MaxMishaps
    BY <1>20, <2>2, <2>3, MishapType DEF Restore, TypeInv, TypeOK, Slots, Doubts
  <2>5. disk["final"] # NoBox
    BY <1>20 DEF Restore, IsBox
  <2>6. QED
    BY <1>20, <2>1, <2>4, <2>5 DEF Restore, TypeInv, TypeOK, AtWork
<1>21. ASSUME NEW f \in Files, Take(f) PROVE TypeInv'
  <2>1. from \in Folders /\ disk["final"] \in Box
    BY <1>21 DEF Take, TypeInv, TypeOK, AtWork, Slots, Box4
  <2>2. disk["final"].at[from][f] \in Contents
    BY <2>1 DEF Box, Trees
  <2>3. staging' \in [Folders -> Trees]
    BY <1>21, <2>1, <2>2 DEF Take, TypeInv, TypeOK, Trees
  <2>4. QED
    BY <1>21, <2>3 DEF Take, TypeInv, TypeOK, AtWork
<1>22. CASE TakeFails \/ NothingTaken \/ Crash
  BY <1>22, EndsType, MishapType
  DEF TakeFails, NothingTaken, Crash, NoMishap, TypeInv, TypeOK
<1>23. CASE Write
  <2>1. cur \in Saves /\ from \in Folders /\ disk["final"] \in Box
    BY <1>23 DEF Write, TypeInv, TypeOK, AtWork, Slots, Box4
  <2>2. save' \in [Saves -> Trees] /\ doubt' \in [Saves -> Doubts]
    <3>1. CASE UNCHANGED <<save, doubt>>
      BY <3>1 DEF TypeInv, TypeOK
    <3>2. CASE ~UNCHANGED <<save, doubt>>
      <4>1. PICK got \in SUBSET In(staging[from]), k \in {0, 1} :
              /\ save' = [save EXCEPT ![cur] = Only(staging[from], got)]
              /\ doubt' = [doubt EXCEPT ![cur] =
                             Worse(debris, Worse(disk["final"].doubt[from], k))]
        BY <1>23, <3>2 DEF Write
      <4>2. Only(staging[from], got) \in Trees
        BY <2>1 DEF TypeInv, TypeOK, Trees, Only, Contents
      <4>3. Worse(debris, Worse(disk["final"].doubt[from], k)) \in Doubts
        <5>1. disk["final"].doubt[from] \in Doubts /\ k \in Doubts /\ debris \in Doubts
          BY <2>1 DEF Box, Doubts, TypeInv, TypeOK
        <5>2. QED
          BY <5>1, WorseType
      <4>4. QED
        BY <4>1, <4>2, <4>3 DEF TypeInv, TypeOK
    <3>3. QED
      BY <3>1, <3>2
  <2>3. mishaps' \in 0..MaxMishaps
    BY <1>23, MishapType DEF Write, TypeInv
  <2>4. /\ Over /\ told' \in {"none", "done", "failed"} /\ old' \in Box4
        /\ made' \in BOOLEAN /\ UNCHANGED <<played, disk, staging, cloud>>
    BY <1>23 DEF Write, Ends, TypeInv, TypeOK, Box4
  <2>5. Cardinality({}) = 0
    BY FS_EmptySet
  <2>6. stored' \in 0..Cardinality(seen') /\ AtWork'
    BY <2>4, <2>5 DEF Over, AtWork
  <2>7. debris' \in Doubts
    BY <2>4 DEF Over, Doubts
  <2>8. TypeOK'
    BY <2>2, <2>3, <2>4, <2>6, <2>7 DEF Over, TypeInv, TypeOK
  <2>9. QED
    BY <2>6, <2>8 DEF TypeInv
<1>24. QED
  BY <1>0, <1>1, <1>2, <1>3, <1>4, <1>5, <1>6, <1>7, <1>8, <1>9, <1>10, <1>11, <1>12, <1>13,
     <1>14, <1>15, <1>16, <1>17, <1>18, <1>19, <1>20, <1>21, <1>22, <1>23 DEF Next

LEMMA TypeInvariant == Spec => []TypeInv
<1>1. TypeInv /\ [Next]_vars => TypeInv'
  BY NextTypeInv
<1>2. QED
  BY InitTypeInv, <1>1, PTL DEF Spec

\* Every variable always has its type; no more saves go into an archive than the
\* loop has met folder names.
THEOREM TypeCorrect == Spec => []TypeOK
<1>1. TypeInv => TypeOK
  BY DEF TypeInv
<1>2. QED
  BY TypeInvariant, <1>1, PTL
-----------------------------------------------------------------------------
(* A failure keeps the archive there was.  While the job packs or downloads,
   the archive is where it was when the job began; from the moment it stepped
   aside until the new one is in place it is .anterior; the way back loses it
   only from the one name to the other. *)

OldKept ==
    /\ pc # "idle" => told = "none"
    /\ pc \in {"next", "add", "fetch", "take", "drop", "aside"} => disk["final"] = old
    /\ pc = "aside" => disk["anterior"] = NoBox
    /\ pc = "undo" => had
    /\ pc \in {"put", "undo"} =>
          IF had THEN disk["anterior"] = old /\ disk["final"] = NoBox
                 ELSE disk["final"] = old
    /\ pc = "forget" /\ old # NoBox => old \in {disk["final"], disk["anterior"]}
    /\ FailureKeepsOld

LEMMA OldKeptInit == Init => OldKept
  BY DEF Init, OldKept, FailureKeepsOld

LEMMA OldKeptNext == TypeInv /\ OldKept /\ [Next]_vars => OldKept'
<1> SUFFICES ASSUME TypeInv, OldKept, [Next]_vars PROVE OldKept'
  OBVIOUS
<1> USE DEF ends, local, past, GoTo, Begins, OldKept, FailureKeepsOld
<1>0. disk \in [Slots -> Box4] /\ Slots = {"final", "parcial", "baixando", "anterior"}
      /\ temp \in {"parcial", "baixando"}
  BY DEF TypeInv, TypeOK, Slots
<1>1. CASE UNCHANGED vars
  BY <1>1 DEF vars
<1>2. ASSUME NEW s \in Saves, Play(s) \/ PassOver(s) \/ Mounted(s) PROVE OldKept'
  BY <1>2 DEF Play, PassOver, Mounted, Reach
<1>3. ASSUME NEW list \in SUBSET Saves, Pack(list) PROVE OldKept'
  BY <1>0, <1>3 DEF Pack
<1>4. CASE StopAsked \/ AddFails \/ NothingWentIn \/ CloseFails
  <2>1. Abort /\ pc \in {"next", "add"}
    BY <1>4 DEF StopAsked, AddFails, NothingWentIn, CloseFails
  <2>2. QED
    BY <1>0, <2>1 DEF Abort, Removed, Ends, Over
<1>5. ASSUME NEW f \in Files, AddFile(f) \/ Take(f) PROVE OldKept'
  BY <1>0, <1>5 DEF AddFile, Take
<1>6. CASE Added \/ Close
  BY <1>0, <1>6 DEF Added, Close
<1>7. CASE DropAnterior
  BY <1>0, <1>7 DEF DropAnterior, Removed
<1>8. CASE MoveAside
  BY <1>0, <1>8 DEF MoveAside, CanMove, Moved
<1>9. CASE Put
  BY <1>0, <1>9 DEF Put, CanMove, Moved
<1>10. CASE PutFails
  BY <1>10 DEF PutFails
<1>11. CASE Undo
  BY <1>0, <1>11 DEF Undo, Moved
<1>12. CASE Forget
  BY <1>0, <1>12 DEF Forget, Removed, Ends, Over
<1>13. CASE Tidy
  BY <1>13 DEF Tidy, Over
<1>14. CASE Upload \/ UploadBreaks
  BY <1>14 DEF Upload, UploadBreaks, Ends, Over
<1>15. CASE Download
  BY <1>0, <1>15 DEF Download
<1>16. CASE Fetched \/ FetchFails
  BY <1>0, <1>16 DEF Fetched, FetchFails
<1>17. ASSUME NEW g \in Folders, NEW s \in Saves, Restore(g, s) PROVE OldKept'
  BY <1>17 DEF Restore
<1>18. CASE TakeFails \/ NothingTaken \/ Write \/ Crash
  BY <1>18 DEF TakeFails, NothingTaken, Write, Crash, Ends, Over
<1>19. QED
  BY <1>1, <1>2, <1>3, <1>4, <1>5, <1>6, <1>7, <1>8, <1>9, <1>10, <1>11, <1>12, <1>13, <1>14,
     <1>15, <1>16, <1>17, <1>18 DEF Next

LEMMA OldKeptInvariant == Spec => [](TypeInv /\ OldKept)
<1>1. TypeInv /\ OldKept /\ [Next]_vars => OldKept'
  BY OldKeptNext
<1>2. QED
  BY TypeInvariant, OldKeptInit, <1>1, PTL DEF Spec

\* What jobArchiveAll says of a failure: whatever failed and wherever, the archive
\* there was is on the card as it was, under its name or as .anterior.
THEOREM FailuresKeepOld == Spec => []FailureKeepsOld
<1>1. OldKept => FailureKeepsOld
  BY DEF OldKept
<1>2. QED
  BY OldKeptInvariant, <1>1, PTL
-----------------------------------------------------------------------------
(* Only a finished container has the archive's name.  What takes the name is a
   container that was closed, or a copy of the cloud's, which is one of the card's:
   so all three, and what is about to take the name, are whole together. *)

Sound(b) == b # NoBox => Readable(b)

NamesSound ==
    ~CutUploads =>
      /\ Sound(disk["final"]) /\ Sound(disk["anterior"]) /\ Sound(cloud)
      /\ pc \in {"drop", "aside", "put"} => Readable(disk[temp])

LEMMA NamesSoundInit == Init => NamesSound
  BY DEF Init, NamesSound, Sound, Slots

LEMMA NamesSoundNext == TypeInv /\ NamesSound /\ [Next]_vars => NamesSound'
<1> SUFFICES ASSUME TypeInv, NamesSound, [Next]_vars, ~CutUploads PROVE NamesSound'
  BY DEF NamesSound
<1> USE DEF ends, local, past, GoTo, Begins, NamesSound, Sound
<1>0. disk \in [Slots -> Box4] /\ Slots = {"final", "parcial", "baixando", "anterior"}
      /\ temp \in {"parcial", "baixando"}
  BY DEF TypeInv, TypeOK, Slots
<1>1. CASE UNCHANGED vars
  BY <1>1 DEF vars, Readable
<1>2. ASSUME NEW s \in Saves, Play(s) \/ PassOver(s) \/ Mounted(s) PROVE NamesSound'
  BY <1>2 DEF Play, PassOver, Mounted, Reach, Readable
<1>3. ASSUME NEW list \in SUBSET Saves, Pack(list) PROVE NamesSound'
  BY <1>0, <1>3 DEF Pack, Readable
<1>4. CASE StopAsked \/ AddFails \/ NothingWentIn \/ CloseFails
  <2>1. Abort
    BY <1>4 DEF StopAsked, AddFails, NothingWentIn, CloseFails
  <2>2. QED
    BY <1>0, <2>1 DEF Abort, Removed, Ends, Over, Readable
<1>5. ASSUME NEW f \in Files, AddFile(f) PROVE NamesSound'
  BY <1>0, <1>5 DEF AddFile, Readable
<1>6. ASSUME NEW f \in Files, Take(f) PROVE NamesSound'
  BY <1>0, <1>6 DEF Take, Readable
<1>7. CASE Added
  BY <1>0, <1>7 DEF Added, Readable
<1>8. CASE Close
  <2> DEFINE b == [disk["parcial"] EXCEPT !.header = TRUE, !.index = TRUE]
  <2>1. b \in Box /\ b.header /\ b.index
    BY <1>8 DEF Close, TypeInv, AtWork, Box
  <2>2. Readable(b)
    BY <2>1 DEF Readable
  <2>3. disk' = [disk EXCEPT !["parcial"] = b] /\ temp = "parcial" /\ UNCHANGED <<temp, cloud>>
    BY <1>8 DEF Close, TypeInv, AtWork
  <2> HIDE DEF b
  <2>4. QED
    BY <1>0, <2>2, <2>3 DEF Readable
<1>9. CASE DropAnterior
  BY <1>0, <1>9 DEF DropAnterior, Removed, Readable
<1>10. CASE MoveAside
  BY <1>0, <1>10 DEF MoveAside, CanMove, Moved, Readable
<1>11. CASE Put
  BY <1>0, <1>11 DEF Put, CanMove, Moved, Readable
<1>12. CASE PutFails
  BY <1>12 DEF PutFails, Readable
<1>13. CASE Undo
  BY <1>0, <1>13 DEF Undo, Moved, Readable
<1>14. CASE Forget
  BY <1>0, <1>14 DEF Forget, Removed, Ends, Over, Readable
<1>15. CASE Tidy
  BY <1>0, <1>15 DEF Tidy, Removed, Over, Readable
<1>16. CASE Upload \/ UploadBreaks
  BY <1>16 DEF Upload, UploadBreaks, Ends, Over, Readable
<1>17. CASE Download
  BY <1>0, <1>17 DEF Download, Readable
<1>18. CASE Fetched
  BY <1>0, <1>18 DEF Fetched, TypeInv, AtWork, Readable
<1>19. CASE FetchFails
  BY <1>19 DEF FetchFails, Readable
<1>20. ASSUME NEW g \in Folders, NEW s \in Saves, Restore(g, s) PROVE NamesSound'
  BY <1>20 DEF Restore, Readable
<1>21. CASE TakeFails \/ NothingTaken \/ Write \/ Crash
  BY <1>21 DEF TakeFails, NothingTaken, Write, Crash, Ends, Over, Readable
<1>22. QED
  BY <1>1, <1>2, <1>3, <1>4, <1>5, <1>6, <1>7, <1>8, <1>9, <1>10, <1>11, <1>12, <1>13, <1>14,
     <1>15, <1>16, <1>17, <1>18, <1>19, <1>20, <1>21 DEF Next

LEMMA NamesSoundInvariant == Spec => [](TypeInv /\ OldKept /\ NamesSound)
<1>1. TypeInv /\ NamesSound /\ [Next]_vars => NamesSound'
  BY NamesSoundNext
<1>2. QED
  BY OldKeptInvariant, NamesSoundInit, <1>1, PTL DEF Spec

\* Where the cloud never keeps half an upload, what has the archive's name is a
\* container that was finished, however often and wherever jobs were cut short.
THEOREM OnlyFinished == Spec => []FinalReadable
<1>1. NamesSound => FinalReadable
  BY DEF NamesSound, Sound, FinalReadable
<1>2. QED
  BY NamesSoundInvariant, <1>1, PTL
-----------------------------------------------------------------------------
(* One failure never leaves the card without an archive.  Before the first
   mishap it is under its name, or aside while the new one takes its place; after
   it, under its name, aside, or about to be replaced by a finished one. *)

NeverWithout ==
    ~CutUploads =>
      /\ pc = "tidy" => Readable(disk["final"])
      /\ made /\ mishaps = 0 =>
            IF pc \in {"put", "undo"}
            THEN had /\ Readable(disk["anterior"])
            ELSE Readable(disk["final"])
      /\ made /\ mishaps = 1 =>
            \/ Readable(disk["final"]) \/ Readable(disk["anterior"])
            \/ pc \in {"aside", "put"} /\ Readable(disk[temp])

LEMMA NeverWithoutInit == Init => NeverWithout
  BY DEF Init, NeverWithout

LEMMA NeverWithoutNext ==
    TypeInv /\ OldKept /\ NamesSound /\ NeverWithout /\ [Next]_vars => NeverWithout'
<1> SUFFICES ASSUME TypeInv, OldKept, NamesSound, NeverWithout, [Next]_vars, ~CutUploads
             PROVE  NeverWithout'
  BY DEF NeverWithout
<1> USE DEF ends, local, past, GoTo, Begins, NeverWithout, Mishap, NoMishap
<1>0. disk \in [Slots -> Box4] /\ Slots = {"final", "parcial", "baixando", "anterior"}
      /\ temp \in {"parcial", "baixando"} /\ mishaps \in Nat
  BY DEF TypeInv, TypeOK, Slots
<1>n. \A b : Readable(b) => b # NoBox
  BY DEF Readable
<1>1. CASE UNCHANGED vars
  BY <1>1 DEF vars, Readable
<1>2. ASSUME NEW s \in Saves, Play(s) \/ PassOver(s) \/ Mounted(s) PROVE NeverWithout'
  BY <1>2 DEF Play, PassOver, Mounted, Reach, Readable
<1>3. ASSUME NEW list \in SUBSET Saves, Pack(list) PROVE NeverWithout'
  BY <1>0, <1>3 DEF Pack, Readable
<1>4. CASE StopAsked \/ AddFails \/ NothingWentIn \/ CloseFails
  <2>1. Abort /\ pc \in {"next", "add"} /\ (Mishap \/ NoMishap)
    BY <1>4 DEF StopAsked, AddFails, NothingWentIn, CloseFails
  <2>2. QED
    BY <1>0, <2>1 DEF Abort, Removed, Ends, Over, Readable
<1>5. ASSUME NEW f \in Files, AddFile(f) PROVE NeverWithout'
  BY <1>0, <1>5 DEF AddFile, Readable
<1>6. ASSUME NEW f \in Files, Take(f) PROVE NeverWithout'
  BY <1>0, <1>6 DEF Take, Readable
<1>7. CASE Added
  BY <1>0, <1>7 DEF Added, Readable
<1>8. CASE Close
  BY <1>0, <1>8 DEF Close, Readable
<1>9. CASE DropAnterior
  BY <1>0, <1>9 DEF DropAnterior, Removed, Readable, NamesSound
<1>10. CASE MoveAside
  BY <1>0, <1>10 DEF MoveAside, CanMove, Moved, Readable, OldKept
<1>11. CASE Put
  BY <1>0, <1>11 DEF Put, CanMove, Moved, Readable, NamesSound
<1>12. CASE PutFails
  BY <1>0, <1>12, <1>n DEF PutFails, CanMove, Readable, NamesSound, Sound, OldKept
<1>13. CASE Undo
  BY <1>0, <1>13 DEF Undo, Moved, Readable, OldKept
<1>14. CASE Forget
  BY <1>0, <1>14 DEF Forget, Removed, Ends, Over, Readable
<1>15. CASE Tidy
  BY <1>0, <1>15 DEF Tidy, Removed, Over, Readable
<1>16. CASE Upload \/ UploadBreaks
  BY <1>0, <1>16 DEF Upload, UploadBreaks, Ends, Over, Readable
<1>17. CASE Download
  BY <1>0, <1>17 DEF Download, Readable
<1>18. CASE Fetched
  BY <1>0, <1>18 DEF Fetched, TypeInv, AtWork, Readable
<1>19. CASE FetchFails
  BY <1>0, <1>19 DEF FetchFails, Readable
<1>20. ASSUME NEW g \in Folders, NEW s \in Saves, Restore(g, s) PROVE NeverWithout'
  <2>1. /\ pc = "idle" /\ pc' = "take" /\ UNCHANGED <<disk, made>>
        /\ mishaps' = mishaps \/ mishaps' = mishaps + 1
    BY <1>20 DEF Restore
  <2>2. QED
    BY <1>0, <2>1 DEF Readable
<1>21. CASE TakeFails \/ NothingTaken \/ Write
  BY <1>0, <1>21 DEF TakeFails, NothingTaken, Write, Ends, Over, Readable
<1>22. CASE Crash
  BY <1>0, <1>22 DEF Crash, Ends, Over, Readable
<1>23. QED
  BY <1>1, <1>2, <1>3, <1>4, <1>5, <1>6, <1>7, <1>8, <1>9, <1>10, <1>11, <1>12, <1>13, <1>14,
     <1>15, <1>16, <1>17, <1>18, <1>19, <1>20, <1>21, <1>22 DEF Next

\* An archive the user was told of is not lost to one failure or one loss of
\* power, wherever it falls, nor to any later packing, stop or download.
THEOREM ArchiveRemains == Spec => []OneArchiveRemains
<1>1. TypeInv /\ NeverWithout => OneArchiveRemains
  <2> SUFFICES ASSUME TypeInv, NeverWithout, ~CutUploads, made, mishaps <= 1
               PROVE  \E d \in Slots : Readable(disk[d])
    BY DEF OneArchiveRemains
  <2>1. mishaps \in {0, 1} /\ temp \in Slots /\ "final" \in Slots /\ "anterior" \in Slots
    BY DEF TypeInv, TypeOK, Slots
  <2>2. QED
    BY <2>1 DEF NeverWithout
<1>2. TypeInv /\ OldKept /\ NamesSound /\ NeverWithout /\ [Next]_vars => NeverWithout'
  BY NeverWithoutNext
<1>3. QED
  BY NamesSoundInvariant, NeverWithoutInit, <1>1, <1>2, PTL DEF Spec
-----------------------------------------------------------------------------
(* A restore writes one save.  A savedata, and what a finished container has
   under each name, is as near to one save as its doubt says, because a name is
   packed from one title only; and what is copied out of a container is all of
   that or less, in a folder that was empty unless the doubt says otherwise. *)

IsTree(x) == x = Empty \/ OneWhole(x)
Near(x, n) == IF n = 0 THEN IsTree(x) ELSE n = 1 => PartOfOne(x)
BoxOfTrees(b) == b # NoBox => \A g \in Folders : Near(b.at[g], b.doubt[g])

\* What has been packed of the title the loop is at, and of the others.
Packing ==
    /\ pc \in {"next", "add"} => \A g \in Folders \ seen : disk["parcial"].at[g] = Empty
    /\ pc = "next" => BoxOfTrees(disk["parcial"])
    /\ pc = "add" =>
          \A g \in Folders :
             IF g = FolderOf[cur]
             THEN disk["parcial"].at[g] = Only(save[cur], Files \ todo)
             ELSE Near(disk["parcial"].at[g], disk["parcial"].doubt[g])

\* What has been copied to the staging folder.
Taking ==
    pc = "take" =>
       /\ todo \subseteq Entries(from) /\ debris \in {0, 2}
       /\ debris = 0 => staging[from] = Only(disk["final"].at[from], Entries(from) \ todo)

OneSave ==
    /\ \A s \in Saves : Near(save[s], doubt[s])
    /\ BoxOfTrees(disk["final"]) /\ BoxOfTrees(disk["anterior"]) /\ BoxOfTrees(cloud)
    /\ pc \in {"drop", "aside", "put"} => BoxOfTrees(disk[temp])
    /\ Packing /\ Taking

LEMMA OneSaveInit == Init => OneSave
<1> SUFFICES ASSUME Init PROVE OneSave
  OBVIOUS
<1>1. \A s \in Saves : Near(save[s], doubt[s])
  <2>1. 1 \in 1..MaxVer
    OBVIOUS
  <2>2. QED
    BY <2>1 DEF Init, Near, IsTree, OneWhole
<1>2. QED
  BY <1>1 DEF Init, OneSave, BoxOfTrees, Packing, Taking, Slots

\* Nothing is as near as one likes.
LEMMA EmptyNear == ASSUME NEW n PROVE Near(Empty, n)
  BY DEF Near, IsTree, PartOfOne

\* A save is a part of itself.
LEMMA WholeIsPart == ASSUME NEW x \in Trees, IsTree(x) PROVE PartOfOne(x)
<1>1. CASE x = Empty
  BY <1>1 DEF PartOfOne
<1>2. ASSUME NEW t \in Saves, NEW v \in 1..MaxVer, x = Tree(t, v) PROVE PartOfOne(x)
  <2>1. x = Only(x, In(x))
    BY DEF Trees, Only, In
  <2>2. QED
    BY <1>2, <2>1 DEF PartOfOne
<1>3. QED
  BY <1>1, <1>2 DEF IsTree, OneWhole

\* And a part of a part is a part.
LEMMA PartOfPart == ASSUME NEW x \in Trees, PartOfOne(x), NEW F PROVE PartOfOne(Only(x, F))
<1> DEFINE y == Only(x, F)
<1>1. CASE x = Empty
  <2>1. y = Empty
    BY <1>1 DEF Only, Empty
  <2>2. QED
    BY <2>1 DEF PartOfOne
<1>2. ASSUME NEW t \in Saves, NEW v \in 1..MaxVer, x = Only(Tree(t, v), In(x))
      PROVE  PartOfOne(y)
  <2>1. \A f \in Files : y[f] = (IF f \in F THEN x[f] ELSE None)
    BY DEF Only
  <2>2. \A f \in Files : x[f] = (IF f \in In(x) THEN Tree(t, v)[f] ELSE None)
    BY <1>2, Zenon DEF Only
  <2>3. \A f \in Files : f \in In(y) <=> y[f] # None
    BY DEF In
  <2>4. \A f \in Files : f \in In(x) <=> x[f] # None
    BY DEF In
  <2>5. \A f \in Files : y[f] = (IF f \in In(y) THEN Tree(t, v)[f] ELSE None)
    BY <2>1, <2>2, <2>3, <2>4
  <2>6. y = Only(Tree(t, v), In(y))
    BY <2>5 DEF Only
  <2>7. QED
    BY <2>6 DEF PartOfOne
<1>3. QED
  BY <1>1, <1>2 DEF PartOfOne

\* What a listing gave of a tree is as near as before, or in more doubt.
LEMMA NearCut ==
    ASSUME NEW x \in Trees, NEW n \in Doubts, Near(x, n), NEW F,
           NEW k \in {0, 1}, k = 0 => Only(x, F) = x
    PROVE  Near(Only(x, F), Worse(n, k))
<1>1. CASE k = 0
  <2>1. Worse(n, k) = n
    BY <1>1 DEF Worse, Doubts
  <2>2. QED
    BY <1>1, <2>1
<1>2. CASE k = 1
  <2>1. Worse(n, k) \in {1, 2} /\ (Worse(n, k) = 1 => n \in {0, 1})
    BY <1>2 DEF Worse, Doubts
  <2>2. CASE Worse(n, k) = 2
    BY <2>2 DEF Near
  <2>3. CASE Worse(n, k) = 1
    <3>1. PartOfOne(x)
      BY <2>1, <2>3, WholeIsPart DEF Near
    <3>2. QED
      BY <2>3, <3>1, PartOfPart DEF Near
  <2>4. QED
    BY <2>1, <2>2, <2>3
<1>3. QED
  BY <1>1, <1>2

\* The files left to pack, when none is and when all are.
LEMMA AllPacked == ASSUME NEW x \in Trees PROVE Only(x, Files \ {}) = x
  BY DEF Trees, Only

LEMMA NonePacked == ASSUME NEW x \in Trees PROVE Only(x, Files \ In(x)) = Empty
  BY DEF Trees, In, Empty, Only

\* A tree is what its listing gives when it gives all of it.
LEMMA AllTaken == ASSUME NEW x \in Trees PROVE Only(x, In(x)) = x
  BY DEF Trees, In, Only

\* A job that neither packs nor copies, and changes no save and no container
\* with the archive's names.
LEMMA OneSaveKept ==
    ASSUME OneSave, UNCHANGED <<save, cloud, doubt>>,
           \A d \in {"final", "anterior"} : disk'[d] \in {disk[d], NoBox},
           pc' \notin {"drop", "aside", "put", "next", "add", "take"}
    PROVE  OneSave'
  BY DEF OneSave, BoxOfTrees, Near, IsTree, OneWhole, PartOfOne, Packing, Taking

\* What is in the staging folder once everything was copied to an empty one.
LEMMA WholeTaken ==
    ASSUME TypeInv, OneSave, pc = "take", todo = {}, Entries(from) # {}, debris = 0
    PROVE  /\ staging[from] = disk["final"].at[from] /\ staging[from] \in Trees
           /\ In(staging[from]) # {}
           /\ disk["final"].doubt[from] \in Doubts
           /\ Near(staging[from], disk["final"].doubt[from])
<1>1. from \in Folders /\ disk["final"] \in Box /\ disk["final"] # NoBox
  BY DEF TypeInv, TypeOK, AtWork, Box4, Slots
<1>2. disk["final"].at[from] \in Trees /\ disk["final"].doubt[from] \in Doubts
  BY <1>1 DEF Box
<1>3. Near(disk["final"].at[from], disk["final"].doubt[from])
  BY <1>1 DEF OneSave, BoxOfTrees
<1>4. Entries(from) = In(disk["final"].at[from])
  BY DEF Entries
<1>5. staging[from] = disk["final"].at[from]
  <2>1. staging[from] = Only(disk["final"].at[from], Entries(from) \ {})
    BY DEF OneSave, Taking
  <2>2. Entries(from) \ {} = In(disk["final"].at[from])
    BY <1>4
  <2>3. QED
    BY <1>2, <2>1, <2>2, AllTaken
<1>6. QED
  BY <1>2, <1>3, <1>4, <1>5

\* What a restore writes is as near to one save as the doubt it leaves.
LEMMA WrittenNear ==
    ASSUME TypeInv, OneSave, pc = "take", todo = {}, Entries(from) # {},
           NEW got \in SUBSET In(staging[from]), NEW k \in {0, 1},
           k = 0 <=> got = In(staging[from]),
           NEW m, m = Worse(debris, Worse(disk["final"].doubt[from], k))
    PROVE  /\ Near(Only(staging[from], got), m)
           /\ m = 0 => /\ Only(staging[from], got) = disk["final"].at[from]
                       /\ OneWhole(Only(staging[from], got))
           /\ m = 1 => PartOfOne(Only(staging[from], got))
<1> DEFINE x == staging[from]
           n == disk["final"].doubt[from]
<1>1. from \in Folders /\ disk["final"] \in Box /\ debris \in Doubts
  BY DEF TypeInv, TypeOK, AtWork, Box4, Slots
<1>2. n \in Doubts /\ Worse(n, k) \in Doubts
  <2>1. n \in Doubts /\ k \in Doubts
    BY <1>1 DEF Box, Doubts
  <2>2. QED
    BY <2>1, WorseType
<1>3. CASE debris # 0
  <2>1. debris = 2
    BY <1>3 DEF OneSave, Taking
  <2>2. m = 2
    BY <1>2, <2>1 DEF Worse, Doubts
  <2>3. QED
    BY <2>2 DEF Near
<1>4. CASE debris = 0
  <2>1. x = disk["final"].at[from] /\ x \in Trees /\ In(x) # {} /\ Near(x, n)
    BY <1>4, WholeTaken
  <2>2. k = 0 => Only(x, got) = x
    BY <2>1, AllTaken
  <2>3. m = Worse(n, k)
    BY <1>2, <1>4 DEF Worse, Doubts
  <2>4. Near(Only(x, got), Worse(n, k))
    BY <1>2, <2>1, <2>2, NearCut
  <2>5. m = 0 => k = 0 /\ n = 0
    BY <1>2, <2>3 DEF Worse, Doubts
  <2>6. m = 0 => OneWhole(x)
    <3>1. x # Empty
      BY <2>1 DEF In, Empty
    <3>2. QED
      BY <2>1, <2>5, <3>1 DEF Near, IsTree
  <2>7. m = 1 => PartOfOne(Only(x, got))
    BY <2>3, <2>4 DEF Near
  <2>8. QED
    BY <2>1, <2>2, <2>3, <2>4, <2>5, <2>6, <2>7
<1>5. QED
  BY <1>3, <1>4

LEMMA OneSaveNext == TypeInv /\ OneSave /\ [Next]_vars => OneSave'
<1> SUFFICES ASSUME TypeInv, OneSave, [Next]_vars PROVE OneSave'
  OBVIOUS
<1> USE DEF ends, local, past, GoTo, Begins
<1>0. disk \in [Slots -> Box4] /\ Slots = {"final", "parcial", "baixando", "anterior"}
      /\ temp \in {"parcial", "baixando"} /\ save \in [Saves -> Trees]
      /\ doubt \in [Saves -> Doubts]
      /\ \A s \in Saves : FolderOf[s] \in Folders
  BY DEF TypeInv, TypeOK, Slots
<1>1. CASE UNCHANGED vars
  <2>1. UNCHANGED <<save, disk, staging, cloud, pc, seen, cur, from, todo, temp, doubt, debris>>
    BY <1>1 DEF vars
  <2>2. Packing'
    BY <2>1 DEF OneSave, Packing, BoxOfTrees, Near, IsTree, OneWhole, PartOfOne, Only
  <2>3. Taking'
    <3>1. UNCHANGED Entries(from)
      BY <2>1 DEF Entries, Readable
    <3>2. QED
      BY <2>1, <3>1 DEF OneSave, Taking
  <2>4. QED
    BY <2>1, <2>2, <2>3 DEF OneSave, BoxOfTrees, Near, IsTree, OneWhole, PartOfOne
<1>2. ASSUME NEW s \in Saves, Play(s) PROVE OneSave'
  <2>1. played[s] + 1 \in 1..MaxVer
    BY <1>2 DEF Play, TypeInv, TypeOK
  <2>2. \A t \in Saves : Near(save'[t], doubt'[t])
    BY <1>0, <1>2, <2>1 DEF Play, OneSave, Near, IsTree, OneWhole
  <2>3. QED
    BY <1>2, <2>2 DEF Play, OneSave, BoxOfTrees, Near, IsTree, OneWhole, PartOfOne, Packing, Taking
<1>3. ASSUME NEW s \in Saves, PassOver(s) PROVE OneSave'
  BY <1>3 DEF PassOver, Reach, OneSave, BoxOfTrees, Near, IsTree, OneWhole, PartOfOne, Packing,
              Taking
<1>4. ASSUME NEW s \in Saves, Mounted(s) PROVE OneSave'
  <2>1. /\ pc = "next" /\ pc' = "add" /\ cur' = s /\ todo' = In(save[s])
        /\ FolderOf[s] \notin seen /\ seen' = seen \cup {FolderOf[s]}
        /\ UNCHANGED <<save, disk, cloud, doubt>>
    BY <1>4 DEF Mounted, Reach, Repeated
  <2>2. disk["parcial"] # NoBox /\ disk["parcial"].at[FolderOf[s]] = Empty
    BY <1>0, <2>1 DEF TypeInv, AtWork, OneSave, Packing
  <2>3. Only(save[s], Files \ todo') = Empty
    BY <1>0, <2>1, NonePacked
  <2>4. Packing'
    BY <2>1, <2>2, <2>3 DEF OneSave, Packing, BoxOfTrees, Near, IsTree, OneWhole, PartOfOne
  <2>5. QED
    BY <2>1, <2>4 DEF OneSave, BoxOfTrees, Near, IsTree, OneWhole, PartOfOne, Taking
<1>5. ASSUME NEW list \in SUBSET Saves, Pack(list) PROVE OneSave'
  <2>1. disk' = [disk EXCEPT !["parcial"] = Fresh] /\ pc' = "next"
        /\ UNCHANGED <<save, cloud, doubt>>
    BY <1>5 DEF Pack
  <2>2. \A g \in Folders : Fresh.at[g] = Empty
    BY DEF Fresh
  <2>3. disk'["parcial"] = Fresh /\ UNCHANGED <<disk["final"], disk["anterior"]>>
    BY <1>0, <2>1
  <2>4. BoxOfTrees(Fresh)
    BY <2>2, EmptyNear DEF BoxOfTrees
  <2>5. Packing'
    BY <2>1, <2>2, <2>3, <2>4 DEF Packing, BoxOfTrees, Near, IsTree, OneWhole, PartOfOne
  <2>6. QED
    BY <2>1, <2>3, <2>5 DEF OneSave, BoxOfTrees, Near, IsTree, OneWhole, PartOfOne, Taking
<1>6. CASE StopAsked \/ AddFails \/ NothingWentIn \/ CloseFails
  <2>1. Abort
    BY <1>6 DEF StopAsked, AddFails, NothingWentIn, CloseFails
  <2>2. QED
    BY <1>0, <2>1, OneSaveKept DEF Abort, Removed, Ends, Over
<1>7. ASSUME NEW f \in Files, AddFile(f) PROVE OneSave'
  <2> DEFINE g0 == FolderOf[cur]
             b == [disk["parcial"] EXCEPT !.at[g0][f] = save[cur][f]]
  <2>1. /\ pc = "add" /\ f \in todo /\ todo' = todo \ {f} /\ cur \in Saves
        /\ g0 \in Folders /\ g0 \in seen /\ disk["parcial"] \in Box
        /\ UNCHANGED <<save, cloud, pc, seen, cur, doubt>>
    BY <1>0, <1>7 DEF AddFile, TypeInv, AtWork
  <2>2. disk' = [disk EXCEPT !["parcial"] = b]
    BY <1>7 DEF AddFile
  <2>3. disk'["parcial"] = b /\ UNCHANGED <<disk["final"], disk["anterior"]>>
    BY <1>0, <2>2
  <2>4. /\ \A g \in Folders : b.at[g] = IF g = g0 THEN [disk["parcial"].at[g0] EXCEPT ![f] = save[cur][f]]
                                                 ELSE disk["parcial"].at[g]
        /\ b.doubt = disk["parcial"].doubt
    BY <2>1 DEF Box
  <2>5. [disk["parcial"].at[g0] EXCEPT ![f] = save[cur][f]] = Only(save[cur], Files \ todo')
    <3>1. disk["parcial"].at[g0] = Only(save[cur], Files \ todo)
      BY <2>1 DEF OneSave, Packing
    <3>2. QED
      BY <2>1, <3>1 DEF Only
  <2> HIDE DEF b
  <2>6. Packing'
    <3>1. \A g \in Folders \ seen : g # g0 /\ b.at[g] = Empty
      BY <2>1, <2>4 DEF OneSave, Packing
    <3>2. \A g \in Folders \ {g0} : Near(b.at[g], b.doubt[g])
      BY <2>1, <2>4 DEF OneSave, Packing
    <3>3. b.at[g0] = Only(save[cur], Files \ todo')
      BY <2>1, <2>4, <2>5
    <3>4. QED
      BY <2>1, <2>3, <3>1, <3>2, <3>3 DEF Packing, Near, IsTree, OneWhole, PartOfOne
  <2>7. QED
    BY <2>1, <2>3, <2>6 DEF OneSave, BoxOfTrees, Near, IsTree, OneWhole, PartOfOne, Taking
<1>8. CASE Added
  <2> DEFINE g0 == FolderOf[cur]
             k == IF todo = {} THEN 0 ELSE 1
             n == Worse(doubt[cur], k)
             b == [disk["parcial"] EXCEPT !.doubt[g0] = n]
  <2>1. /\ pc = "add" /\ pc' = "next" /\ cur \in Saves /\ g0 \in Folders /\ g0 \in seen
        /\ disk["parcial"] \in Box /\ UNCHANGED <<save, cloud, seen, doubt>>
    BY <1>0, <1>8 DEF Added, TypeInv, AtWork
  <2>2. disk' = [disk EXCEPT !["parcial"] = b]
    BY <1>8 DEF Added
  <2>3. disk'["parcial"] = b /\ UNCHANGED <<disk["final"], disk["anterior"]>>
    BY <1>0, <2>2
  <2>b. b \in Box
    <3>1. doubt[cur] \in Doubts /\ k \in Doubts
      BY <1>0, <2>1 DEF Doubts
    <3>2. n \in Doubts
      BY <3>1, WorseType
    <3>3. QED
      BY <2>1, <3>2 DEF Box
  <2>4. b.at = disk["parcial"].at /\ b # NoBox
        /\ \A g \in Folders : b.doubt[g] = IF g = g0 THEN n ELSE disk["parcial"].doubt[g]
    BY <2>1, <2>b DEF Box
  <2>5. Near(b.at[g0], n)
    <3>1. b.at[g0] = Only(save[cur], Files \ todo)
      BY <2>1, <2>4 DEF OneSave, Packing
    <3>2. save[cur] \in Trees /\ doubt[cur] \in Doubts /\ Near(save[cur], doubt[cur])
      BY <1>0, <2>1 DEF OneSave
    <3>3. k = 0 => Only(save[cur], Files \ todo) = save[cur]
      <4>1. Only(save[cur], Files \ {}) = save[cur]
        BY <3>2, AllPacked
      <4>2. k = 0 => todo = {}
        OBVIOUS
      <4>3. QED
        BY <4>1, <4>2
    <3>4. Near(Only(save[cur], Files \ todo), n)
      BY <3>2, <3>3, NearCut
    <3>5. QED
      BY <3>1, <3>4
  <2>6. \A g \in Folders : Near(b.at[g], b.doubt[g])
    BY <2>1, <2>4, <2>5 DEF OneSave, Packing
  <2>7. \A g \in Folders \ seen : b.at[g] = Empty
    BY <2>1, <2>4 DEF OneSave, Packing
  <2> HIDE DEF b, n
  <2>8. Packing'
    BY <2>1, <2>3, <2>6, <2>7 DEF Packing, BoxOfTrees, Near, IsTree, OneWhole, PartOfOne
  <2>9. QED
    BY <2>1, <2>3, <2>8 DEF OneSave, BoxOfTrees, Near, IsTree, OneWhole, PartOfOne, Taking
<1>9. CASE Close
  <2> DEFINE b == [disk["parcial"] EXCEPT !.header = TRUE, !.index = TRUE]
  <2>1. b.at = disk["parcial"].at /\ b.doubt = disk["parcial"].doubt /\ disk["parcial"] # NoBox
    BY <1>9 DEF Close, TypeInv, AtWork, Box
  <2>2. disk' = [disk EXCEPT !["parcial"] = b] /\ temp = "parcial" /\ pc = "next"
        /\ pc' = "drop" /\ UNCHANGED <<temp, cloud, save, doubt>>
    BY <1>9 DEF Close, TypeInv, AtWork
  <2> HIDE DEF b
  <2>3. disk'[temp] = b /\ UNCHANGED <<disk["final"], disk["anterior"]>>
    BY <1>0, <2>2
  <2>4. QED
    BY <2>1, <2>2, <2>3 DEF OneSave, BoxOfTrees, Near, IsTree, OneWhole, PartOfOne, Packing, Taking
<1>10. CASE DropAnterior
  BY <1>0, <1>10
  DEF DropAnterior, Removed, OneSave, BoxOfTrees, Near, IsTree, OneWhole, PartOfOne, Packing, Taking
<1>11. CASE MoveAside
  BY <1>0, <1>11
  DEF MoveAside, CanMove, Moved, OneSave, BoxOfTrees, Near, IsTree, OneWhole, PartOfOne, Packing,
      Taking
<1>12. CASE Put
  BY <1>0, <1>12
  DEF Put, CanMove, Moved, OneSave, BoxOfTrees, Near, IsTree, OneWhole, PartOfOne, Packing, Taking
<1>13. CASE PutFails
  BY <1>0, <1>13, OneSaveKept DEF PutFails
<1>14. CASE Undo
  BY <1>0, <1>14
  DEF Undo, Moved, OneSave, BoxOfTrees, Near, IsTree, OneWhole, PartOfOne, Packing, Taking
<1>15. CASE Forget
  BY <1>0, <1>15, OneSaveKept DEF Forget, Removed, Ends, Over
<1>16. CASE Tidy
  BY <1>0, <1>16, OneSaveKept DEF Tidy, Removed, Over
<1>17. CASE Upload \/ UploadBreaks
  <2>1. disk["final"] # NoBox /\ disk["final"] \in Box4
    BY <1>0, <1>17 DEF Upload, UploadBreaks, IsBox
  <2>2. Cut(disk["final"]).at = disk["final"].at /\ Cut(disk["final"]).doubt = disk["final"].doubt
    BY <2>1 DEF Cut, Box4, Box
  <2>3. cloud' \in {cloud, disk["final"], Cut(disk["final"])}
    BY <1>17 DEF Upload, UploadBreaks
  <2>4. BoxOfTrees(cloud')
    BY <2>1, <2>2, <2>3 DEF OneSave, BoxOfTrees, Near, IsTree, OneWhole, PartOfOne
  <2>5. pc' = "idle" /\ UNCHANGED <<disk, save, doubt>>
    BY <1>17 DEF Upload, UploadBreaks, Ends, Over
  <2>6. QED
    BY <2>4, <2>5 DEF OneSave, BoxOfTrees, Near, IsTree, OneWhole, PartOfOne, Packing, Taking
<1>18. CASE Download
  BY <1>0, <1>18, OneSaveKept DEF Download
<1>19. CASE Fetched
  <2>1. /\ disk' = [disk EXCEPT !["baixando"] = cloud] /\ temp = "baixando" /\ pc' \in {"drop", "forget"}
        /\ UNCHANGED <<temp, save, cloud, doubt>>
    BY <1>19 DEF Fetched, TypeInv, AtWork
  <2>2. disk'[temp] = cloud /\ UNCHANGED <<disk["final"], disk["anterior"]>>
    BY <1>0, <2>1
  <2>3. QED
    BY <2>1, <2>2 DEF OneSave, BoxOfTrees, Near, IsTree, OneWhole, PartOfOne, Packing, Taking
<1>20. CASE FetchFails
  BY <1>0, <1>20, OneSaveKept DEF FetchFails
<1>21. ASSUME NEW g \in Folders, NEW s \in Saves, Restore(g, s) PROVE OneSave'
  <2>1. /\ pc' = "take" /\ from' = g /\ todo' = Entries(g)
        /\ UNCHANGED <<save, disk, cloud, doubt>>
    BY <1>21 DEF Restore
  <2>2. debris' \in {0, 2} /\ (debris' = 0 => staging'[g] = Only(staging[g], {}))
    <3>1. PICK stay \in SUBSET In(staging[g]) :
            /\ staging' = [staging EXCEPT ![g] = Only(staging[g], stay)]
            /\ debris' = (IF stay = {} THEN 0 ELSE 2)
      BY <1>21 DEF Restore
    <3>2. staging'[g] = Only(staging[g], stay)
      BY <3>1 DEF TypeInv, TypeOK
    <3>3. QED
      BY <3>1, <3>2 DEF Only
  <2>3. Entries(g)' = Entries(g)
    BY <2>1 DEF Entries, Readable
  <2>4. debris' = 0 => staging'[g] = Only(disk["final"].at[g], Entries(g) \ todo')
    BY <2>1, <2>2 DEF Only
  <2>5. Taking'
    BY <2>1, <2>2, <2>3, <2>4 DEF Taking
  <2>6. QED
    BY <2>1, <2>5 DEF OneSave, BoxOfTrees, Near, IsTree, OneWhole, PartOfOne, Packing
<1>22. ASSUME NEW f \in Files, Take(f) PROVE OneSave'
  <2>1. /\ pc = "take" /\ pc' = "take" /\ f \in todo /\ todo' = todo \ {f} /\ from \in Folders
        /\ f \in Entries(from) /\ todo \subseteq Entries(from) /\ debris \in {0, 2}
        /\ staging'[from] = [staging[from] EXCEPT ![f] = disk["final"].at[from][f]]
        /\ UNCHANGED <<save, disk, cloud, from, doubt, debris>>
    BY <1>22 DEF Take, TypeInv, TypeOK, AtWork, OneSave, Taking
  <2>2. Entries(from)' = Entries(from)
    BY <2>1 DEF Entries, Readable
  <2>3. debris = 0 => staging'[from] = Only(disk["final"].at[from], Entries(from) \ todo')
    <3>1. SUFFICES ASSUME debris = 0
                   PROVE  staging'[from] = Only(disk["final"].at[from], Entries(from) \ todo')
      OBVIOUS
    <3>2. staging[from] = Only(disk["final"].at[from], Entries(from) \ todo)
      BY <2>1, <3>1 DEF OneSave, Taking
    <3>3. QED
      BY <2>1, <3>2 DEF Only
  <2>4. Taking'
    BY <2>1, <2>2, <2>3 DEF Taking
  <2>5. QED
    BY <2>1, <2>4 DEF OneSave, BoxOfTrees, Near, IsTree, OneWhole, PartOfOne, Packing
<1>23. CASE TakeFails \/ NothingTaken \/ Crash
  BY <1>0, <1>23, OneSaveKept DEF TakeFails, NothingTaken, Crash, Ends, Over
<1>24. CASE Write
  <2>1. pc = "take" /\ pc' = "idle" /\ todo = {} /\ Entries(from) # {} /\ UNCHANGED <<disk, cloud>>
    BY <1>24 DEF Write, Ends, Over
  <2>2. \A s \in Saves : Near(save'[s], doubt'[s])
    <3>1. CASE UNCHANGED <<save, doubt>>
      BY <3>1 DEF OneSave
    <3>2. CASE ~UNCHANGED <<save, doubt>>
      <4>1. PICK got \in SUBSET In(staging[from]) :
              LET k == IF got = In(staging[from]) THEN 0 ELSE 1
              IN  /\ save' = [save EXCEPT ![cur] = Only(staging[from], got)]
                  /\ doubt' = [doubt EXCEPT ![cur] =
                                 Worse(debris, Worse(disk["final"].doubt[from], k))]
        BY <1>24, <3>2 DEF Write
      <4>2. Near(Only(staging[from], got),
                 Worse(debris, Worse(disk["final"].doubt[from],
                                     IF got = In(staging[from]) THEN 0 ELSE 1)))
        BY <2>1, WrittenNear
      <4>3. QED
        BY <1>0, <4>1, <4>2 DEF OneSave
    <3>3. QED
      BY <3>1, <3>2
  <2>3. QED
    BY <2>1, <2>2 DEF OneSave, BoxOfTrees, Near, IsTree, OneWhole, PartOfOne, Packing, Taking
<1>25. QED
  BY <1>1, <1>2, <1>3, <1>4, <1>5, <1>6, <1>7, <1>8, <1>9, <1>10, <1>11, <1>12, <1>13, <1>14,
     <1>15, <1>16, <1>17, <1>18, <1>19, <1>20, <1>21, <1>22, <1>23, <1>24 DEF Next

\* A job writes to the savedata the user picked, and what it writes is what the
\* archive holds under the picked folder and one whole save of one game and
\* account; where a listing broke off on the way, it is a part of one save; and it
\* is no more than a mixture where emptying the staging folder broke off.
THEOREM RestoreWritesOneSave == Spec => RestoresOneSave
<1>1. TypeInv /\ OneSave /\ [Next]_vars =>
        [\A s \in Saves : pc # "idle" /\ save'[s] # save[s] =>
           /\ s = cur
           /\ doubt'[s] = 0 => save'[s] = disk["final"].at[from] /\ OneWhole(save'[s])
           /\ doubt'[s] = 1 => PartOfOne(save'[s])]_vars
  <2> SUFFICES ASSUME TypeInv, OneSave, [Next]_vars, NEW s \in Saves,
                      pc # "idle", save'[s] # save[s]
               PROVE  /\ s = cur
                      /\ doubt'[s] = 0 => save'[s] = disk["final"].at[from] /\ OneWhole(save'[s])
                      /\ doubt'[s] = 1 => PartOfOne(save'[s])
    OBVIOUS
  <2>1. Write
    BY DEF Next, vars, local, Play, PassOver, Mounted, Pack, StopAsked, AddFails, Added, NothingWentIn,
           Close, CloseFails, Abort, AddFile, Take, DropAnterior, MoveAside, Put, PutFails, Undo,
           Forget, Tidy, Upload, UploadBreaks, Download, Fetched, FetchFails, Restore, TakeFails,
           NothingTaken, Crash, Begins
  <2>2. pc = "take" /\ todo = {} /\ Entries(from) # {} /\ ~UNCHANGED <<save, doubt>>
    BY <2>1 DEF Write
  <2>3. PICK got \in SUBSET In(staging[from]) :
          LET k == IF got = In(staging[from]) THEN 0 ELSE 1
          IN  /\ save' = [save EXCEPT ![cur] = Only(staging[from], got)]
              /\ doubt' = [doubt EXCEPT ![cur] =
                             Worse(debris, Worse(disk["final"].doubt[from], k))]
    BY <2>1, <2>2 DEF Write
  <2> DEFINE k == IF got = In(staging[from]) THEN 0 ELSE 1
             m == Worse(debris, Worse(disk["final"].doubt[from], k))
  <2>4. s = cur /\ save'[s] = Only(staging[from], got) /\ doubt'[s] = m
    BY <2>3 DEF TypeInv, TypeOK
  <2>5. /\ m = 0 => /\ Only(staging[from], got) = disk["final"].at[from]
                    /\ OneWhole(Only(staging[from], got))
        /\ m = 1 => PartOfOne(Only(staging[from], got))
    BY <2>2, WrittenNear
  <2>6. QED
    BY <2>4, <2>5
<1>2. TypeInv /\ OneSave /\ [Next]_vars => OneSave'
  BY OneSaveNext
<1>3. QED
  BY TypeInvariant, OneSaveInit, <1>1, <1>2, PTL DEF Spec, RestoresOneSave
=============================================================================
