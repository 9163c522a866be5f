-------------------------- MODULE LocalBackupProofs --------------------------
(***************************************************************************)
(* Proofs about the copy on the card while one program works with it, for  *)
(* any files, any number of saves, failures and crashes.  With the app and *)
(* the background module together none of these properties holds.          *)
(***************************************************************************)
EXTENDS LocalBackup, TLAPS

USE BackupAssumption, NoDirAssumption

\* One program, if any, runs this code.
Alone == \A p, q \in Programs : p = q

-----------------------------------------------------------------------------
(* Trees.                                                                  *)

\* What may have the name of the copy: nothing, or a save, or an emptied one.
Clean(t) == t = NoDir \/ t = Empty \/ Whole(t)

LEMMA EmptyIsTree == Empty \in Trees /\ Empty # NoDir
  BY DEF Empty, Trees, Torn

LEMMA SaveIsTree ==
    ASSUME NEW v \in 1..MaxVer
    PROVE  Tree(v) \in Trees /\ Tree(v) # Empty /\ Whole(Tree(v))
<1>1. FilesOf[v] \in (SUBSET Files) \ {{}}
  OBVIOUS
<1>2. PICK f \in FilesOf[v] : f \in Files
  BY <1>1
<1>3. Tree(v)[f] = v /\ Empty[f] = 0 /\ v # 0
  BY <1>2 DEF Tree, Empty
<1>4. QED
  BY <1>3 DEF Tree, Trees, Torn, Whole

\* A folder with no entries is empty.
LEMMA NoEntries ==
    ASSUME NEW t \in Trees \cup {NoDir}, In(t) = {}
    PROVE  Removed(t) = NoDir
<1>1. CASE t = NoDir
  BY <1>1, EmptyIsTree DEF Removed
<1>2. CASE t # NoDir
  <2>1. \A f \in Files : t[f] = 0
    BY <1>2 DEF In
  <2>2. t = Empty
    BY <1>2, <2>1 DEF Trees, Empty
  <2>3. QED
    BY <2>2 DEF Removed
<1>3. QED
  BY <1>1, <1>2

LEMMA EntriesOf == ASSUME NEW t PROVE In(t) \subseteq Files
  BY DEF In

-----------------------------------------------------------------------------
(* The invariant.  That the copy on the card is a whole one, unless a      *)
(* listing broke off, depends on .novo being emptied first, on all_ok and  *)
(* on nobody else writing to it.                                           *)

\* Where program p is in a backup, and what it can rely on there.
BackingUp(p) ==
    /\ pc[p] = "clear" => In(novo) \subseteq todo[p]
    /\ pc[p] = "drop" => "novo" \in cut \/ novo = NoDir
    /\ pc[p] = "mount" => novo # NoDir /\ ("novo" \in cut \/ novo = Empty)
    /\ pc[p] = "copy" =>
          /\ holder = p /\ novo # NoDir /\ todo[p] \subseteq In(save)
          /\ "novo" \in cut \/ \A f \in todo[p] : novo[f] = 0
          /\ good[p] => "novo" \in cut \/ \A f \in Files \ todo[p] : novo[f] = save[f]
    /\ pc[p] \in {"out", "in"} =>
          /\ novo # NoDir /\ ("novo" \in cut \/ Clean(novo))
          /\ job[p] = "wipe" => "novo" \in cut \/ novo = save
    /\ pc[p] = "in" /\ had[p] => "velho" \in cut \/ Clean(velho)
    /\ pc[p] = "undo" => "velho" \in cut \/ Clean(velho)
    /\ pc[p] \in {"retire", "wipe"} /\ job[p] = "wipe" => "dir" \in cut \/ dir = save
    /\ pc[p] = "wipe" => job[p] = "wipe"
    /\ job[p] = "wipe" => p = "app"

\* The same for a restore.
Restoring(p) ==
    /\ pc[p] \in {"open", "write"} => dir # NoDir /\ dir # Empty
    /\ pc[p] = "write" =>
          /\ holder = p
          /\ todo[p] \subseteq In(dir)
          /\ good[p] => work = [f \in Files |-> IF f \in todo[p] THEN 0 ELSE dir[f]]

CardInv ==
    /\ TypeOK
    /\ SaveWhole /\ CopyWhole
    /\ \A p \in Programs : BackingUp(p) /\ Restoring(p)

LEMMA InitCardInv == Init => CardInv
<1> SUFFICES ASSUME Init PROVE CardInv
  OBVIOUS
<1>1. Tree(1) \in Trees /\ Whole(Tree(1)) /\ Empty \in Trees
  BY SaveIsTree, EmptyIsTree
<1>2. TypeOK
  BY <1>1 DEF Init, TypeOK, Trees, Labels
<1>3. SaveWhole /\ CopyWhole
  BY <1>1 DEF Init, SaveWhole, CopyWhole
<1>4. \A p \in Programs : BackingUp(p) /\ Restoring(p)
  BY DEF Init, BackingUp, Restoring
<1>5. QED
  BY <1>2, <1>3, <1>4 DEF CardInv

\* The step of p concerns nobody else.
LEMMA StepOfOne ==
    ASSUME Alone, NEW p \in Programs, TypeOK', SaveWhole', CopyWhole',
           BackingUp(p)', Restoring(p)'
    PROVE  CardInv'
  BY Zenon DEF Alone, CardInv

LEMMA MishapType == TypeOK /\ (Mishap \/ NoMishap) => mishaps' \in 0..MaxMishaps
  BY DEF TypeOK, Mishap, NoMishap

LEMMA LocalType ==
    ASSUME NEW p \in Programs, TypeOK
    PROVE  /\ \A l \in Labels : [pc EXCEPT ![p] = l] \in [Programs -> Labels]
           /\ \A l : [pc EXCEPT ![p] = l][p] = l
           /\ \A T \in SUBSET Files : [todo EXCEPT ![p] = T] \in [Programs -> SUBSET Files]
           /\ \A T : [todo EXCEPT ![p] = T][p] = T
           /\ \A b \in BOOLEAN : /\ [good EXCEPT ![p] = b] \in [Programs -> BOOLEAN]
                                 /\ [had EXCEPT ![p] = b] \in [Programs -> BOOLEAN]
           /\ \A b : [good EXCEPT ![p] = b][p] = b /\ [had EXCEPT ![p] = b][p] = b
  BY DEF TypeOK

Places == {"save", "dir", "novo", "velho"}

LEMMA NotesType ==
    ASSUME TypeOK, NEW x \in Places, NEW is \in BOOLEAN, Notes(x, is)
    PROVE  /\ cut' \subseteq Places /\ (x \in cut' <=> is)
           /\ \A y \in Places \ {x} : y \in cut' <=> y \in cut
  BY DEF TypeOK, Notes, Places

LEMMA RenamedType ==
    ASSUME TypeOK, NEW x \in Places, NEW y \in Places, x # y, Renamed(x, y)
    PROVE  /\ cut' \subseteq Places /\ x \notin cut' /\ (y \in cut' <=> x \in cut)
           /\ \A z \in Places \ {x, y} : z \in cut' <=> z \in cut
  BY DEF TypeOK, Renamed, Places

\* Most steps touch neither the savedata nor the copy.
LEMMA QuietStep ==
    ASSUME Alone, CardInv, NEW p \in Programs, TypeOK', save' = save, dir' = dir,
           "save" \in cut => "save" \in cut', "dir" \in cut => "dir" \in cut',
           BackingUp(p)', Restoring(p)'
    PROVE  CardInv'
<1>1. SaveWhole' /\ CopyWhole'
  BY DEF CardInv, SaveWhole, CopyWhole, Whole
<1>2. QED
  BY <1>1, StepOfOne

LEMMA ListedType == ASSUME TypeOK, NEW p, Listed(p) PROVE mishaps' \in 0..MaxMishaps
  BY MishapType DEF Listed

-----------------------------------------------------------------------------
(* Backing up, one step at a time.                                         *)

LEMMA BeginCardInv ==
    ASSUME Alone, CardInv, NEW p \in Programs, NEW j \in {"backup", "wipe"}, Begin(p, j)
    PROVE  CardInv'
<1>1. /\ pc' = [pc EXCEPT ![p] = "clear"] /\ todo' = [todo EXCEPT ![p] = In(novo)]
      /\ job' = [job EXCEPT ![p] = j] /\ (j = "wipe" => p = "app")
      /\ UNCHANGED <<device, card, good, had, mishaps, cut>>
  BY DEF Begin, Loop, GoTo
<1>2. TypeOK'
  BY <1>1, EntriesOf DEF CardInv, TypeOK, Labels, device, card
<1>3. pc'[p] = "clear" /\ todo'[p] = In(novo) /\ job'[p] = j
  BY <1>1 DEF CardInv, TypeOK
<1>4. BackingUp(p)' /\ Restoring(p)'
  BY <1>1, <1>3 DEF BackingUp, Restoring, card, In
<1>5. QED
  BY <1>1, <1>2, <1>4, QuietStep DEF device, card

LEMMA ClearNovoCardInv ==
    ASSUME Alone, CardInv, NEW p \in Programs, NEW l \in {"clear", "discard"}, ClearNovo(p, l)
    PROVE  CardInv'
<1>1. PICK f \in todo[p] :
        /\ pc[p] = l /\ Taken(p, f)
        /\ novo' = IF novo = NoDir THEN NoDir ELSE [novo EXCEPT ![f] = 0]
        /\ UNCHANGED <<device, dir, velho, job, pc, good, had, mishaps, cut>>
  BY DEF ClearNovo
<1>2. todo'[p] = todo[p] \ {f} /\ f \in Files /\ todo' \in [Programs -> SUBSET Files]
  BY <1>1 DEF Taken, CardInv, TypeOK
<1>3. novo' \in Trees \cup {NoDir}
  BY <1>1, <1>2 DEF CardInv, TypeOK, Trees, Torn
<1>4. TypeOK'
  BY <1>1, <1>2, <1>3 DEF CardInv, TypeOK, device
<1>5. In(novo)' \subseteq In(novo) \ {f}
  BY <1>1, <1>2 DEF CardInv, TypeOK, In, Trees
<1>6. BackingUp(p)' /\ Restoring(p)'
  BY <1>1, <1>2, <1>5 DEF CardInv, BackingUp, Restoring, device
<1>7. QED
  BY <1>1, <1>4, <1>6, QuietStep DEF device

LEMMA ClearVelhoCardInv ==
    ASSUME Alone, CardInv, NEW p \in Programs, NEW l \in {"drop", "retire"}, ClearVelho(p, l)
    PROVE  CardInv'
<1>1. PICK f \in todo[p] :
        /\ pc[p] = l /\ Taken(p, f)
        /\ velho' = IF velho = NoDir THEN NoDir ELSE [velho EXCEPT ![f] = 0]
        /\ UNCHANGED <<device, dir, novo, job, pc, good, had, mishaps, cut>>
  BY DEF ClearVelho
<1>2. todo'[p] = todo[p] \ {f} /\ f \in Files /\ todo' \in [Programs -> SUBSET Files]
  BY <1>1 DEF Taken, CardInv, TypeOK
<1>3. velho' \in Trees \cup {NoDir}
  BY <1>1, <1>2 DEF CardInv, TypeOK, Trees, Torn
<1>4. TypeOK'
  BY <1>1, <1>2, <1>3 DEF CardInv, TypeOK, device, Trees
<1>5. In(velho)' \subseteq In(velho) \ {f}
  BY <1>1, <1>2 DEF CardInv, TypeOK, In, Trees
<1>6. BackingUp(p)' /\ Restoring(p)'
  BY <1>1, <1>2, <1>5 DEF CardInv, BackingUp, Restoring, device
<1>7. QED
  BY <1>1, <1>4, <1>6, QuietStep DEF device

LEMMA ClearedCardInv ==
    ASSUME Alone, CardInv, NEW p \in Programs, Cleared(p) PROVE CardInv'
<1>1. /\ pc[p] = "clear" /\ novo' = Removed(novo) /\ Notes("novo", CutShort(p))
      /\ pc' = [pc EXCEPT ![p] = "drop"] /\ todo' = [todo EXCEPT ![p] = In(velho)]
      /\ UNCHANGED <<device, dir, velho, job, good, had>>
  BY DEF Cleared, Loop, GoTo
<1>2. /\ cut' \subseteq Places /\ ("novo" \in cut' <=> todo[p] # {})
      /\ "save" \in cut' <=> "save" \in cut
      /\ "dir" \in cut' <=> "dir" \in cut
  BY <1>1, NotesType DEF CardInv, CutShort, Places
<1>3. novo' \in Trees \cup {NoDir} /\ mishaps' \in 0..MaxMishaps
  BY <1>1, ListedType DEF CardInv, TypeOK, Removed, Cleared
<1>4. TypeOK'
  BY <1>1, <1>2, <1>3, EntriesOf DEF CardInv, TypeOK, Labels, device, Places
<1>5. pc'[p] = "drop" /\ todo'[p] = In(velho)
  BY <1>1 DEF CardInv, TypeOK
<1>6. "novo" \notin cut' => novo' = NoDir
  BY <1>1, <1>2, NoEntries DEF CardInv, TypeOK, BackingUp
<1>7. BackingUp(p)' /\ Restoring(p)'
  BY <1>1, <1>5, <1>6 DEF CardInv, BackingUp, Restoring
<1>8. QED
  BY <1>1, <1>2, <1>4, <1>7, QuietStep DEF device

LEMMA DroppedCardInv ==
    ASSUME Alone, CardInv, NEW p \in Programs, Dropped(p) PROVE CardInv'
<1>1. /\ pc[p] = "drop" /\ velho' = Removed(velho)
      /\ novo' = IF novo = NoDir THEN Empty ELSE novo
      /\ pc' = [pc EXCEPT ![p] = "mount"] /\ todo' = [todo EXCEPT ![p] = In(NoDir)]
      /\ UNCHANGED <<device, dir, job, good, had, cut>>
  BY DEF Dropped, Loop, GoTo
<1>2. velho' \in Trees \cup {NoDir} /\ mishaps' \in 0..MaxMishaps
  BY <1>1, ListedType DEF CardInv, TypeOK, Removed, Dropped
<1>3. novo' \in Trees /\ novo' # NoDir /\ ("novo" \in cut \/ novo' = Empty)
  BY <1>1, EmptyIsTree DEF CardInv, BackingUp, TypeOK
<1>4. TypeOK'
  BY <1>1, <1>2, <1>3, EntriesOf DEF CardInv, TypeOK, Labels, device
<1>5. pc'[p] = "mount"
  BY <1>1 DEF CardInv, TypeOK
<1>6. BackingUp(p)' /\ Restoring(p)'
  BY <1>1, <1>3, <1>5 DEF CardInv, BackingUp, Restoring
<1>7. QED
  BY <1>1, <1>4, <1>6, QuietStep DEF device

\* A program that is done relies on nothing.
LEMMA IdleCardInv ==
    ASSUME Alone, CardInv, NEW p \in Programs, pc' = [pc EXCEPT ![p] = "idle"],
           SaveWhole', CopyWhole', UNCHANGED <<job, played, good, had, dir>>,
           todo' \in [Programs -> SUBSET Files],
           {save', work'} \subseteq Trees, velho' \in Trees \cup {NoDir},
           novo' \in Trees \cup {NoDir}, holder' \in Programs \cup {"none"},
           mishaps' \in 0..MaxMishaps, cut' \subseteq Places
    PROVE  CardInv'
<1>1. pc'[p] = "idle" /\ pc' \in [Programs -> Labels]
  BY DEF CardInv, TypeOK, Labels
<1>2. TypeOK'
  BY <1>1 DEF CardInv, TypeOK, Places
<1>3. BackingUp(p)' /\ Restoring(p)'
  BY <1>1 DEF CardInv, BackingUp, Restoring
<1>4. QED
  BY <1>2, <1>3, StepOfOne

LEMMA RemovedNovo ==
    ASSUME TypeOK PROVE Removed(novo) \in Trees \cup {NoDir}
  BY DEF TypeOK, Removed

LEMMA MountFailsCardInv ==
    ASSUME Alone, CardInv, NEW p \in Programs, MountFails(p) PROVE CardInv'
<1>1. /\ pc' = [pc EXCEPT ![p] = "idle"] /\ novo' = Removed(novo)
      /\ UNCHANGED <<save, played, holder, work, dir, velho, job, todo, good, had, mishaps, cut>>
  BY DEF MountFails, GoTo, device
<1>2. SaveWhole' /\ CopyWhole'
  BY <1>1 DEF CardInv, SaveWhole, CopyWhole, Whole
<1>3. QED
  BY <1>1, <1>2, RemovedNovo, IdleCardInv DEF CardInv, TypeOK, Places

LEMMA MountCardInv ==
    ASSUME Alone, CardInv, NEW p \in Programs, Mount(p) PROVE CardInv'
<1>1. /\ pc[p] = "mount" /\ holder' = p
      /\ pc' = [pc EXCEPT ![p] = "copy"] /\ todo' = [todo EXCEPT ![p] = In(save)]
      /\ good' = [good EXCEPT ![p] = TRUE]
      /\ novo' = IF novo = NoDir THEN Empty ELSE novo
      /\ UNCHANGED <<save, played, work, dir, velho, job, had, mishaps, cut>>
  BY DEF Mount, Loop, GoTo
<1>2. novo' = novo /\ novo \in Trees /\ novo # NoDir /\ ("novo" \in cut \/ novo = Empty)
  BY <1>1 DEF CardInv, BackingUp, TypeOK
<1>3. TypeOK'
  BY <1>1, <1>2, EntriesOf DEF CardInv, TypeOK, Labels
<1>4. pc'[p] = "copy" /\ todo'[p] = In(save)
  BY <1>1 DEF CardInv, TypeOK
<1>5. (\A f \in In(save) : Empty[f] = 0) /\ (\A f \in Files \ In(save) : Empty[f] = save[f])
  <2>1. save # NoDir
    BY DEF CardInv, TypeOK
  <2>2. QED
    BY <2>1 DEF Empty, In
<1>6. In(save) \subseteq Files
  BY EntriesOf
<1>7. BackingUp(p)'
  BY <1>1, <1>2, <1>4, <1>5, <1>6 DEF CardInv, BackingUp, In
<1>8. Restoring(p)'
  BY <1>4 DEF Restoring
<1>9. QED
  BY <1>1, <1>3, <1>7, <1>8, QuietStep

LEMMA CopyFileCardInv ==
    ASSUME Alone, CardInv, NEW p \in Programs, CopyFile(p) PROVE CardInv'
<1>1. PICK f \in todo[p] :
        /\ pc[p] = "copy" /\ Taken(p, f)
        /\ \/ /\ novo' = IF novo = NoDir THEN NoDir ELSE [novo EXCEPT ![f] = save[f]]
              /\ good' = [good EXCEPT ![p] = @ /\ novo # NoDir] /\ NoMishap
           \/ /\ novo # NoDir
              /\ novo' = [novo EXCEPT ![f] = Torn]
              /\ good' = [good EXCEPT ![p] = FALSE] /\ Mishap
        /\ UNCHANGED <<device, dir, velho, job, pc, had, cut>>
  BY DEF CopyFile
<1>2. todo'[p] = todo[p] \ {f} /\ f \in Files /\ todo' \in [Programs -> SUBSET Files]
  BY <1>1 DEF Taken, CardInv, TypeOK
<1>3. novo # NoDir /\ novo \in Trees /\ save[f] \in Torn..MaxVer
  BY <1>1, <1>2 DEF CardInv, TypeOK, BackingUp, Trees
<1>4. novo' \in Trees /\ (\A g \in Files \ {f} : novo'[g] = novo[g])
  <2>1. PICK x \in Torn..MaxVer : novo' = [novo EXCEPT ![f] = x]
    BY <1>1, <1>3 DEF Torn
  <2>2. QED
    BY <1>2, <1>3, <2>1 DEF Trees
<1>5. good' \in [Programs -> BOOLEAN] /\ (good'[p] => good[p] /\ novo'[f] = save[f])
  <2>1. good \in [Programs -> BOOLEAN]
    BY DEF CardInv, TypeOK
  <2>2. CASE /\ novo' = [novo EXCEPT ![f] = save[f]]
             /\ good' = [good EXCEPT ![p] = @ /\ novo # NoDir]
    BY <1>2, <1>3, <2>1, <2>2 DEF Trees
  <2>3. CASE good' = [good EXCEPT ![p] = FALSE]
    BY <2>1, <2>3
  <2>4. QED
    BY <1>1, <1>3, <2>2, <2>3
<1>6. TypeOK'
  <2>1. mishaps' \in 0..MaxMishaps
    BY <1>1, MishapType DEF CardInv
  <2>2. QED
    BY <1>1, <1>2, <1>4, <1>5, <2>1 DEF CardInv, TypeOK, device
<1>7. NoDir \notin Trees
  OBVIOUS
<1>8. BackingUp(p)'
  BY <1>1, <1>2, <1>4, <1>5, <1>7 DEF CardInv, BackingUp, In, device
<1>9. Restoring(p)'
  BY <1>1 DEF CardInv, Restoring
<1>10. QED
  BY <1>1, <1>6, <1>8, <1>9, QuietStep DEF device

\* A copy for which every file succeeded is the save, unless a listing broke off.
LEMMA CopyDoneCardInv ==
    ASSUME Alone, CardInv, NEW p \in Programs, CopyDone(p) PROVE CardInv'
<1>1. /\ pc[p] = "copy" /\ holder' = "none"
      /\ \/ good[p] /\ pc' = [pc EXCEPT ![p] = "out"] /\ todo' = [todo EXCEPT ![p] = In(NoDir)]
         \/ pc' = [pc EXCEPT ![p] = "discard"] /\ todo' = [todo EXCEPT ![p] = In(novo)]
      /\ Notes("novo", CutShort(p) \/ {"novo", "save"} \cap cut # {})
      /\ UNCHANGED <<save, played, work, dir, novo, velho, job, good, had>>
  BY DEF CopyDone, Loop, GoTo, card
<1>2. /\ cut' \subseteq Places
      /\ "novo" \in cut' <=> todo[p] # {} \/ "novo" \in cut \/ "save" \in cut
      /\ "save" \in cut' <=> "save" \in cut
      /\ "dir" \in cut' <=> "dir" \in cut
  <2>1. cut \subseteq Places
    BY DEF CardInv, TypeOK, Places
  <2>2. (CutShort(p) \/ {"novo", "save"} \cap cut # {}) <=> todo[p] # {} \/ "novo" \in cut \/ "save" \in cut
    BY DEF CutShort
  <2>3. QED
    BY <1>1, <2>1, <2>2 DEF Notes, Places
<1>3. TypeOK'
  <2>1. pc \in [Programs -> Labels] /\ todo \in [Programs -> SUBSET Files]
        /\ In(novo) \subseteq Files /\ In(NoDir) \subseteq Files
    BY EntriesOf DEF CardInv, TypeOK
  <2>2. pc' \in [Programs -> Labels] /\ todo' \in [Programs -> SUBSET Files]
    BY <1>1, <2>1 DEF Labels
  <2>3. mishaps' \in 0..MaxMishaps
    BY ListedType DEF CardInv, CopyDone
  <2>4. QED
    BY <1>1, <1>2, <2>2, <2>3 DEF CardInv, TypeOK, Places
<1>4. pc'[p] = "discard" \/ (pc'[p] = "out" /\ good[p])
  BY <1>1 DEF CardInv, TypeOK
<1>5. good[p] => "novo" \in cut' \/ novo = save
  <2>1. SUFFICES ASSUME good[p], "novo" \notin cut' PROVE novo = save
    OBVIOUS
  <2>2. novo \in Trees /\ save \in Trees
    BY <1>1 DEF CardInv, TypeOK, BackingUp
  <2>3. \A f \in Files : novo[f] = save[f]
    BY <1>1, <1>2, <2>1 DEF CardInv, BackingUp
  <2>4. QED
    BY <2>2, <2>3 DEF Trees
<1>6. "novo" \in cut' \/ Clean(save)
  BY <1>2 DEF CardInv, SaveWhole, Clean
<1>7. novo # NoDir
  BY <1>1 DEF CardInv, BackingUp
<1>8. BackingUp(p)'
  BY <1>1, <1>4, <1>5, <1>6, <1>7 DEF CardInv, BackingUp, Clean, Whole
<1>9. Restoring(p)'
  BY <1>4 DEF Restoring
<1>10. QED
  BY <1>1, <1>2, <1>3, <1>8, <1>9, QuietStep

LEMMA SwapOutCardInv ==
    ASSUME Alone, CardInv, NEW p \in Programs, SwapOut(p) PROVE CardInv'
<1>1. /\ pc[p] = "out" /\ pc' = [pc EXCEPT ![p] = "in"]
      /\ \/ /\ velho' = dir /\ dir' = NoDir /\ Renamed("dir", "velho")
            /\ had' = [had EXCEPT ![p] = TRUE]
         \/ UNCHANGED <<dir, velho, cut>> /\ had' = [had EXCEPT ![p] = FALSE]
      /\ Mishap \/ NoMishap
      /\ UNCHANGED <<device, novo, job, todo, good>>
  BY DEF SwapOut, GoTo
<1>2. /\ novo # NoDir /\ ("novo" \in cut \/ Clean(novo))
      /\ job[p] = "wipe" => "novo" \in cut \/ novo = save
  BY <1>1 DEF CardInv, BackingUp
<1>3. /\ cut' \subseteq Places
      /\ "novo" \in cut' <=> "novo" \in cut
      /\ "save" \in cut' <=> "save" \in cut
  BY <1>1, RenamedType DEF CardInv, TypeOK, Places
<1>4. pc'[p] = "in" /\ had' \in [Programs -> BOOLEAN]
  BY <1>1 DEF CardInv, TypeOK
<1>5. CopyWhole' /\ (had'[p] => "velho" \in cut' \/ Clean(velho'))
  <2>1. CASE velho' = dir /\ dir' = NoDir /\ Renamed("dir", "velho")
    <3>1. "velho" \in cut' <=> "dir" \in cut
      BY <2>1, RenamedType DEF CardInv, Places
    <3>2. QED
      BY <2>1, <3>1 DEF CardInv, CopyWhole, Clean, Whole
  <2>2. CASE UNCHANGED <<dir, velho, cut>> /\ had' = [had EXCEPT ![p] = FALSE]
    BY <2>2 DEF CardInv, CopyWhole, TypeOK, Whole
  <2>3. QED
    BY <1>1, <2>1, <2>2
<1>6. TypeOK'
  <2>1. dir' \in Trees \cup {NoDir} /\ velho' \in Trees \cup {NoDir}
    BY <1>1 DEF CardInv, TypeOK
  <2>2. mishaps' \in 0..MaxMishaps
    BY <1>1, MishapType DEF CardInv
  <2>3. QED
    BY <1>1, <1>3, <1>4, <2>1, <2>2 DEF CardInv, TypeOK, Labels, device, Places
<1>7. BackingUp(p)' /\ Restoring(p)'
  BY <1>1, <1>2, <1>3, <1>4, <1>5 DEF CardInv, BackingUp, Restoring, Clean, Whole, device
<1>8. SaveWhole'
  BY <1>1, <1>3 DEF CardInv, SaveWhole, Whole, device
<1>9. QED
  BY <1>5, <1>6, <1>7, <1>8, StepOfOne

LEMMA SwapInCardInv ==
    ASSUME Alone, CardInv, NEW p \in Programs, SwapIn(p) PROVE CardInv'
<1>1. /\ pc[p] = "in" /\ (Mishap \/ NoMishap)
      /\ UNCHANGED <<device, velho, job, good, had>>
      /\ todo' \in [Programs -> SUBSET Files]
      /\ \/ /\ dir' = novo /\ novo' = NoDir /\ Renamed("novo", "dir")
            /\ pc' = [pc EXCEPT ![p] = "retire"]
         \/ UNCHANGED <<dir, novo, cut>> /\ had[p] /\ pc' = [pc EXCEPT ![p] = "undo"]
         \/ UNCHANGED <<dir, novo, cut>> /\ pc' = [pc EXCEPT ![p] = "discard"]
  <2>1. \A t : [todo EXCEPT ![p] = In(t)] \in [Programs -> SUBSET Files]
    BY EntriesOf DEF CardInv, TypeOK
  <2>2. todo \in [Programs -> SUBSET Files]
    BY DEF CardInv, TypeOK
  <2>3. QED
    BY <2>1, <2>2 DEF SwapIn, Loop, GoTo
<1>2. /\ novo # NoDir /\ ("novo" \in cut \/ Clean(novo))
      /\ job[p] = "wipe" => "novo" \in cut \/ novo = save
      /\ had[p] => "velho" \in cut \/ Clean(velho)
  BY <1>1 DEF CardInv, BackingUp
<1>3. /\ pc' \in [Programs -> Labels]
      /\ pc'[p] \in {"retire", "undo", "discard"} /\ (pc'[p] = "undo" => had[p])
  BY <1>1 DEF CardInv, TypeOK, Labels
<1>4. /\ cut' \subseteq Places
      /\ "velho" \in cut' <=> "velho" \in cut
      /\ "save" \in cut' <=> "save" \in cut
  BY <1>1, RenamedType DEF CardInv, TypeOK, Places
<1>5. CopyWhole' /\ (pc'[p] = "retire" /\ job[p] = "wipe" => "dir" \in cut' \/ dir' = save)
  <2>1. CASE dir' = novo /\ novo' = NoDir /\ Renamed("novo", "dir")
    <3>1. "dir" \in cut' <=> "novo" \in cut
      BY <2>1, RenamedType DEF CardInv, Places
    <3>2. QED
      BY <1>2, <2>1, <3>1 DEF CopyWhole, Clean, Whole
  <2>2. CASE UNCHANGED <<dir, novo, cut>> /\ pc'[p] # "retire"
    BY <2>2 DEF CardInv, CopyWhole, Whole
  <2>3. QED
    BY <1>1, <2>1, <2>2 DEF CardInv, TypeOK
<1>6. TypeOK'
  <2>1. dir' \in Trees \cup {NoDir} /\ novo' \in Trees \cup {NoDir}
    BY <1>1 DEF CardInv, TypeOK
  <2>2. mishaps' \in 0..MaxMishaps
    BY <1>1, MishapType DEF CardInv
  <2>3. QED
    BY <1>1, <1>3, <1>4, <2>1, <2>2 DEF CardInv, TypeOK, device, Places
<1>7. BackingUp(p)' /\ Restoring(p)'
  BY <1>1, <1>2, <1>3, <1>4, <1>5 DEF CardInv, BackingUp, Restoring, Clean, Whole, device
<1>8. SaveWhole'
  BY <1>1, <1>4 DEF CardInv, SaveWhole, Whole, device
<1>9. QED
  BY <1>5, <1>6, <1>7, <1>8, StepOfOne

LEMMA SwapBackCardInv ==
    ASSUME Alone, CardInv, NEW p \in Programs, SwapBack(p) PROVE CardInv'
<1>1. /\ pc[p] = "undo" /\ pc' = [pc EXCEPT ![p] = "discard"]
      /\ todo' = [todo EXCEPT ![p] = In(novo)]
      /\ \/ dir' = velho /\ velho' = NoDir /\ Renamed("velho", "dir")
         \/ UNCHANGED <<dir, velho, cut>>
      /\ Mishap \/ NoMishap
      /\ UNCHANGED <<device, novo, job, good, had>>
  BY DEF SwapBack, Loop, GoTo
<1>2. cut' \subseteq Places /\ ("save" \in cut' <=> "save" \in cut)
  BY <1>1, RenamedType DEF CardInv, TypeOK, Places
<1>3. CopyWhole'
  <2>1. CASE dir' = velho /\ velho' = NoDir /\ Renamed("velho", "dir")
    <3>1. "dir" \in cut' <=> "velho" \in cut
      BY <2>1, RenamedType DEF CardInv, Places
    <3>2. QED
      BY <1>1, <2>1, <3>1 DEF CardInv, BackingUp, CopyWhole, Clean, Whole
  <2>2. CASE UNCHANGED <<dir, velho, cut>>
    BY <2>2 DEF CardInv, CopyWhole, Whole
  <2>3. QED
    BY <1>1, <2>1, <2>2
<1>4. TypeOK'
  <2>1. dir' \in Trees \cup {NoDir} /\ velho' \in Trees \cup {NoDir}
    BY <1>1 DEF CardInv, TypeOK
  <2>2. mishaps' \in 0..MaxMishaps
    BY <1>1, MishapType DEF CardInv
  <2>3. QED
    BY <1>1, <1>2, <2>1, <2>2, EntriesOf DEF CardInv, TypeOK, Labels, device, Places
<1>5. pc'[p] = "discard"
  BY <1>1 DEF CardInv, TypeOK
<1>6. BackingUp(p)' /\ Restoring(p)'
  BY <1>1, <1>5 DEF CardInv, BackingUp, Restoring
<1>7. SaveWhole'
  BY <1>1, <1>2 DEF CardInv, SaveWhole, Whole, device
<1>8. QED
  BY <1>3, <1>4, <1>6, <1>7, StepOfOne

LEMMA DiscardedCardInv ==
    ASSUME Alone, CardInv, NEW p \in Programs, Discarded(p) PROVE CardInv'
<1>1. /\ pc' = [pc EXCEPT ![p] = "idle"] /\ novo' = Removed(novo)
      /\ todo' = [todo EXCEPT ![p] = In(NoDir)]
      /\ UNCHANGED <<save, played, holder, work, dir, velho, job, good, had, cut>>
  BY DEF Discarded, Loop, GoTo, device
<1>2. SaveWhole' /\ CopyWhole'
  BY <1>1 DEF CardInv, SaveWhole, CopyWhole, Whole
<1>3. mishaps' \in 0..MaxMishaps /\ todo' \in [Programs -> SUBSET Files]
  BY <1>1, ListedType, EntriesOf DEF CardInv, TypeOK, Discarded
<1>4. QED
  BY <1>1, <1>2, <1>3, RemovedNovo, IdleCardInv DEF CardInv, TypeOK, Places

LEMMA RetiredCardInv ==
    ASSUME Alone, CardInv, NEW p \in Programs, Retired(p) PROVE CardInv'
<1>1. /\ pc[p] = "retire" /\ velho' = IF had[p] THEN Removed(velho) ELSE velho
      /\ pc' = [pc EXCEPT ![p] = IF job[p] = "wipe" THEN "wipe" ELSE "idle"]
      /\ todo' = [todo EXCEPT ![p] = In(NoDir)]
      /\ UNCHANGED <<device, dir, novo, job, good, had, cut>>
  BY DEF Retired, Loop, GoTo
<1>2. velho' \in Trees \cup {NoDir} /\ mishaps' \in 0..MaxMishaps
  BY <1>1, ListedType DEF CardInv, TypeOK, Removed, Retired
<1>3. TypeOK'
  BY <1>1, <1>2, EntriesOf DEF CardInv, TypeOK, Labels, device
<1>4. pc'[p] = IF job[p] = "wipe" THEN "wipe" ELSE "idle"
  BY <1>1 DEF CardInv, TypeOK
<1>5. BackingUp(p)' /\ Restoring(p)'
  BY <1>1, <1>4 DEF CardInv, BackingUp, Restoring, device
<1>6. QED
  BY <1>1, <1>3, <1>5, QuietStep DEF device
-----------------------------------------------------------------------------
(* Emptying and restoring.                                                 *)

LEMMA WipeCardInv ==
    ASSUME Alone, CardInv, NEW p \in Programs, Wipe(p) PROVE CardInv'
<1>1. /\ pc' = [pc EXCEPT ![p] = "idle"]
      /\ UNCHANGED <<save, cut>> \/ (save' = Empty /\ Notes("save", FALSE))
      /\ Mishap \/ NoMishap
      /\ UNCHANGED <<played, holder, work, dir, novo, velho, job, todo, good, had>>
  BY DEF Wipe, GoTo, card
<1>2. cut' \subseteq Places /\ ("dir" \in cut' <=> "dir" \in cut)
  BY <1>1, NotesType DEF CardInv, TypeOK, Places
<1>3. SaveWhole' /\ CopyWhole'
  BY <1>1, <1>2 DEF CardInv, SaveWhole, CopyWhole, Whole
<1>4. QED
  BY <1>1, <1>2, <1>3, EmptyIsTree, MishapType, IdleCardInv DEF CardInv, TypeOK

\* A folder with entries is neither missing nor empty.
LEMMA HasEntries == ASSUME NEW t, In(t) # {} PROVE t # NoDir /\ t # Empty
  BY EmptyIsTree DEF In, Empty

LEMMA RestoreCardInv ==
    ASSUME Alone, CardInv, NEW p \in Programs, Restore(p) PROVE CardInv'
<1>1. /\ p = "app" /\ In(dir) # {}
      /\ pc' = [pc EXCEPT ![p] = "open"] /\ job' = [job EXCEPT ![p] = "restore"]
      /\ UNCHANGED <<device, card, todo, good, had, mishaps, cut>>
  BY DEF Restore, GoTo
<1>2. TypeOK'
  BY <1>1 DEF CardInv, TypeOK, Labels, device, card
<1>3. pc'[p] = "open" /\ job'[p] = "restore"
  BY <1>1 DEF CardInv, TypeOK
<1>4. dir' # NoDir /\ dir' # Empty
  BY <1>1, HasEntries DEF card
<1>5. BackingUp(p)' /\ Restoring(p)'
  BY <1>3, <1>4 DEF BackingUp, Restoring
<1>6. QED
  BY <1>1, <1>2, <1>5, QuietStep DEF device, card

LEMMA OpenFailsCardInv ==
    ASSUME Alone, CardInv, NEW p \in Programs, OpenFails(p) PROVE CardInv'
<1>1. /\ pc' = [pc EXCEPT ![p] = "idle"]
      /\ UNCHANGED <<save, played, holder, work, dir, novo, velho, job, todo, good, had, mishaps, cut>>
  BY DEF OpenFails, GoTo, device, card
<1>2. SaveWhole' /\ CopyWhole'
  BY <1>1 DEF CardInv, SaveWhole, CopyWhole, Whole
<1>3. QED
  BY <1>1, <1>2, IdleCardInv DEF CardInv, TypeOK, Places

LEMMA OpenCardInv ==
    ASSUME Alone, CardInv, NEW p \in Programs, Open(p) PROVE CardInv'
<1>1. /\ pc[p] = "open" /\ holder' = p /\ work' = Empty
      /\ pc' = [pc EXCEPT ![p] = "write"] /\ todo' = [todo EXCEPT ![p] = In(dir)]
      /\ good' = [good EXCEPT ![p] = dir # NoDir]
      /\ UNCHANGED <<save, played, dir, novo, velho, job, had, mishaps, cut>>
  BY DEF Open, Loop, GoTo, card
<1>2. TypeOK'
  BY <1>1, EntriesOf, EmptyIsTree DEF CardInv, TypeOK, Labels, Trees
<1>3. pc'[p] = "write" /\ todo'[p] = In(dir)
  BY <1>1 DEF CardInv, TypeOK
<1>4. dir # NoDir /\ dir # Empty
  BY <1>1 DEF CardInv, Restoring
<1>5. Empty = [f \in Files |-> IF f \in In(dir) THEN 0 ELSE dir[f]]
  BY <1>4 DEF Empty, In
<1>6. Restoring(p)'
  BY <1>1, <1>3, <1>4, <1>5 DEF Restoring
<1>7. BackingUp(p)'
  BY <1>1, <1>3 DEF CardInv, BackingUp
<1>8. QED
  BY <1>1, <1>2, <1>6, <1>7, QuietStep

LEMMA WriteFileCardInv ==
    ASSUME Alone, CardInv, NEW p \in Programs, WriteFile(p) PROVE CardInv'
<1>1. PICK f \in todo[p] :
        /\ pc[p] = "write" /\ Taken(p, f)
        /\ \/ /\ f \in In(dir) /\ work' = [work EXCEPT ![f] = dir[f]]
              /\ good' = good
           \/ /\ UNCHANGED work
              /\ good' = [good EXCEPT ![p] = FALSE]
        /\ Mishap \/ NoMishap
        /\ UNCHANGED <<save, played, holder, card, job, pc, had, cut>>
  BY DEF WriteFile
<1>2. todo'[p] = todo[p] \ {f} /\ f \in Files /\ todo' \in [Programs -> SUBSET Files]
  BY <1>1 DEF Taken, CardInv, TypeOK
<1>3. dir # NoDir /\ dir \in Trees
  BY <1>1 DEF CardInv, TypeOK, Restoring, Trees
<1>4. work' \in Trees /\ good' \in [Programs -> BOOLEAN]
  BY <1>1, <1>2, <1>3 DEF CardInv, TypeOK, Trees
<1>5. TypeOK'
  <2>1. mishaps' \in 0..MaxMishaps
    BY <1>1, MishapType DEF CardInv
  <2>2. QED
    BY <1>1, <1>2, <1>4, <2>1 DEF CardInv, TypeOK, Trees, card
<1>6. Restoring(p)'
  <2>1. /\ holder' = p /\ dir' = dir /\ dir # Empty /\ todo'[p] \subseteq In(dir')
        /\ good[p] => work = [g \in Files |-> IF g \in todo[p] THEN 0 ELSE dir[g]]
    BY <1>1, <1>2 DEF CardInv, Restoring, In, card
  <2>2. good'[p] => good[p] /\ work' = [work EXCEPT ![f] = dir[f]]
    BY <1>1 DEF CardInv, TypeOK
  <2>3. good'[p] => work' = [g \in Files |-> IF g \in todo'[p] THEN 0 ELSE dir'[g]]
    BY <1>2, <2>1, <2>2
  <2>4. QED
    BY <1>3, <2>1, <2>3 DEF Restoring
<1>7. BackingUp(p)'
  BY <1>1 DEF CardInv, BackingUp, card
<1>8. QED
  BY <1>1, <1>5, <1>6, <1>7, QuietStep DEF card

\* What is committed is the copy, entire, unless its listing broke off.
LEMMA CommitCardInv ==
    ASSUME Alone, CardInv, NEW p \in Programs, Commit(p)
    PROVE  CardInv' /\ (save' # save => save' # Empty \/ "save" \in cut')
<1>1. /\ pc[p] = "write" /\ pc' = [pc EXCEPT ![p] = "idle"]
      /\ \/ good[p] /\ save' = work /\ Notes("save", CutShort(p) \/ "dir" \in cut)
         \/ UNCHANGED <<save, cut>>
      /\ holder' = "none" /\ work' = Empty
      /\ todo' = [todo EXCEPT ![p] = In(NoDir)]
      /\ UNCHANGED <<played, dir, novo, velho, job, good, had>>
  BY DEF Commit, Loop, GoTo, card
<1>2. dir # NoDir /\ dir # Empty /\ dir \in Trees /\ work \in Trees
  BY <1>1 DEF CardInv, TypeOK, Restoring
<1>3. good[p] /\ todo[p] = {} => work = dir
  <2>1. good[p] => work = [f \in Files |-> IF f \in todo[p] THEN 0 ELSE dir[f]]
    BY <1>1 DEF CardInv, Restoring
  <2>2. todo[p] = {} => [f \in Files |-> IF f \in todo[p] THEN 0 ELSE dir[f]] = dir
    BY <1>2 DEF Trees
  <2>3. QED
    BY <2>1, <2>2
<1>4. cut' \subseteq Places /\ ("dir" \in cut' <=> "dir" \in cut)
  BY <1>1, NotesType DEF CardInv, TypeOK, Places, CutShort
<1>5. SaveWhole' /\ (save' # save => save' # Empty \/ "save" \in cut')
  <2>1. CASE UNCHANGED <<save, cut>>
    BY <2>1 DEF CardInv, SaveWhole, Whole
  <2>2. CASE good[p] /\ save' = work /\ Notes("save", CutShort(p) \/ "dir" \in cut)
    <3>1. "save" \in cut' <=> todo[p] # {} \/ "dir" \in cut
      BY <2>2, NotesType DEF CardInv, CutShort, Places
    <3>2. "save" \in cut' \/ (save' = dir /\ Whole(dir))
      BY <1>2, <1>3, <2>2, <3>1 DEF CardInv, CopyWhole
    <3>3. QED
      BY <1>2, <3>2 DEF SaveWhole, Whole
  <2>3. QED
    BY <1>1, <2>1, <2>2
<1>6. CopyWhole'
  BY <1>1, <1>4 DEF CardInv, CopyWhole, Whole
<1>7. mishaps' \in 0..MaxMishaps /\ todo' \in [Programs -> SUBSET Files]
  BY <1>1, ListedType, MishapType, EntriesOf DEF CardInv, TypeOK, Commit
<1>8. CardInv'
  <2>1. {save', work'} \subseteq Trees
    BY <1>1, <1>2, EmptyIsTree DEF CardInv, TypeOK
  <2>2. {dir', velho', novo'} \subseteq Trees \cup {NoDir}
    BY <1>1 DEF CardInv, TypeOK
  <2>3. QED
    BY <1>1, <1>4, <1>5, <1>6, <1>7, <2>1, <2>2, IdleCardInv
<1>9. QED
  BY <1>5, <1>8

-----------------------------------------------------------------------------
(* The game and the power.                                                 *)

\* While a copy or a restore goes on the game cannot write: the savedata is held,
\* and while the app has a job the game does not run.
LEMMA PlayCardInv ==
    ASSUME Alone, CardInv, Play PROVE CardInv' /\ save' # Empty
<1>1. /\ holder = "none" /\ played < MaxVer
      /\ (\A p \in Programs : p = "app" => pc[p] = "idle")
      /\ played' = played + 1 /\ save' = Tree(played + 1)
      /\ cut' = cut \ {"save"}
      /\ UNCHANGED <<holder, work, card, local, mishaps>>
  BY DEF Play, Notes
<1>2. played + 1 \in 1..MaxVer
  BY <1>1 DEF CardInv, TypeOK
<1>3. save' \in Trees /\ save' # Empty /\ Whole(save')
  BY <1>1, <1>2, SaveIsTree
<1>4. TypeOK'
  BY <1>1, <1>2, <1>3 DEF CardInv, TypeOK, card, local
<1>5. ASSUME NEW p \in Programs PROVE BackingUp(p)' /\ Restoring(p)'
  <2>1. BackingUp(p) /\ Restoring(p) /\ p # "none"
    BY DEF CardInv
  <2>2. job[p] = "wipe" => pc[p] = "idle"
    BY <1>1, <2>1 DEF BackingUp
  <2>3. pc[p] # "copy" /\ pc[p] # "write"
    BY <1>1, <2>1 DEF BackingUp, Restoring
  <2>4. BackingUp(p)'
    BY <1>1, <2>1, <2>2, <2>3 DEF BackingUp, card, local, In, Clean, Whole
  <2>5. Restoring(p)'
    BY <1>1, <2>1, <2>3 DEF Restoring, card, local
  <2>6. QED
    BY <2>4, <2>5
<1>6. SaveWhole' /\ CopyWhole'
  BY <1>1, <1>3 DEF CardInv, SaveWhole, CopyWhole, Whole, card
<1>7. QED
  BY <1>3, <1>4, <1>5, <1>6 DEF CardInv

LEMMA CrashCardInv == CardInv /\ Crash => CardInv' /\ save' = save
<1> SUFFICES ASSUME CardInv, Crash PROVE CardInv' /\ save' = save
  OBVIOUS
<1>1. /\ Mishap /\ holder' = "none" /\ work' = Empty
      /\ pc' = [p \in Programs |-> "idle"] /\ todo' = [p \in Programs |-> {}]
      /\ UNCHANGED <<save, played, dir, novo, velho, job, good, had, cut>>
  BY DEF Crash, card
<1>2. TypeOK'
  <2>1. mishaps' \in 0..MaxMishaps
    BY <1>1, MishapType DEF CardInv
  <2>2. QED
    BY <1>1, <2>1, EmptyIsTree DEF CardInv, TypeOK, Labels, Trees
<1>3. \A p \in Programs : BackingUp(p)' /\ Restoring(p)'
  BY <1>1 DEF CardInv, BackingUp, Restoring
<1>4. SaveWhole' /\ CopyWhole'
  BY <1>1 DEF CardInv, SaveWhole, CopyWhole, Whole
<1>5. QED
  BY <1>1, <1>2, <1>3, <1>4 DEF CardInv

LEMMA StutterCardInv == CardInv /\ UNCHANGED vars => CardInv'
  BY DEF CardInv, vars, device, card, local, TypeOK, SaveWhole, CopyWhole, Clean, Whole, BackingUp, Restoring, In

LEMMA NextCardInv == ASSUME Alone PROVE CardInv /\ [Next]_vars => CardInv'
<1> SUFFICES ASSUME CardInv, Next PROVE CardInv'
  BY StutterCardInv
<1>1. ASSUME NEW p \in Programs, Step(p) PROVE CardInv'
  BY <1>1, BeginCardInv, ClearNovoCardInv, ClearedCardInv, ClearVelhoCardInv, DroppedCardInv,
     MountFailsCardInv, MountCardInv, CopyFileCardInv, CopyDoneCardInv, SwapOutCardInv,
     SwapInCardInv, SwapBackCardInv, DiscardedCardInv, RetiredCardInv, WipeCardInv,
     RestoreCardInv, OpenFailsCardInv, OpenCardInv, WriteFileCardInv, CommitCardInv
     DEF Step
<1>2. QED
  BY <1>1, PlayCardInv, CrashCardInv DEF Next

LEMMA CardInvariant == ASSUME Alone PROVE Spec => []CardInv
<1>1. CardInv /\ [Next]_vars => CardInv'
  BY NextCardInv
<1>2. QED
  BY InitCardInv, <1>1, PTL DEF Spec

-----------------------------------------------------------------------------
(* The theorems.                                                           *)

\* Every variable always has its type.
THEOREM TypeCorrect == ASSUME Alone PROVE Spec => []TypeOK
<1>1. CardInv => TypeOK
  BY DEF CardInv
<1>2. QED
  BY CardInvariant, <1>1, PTL

\* The savedata is always a save the game wrote, or empty, whatever copies,
\* restores, failures and crashes there were, unless it or the copy it was
\* restored from came through a listing that broke off.
THEOREM SaveIsWhole == ASSUME Alone PROVE Spec => []SaveWhole
<1>1. CardInv => SaveWhole
  BY DEF CardInv
<1>2. QED
  BY CardInvariant, <1>1, PTL

\* So is the copy on the card.
THEOREM CopyIsWhole == ASSUME Alone PROVE Spec => []CopyWhole
<1>1. CardInv => CopyWhole
  BY DEF CardInv
<1>2. QED
  BY CardInvariant, <1>1, PTL

\* What empties the savedata, and is no restore whose listing broke off, leaves
\* the card alone.
LEMMA EmptiedSave ==
    ASSUME Alone, CardInv, Next, save # Empty, save' = Empty
    PROVE  \/ "save" \in cut'
           \/ UNCHANGED card /\ (dir = save \/ ("dir" \in cut /\ "dir" \in cut'))
<1>1. PICK p \in Programs : Step(p)
  BY PlayCardInv, CrashCardInv DEF Next
<1>2. CASE Wipe(p)
  <2>1. pc[p] = "wipe" /\ UNCHANGED card /\ Notes("save", FALSE)
    BY <1>2 DEF Wipe
  <2>2. "dir" \in cut \/ dir = save
    BY <2>1 DEF CardInv, BackingUp
  <2>3. "dir" \in cut' <=> "dir" \in cut
    BY <2>1, NotesType DEF CardInv, Places
  <2>4. QED
    BY <2>1, <2>2, <2>3
<1>3. CASE Commit(p)
  BY <1>3, CommitCardInv
<1>4. QED
  BY <1>1, <1>2, <1>3 DEF Step, Begin, ClearNovo, Cleared, ClearVelho, Dropped, MountFails, Mount,
     CopyFile, CopyDone, SwapOut, SwapIn, SwapBack, Discarded, Retired, Restore, OpenFails, Open,
     WriteFile, device

\* The savedata is emptied only by "Empty this game's save", and only while the
\* copy on the card is what goes or came through a listing that broke off.
THEOREM OnlyCopiedIsErased == ASSUME Alone PROVE Spec => ErasesOnlyWhatIsCopied
<1>1. CardInv /\ [Next]_vars =>
        [save # Empty /\ save' = Empty => dir = save \/ "dir" \in cut \/ "save" \in cut']_vars
  BY EmptiedSave
<1>2. QED
  BY CardInvariant, <1>1, PTL DEF Spec, ErasesOnlyWhatIsCopied

\* Nothing but a copy in progress, or one that is begun, changes the card.
LEMMA CardAtRest ==
    ASSUME Next, \A p \in Programs : pc[p] \in {"idle", "wipe", "open", "write"}
    PROVE  UNCHANGED card
<1>1. CASE Play \/ Crash
  BY <1>1 DEF Play, Crash
<1>2. ASSUME NEW p \in Programs, Step(p) PROVE UNCHANGED card
  <2>1. pc[p] \in {"idle", "wipe", "open", "write"}
    OBVIOUS
  <2>2. QED
    BY <1>2, <2>1 DEF Step, Begin, ClearNovo, Cleared, ClearVelho, Dropped, MountFails, Mount,
       CopyFile, CopyDone, SwapOut, SwapIn, SwapBack, Discarded, Retired, Wipe, Restore,
       OpenFails, Open, WriteFile, Commit
<1>3. QED
  BY <1>1, <1>2 DEF Next

\* A complete save remains in the savedata or on the card, wherever power goes or
\* a rename fails, unless somebody copies a savedata that is empty or a listing
\* broke off.
THEOREM ASaveRemains == ASSUME Alone PROVE Spec => OneSaveRemains
<1> DEFINE Remains ==
             SaveRemains /\ ~CopiesNothing => SaveRemains' \/ {"save", "dir"} \cap cut' # {}
<1>1. CardInv /\ [Next]_vars => [Remains]_vars
  <2> SUFFICES ASSUME CardInv, Next, SaveRemains, ~CopiesNothing, "save" \notin cut', "dir" \notin cut'
               PROVE  SaveRemains'
    OBVIOUS
  <2>1. save' = Empty \/ Whole(save)'
    BY NextCardInv DEF CardInv, SaveWhole
  <2>2. CASE save' # Empty
    BY <2>1, <2>2 DEF SaveRemains
  <2>3. CASE save' = Empty /\ save # Empty
    <3>1. UNCHANGED card /\ dir = save
      BY <2>3, EmptiedSave
    <3>2. CASE SomeCopy
      BY <3>1, <3>2 DEF SomeCopy, Whole, card, SaveRemains
    <3>3. CASE Whole(save) /\ dir = save
      BY <3>1, <3>3 DEF SomeCopy, Whole, card, SaveRemains, CardInv, TypeOK
    <3>4. QED
      BY <3>1, <3>2, <3>3 DEF SaveRemains
  <2>4. CASE save' = Empty /\ save = Empty
    <3>1. ~Whole(save)
      BY <2>4, SaveIsTree DEF Whole
    <3>2. SomeCopy
      BY <3>1 DEF SaveRemains
    <3>3. UNCHANGED card
      BY <2>4, CardAtRest DEF CopiesNothing
    <3>4. SomeCopy'
      BY <3>2, <3>3 DEF SomeCopy, Whole, card
    <3>5. QED
      BY <3>4 DEF SaveRemains
  <2>5. QED
    BY <2>2, <2>3, <2>4
<1>2. QED
  BY CardInvariant, <1>1, PTL DEF Spec, OneSaveRemains
=============================================================================
