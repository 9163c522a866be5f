------------------------- MODULE CloudFoldersProofs -------------------------
(***************************************************************************)
(* Proofs about the folders in the cloud, for any accounts and names, any  *)
(* number of saves, renamed accounts and mishaps, backups of the old       *)
(* layout or none.  All but type correctness assume that a game somebody   *)
(* shares stays shared: the last savedata but one is never removed.        *)
(***************************************************************************)
EXTENDS CloudFolders, FiniteSetTheorems, TLAPS

USE FoldersAssumption

-----------------------------------------------------------------------------
(* Type correctness.                                                       *)

LEMMA Specials ==
    /\ Empty \notin Saves /\ Absent \notin Saves /\ Empty # Absent
    /\ Empty \in Found /\ Absent \notin Found /\ Saves \subseteq Found
    /\ Empty.by = NoOne /\ Absent.by = NoOne
<1>1. Empty.by = NoOne /\ Absent.by = NoOne /\ Empty.n = 0 /\ Absent.n = -1
  BY DEF Empty, Absent
<1>2. Empty # Absent
  BY <1>1
<1>3. \A s \in Saves : s.by \in Accounts
  BY DEF Saves
<1>4. QED
  BY <1>1, <1>2, <1>3 DEF Found

LEMMA Cut ==
    ASSUME NEW s \in Saves
    PROVE  /\ [s EXCEPT !.whole = FALSE] \in Saves
           /\ [s EXCEPT !.whole = FALSE].by = s.by
  BY DEF Saves

\* What can be found, and what comes from there.
Place(p) ==
    \/ \E x \in Names : p = <<"own", x>> /\ dir[x] # Absent
    \/ p = <<"part", Plain>> /\ flat[Plain] \in Saves
    \/ \E x \in Names \cup {Plain} : p = <<"flat", x>> /\ flat[x] \in Saves

LEMMA PathName == ASSUME TypeOK, NEW u \in Accounts PROVE Path(u) \in Names
  BY DEF TypeOK, Path

LEMMA LookupPlace ==
    ASSUME TypeOK, NEW u \in Accounts, NEW seen, NEW p \in Lookup(u, seen)
    PROVE  Place(p)
<1>1. CASE p \in Nested(u, seen)
  <2>1. CASE p = <<"own", Path(u)>> /\ dir[Path(u)] # Absent
    BY <2>1, PathName DEF Place
  <2>2. CASE p \in Subfolders
    BY <2>2 DEF Subfolders, Place
  <2>3. QED
    BY <1>1, <2>1, <2>2 DEF Nested
<1>2. CASE p \in Flat(u, seen)
  <2>1. p = <<"flat", OldName(u, Shared)>> /\ flat[OldName(u, Shared)] \in Saves
    BY <1>2 DEF Flat
  <2>2. OldName(u, Shared) \in Names \cup {Plain}
    BY DEF OldName, TypeOK
  <2>3. QED
    BY <2>1, <2>2 DEF Place
<1>3. QED
  BY <1>1, <1>2 DEF Lookup

\* Where a save comes from names whose it is.
From(p) == IF p[1] = "own" THEN dir[p[2]] ELSE flat[p[2]]

LEMMA DownloadType ==
    ASSUME TypeOK, NEW p, Place(p)
    PROVE  Download(p) \in Found /\ Download(p).by = From(p).by
<1>1. ASSUME NEW x \in Names, p = <<"own", x>>, dir[x] # Absent
      PROVE  Download(p) \in Found /\ Download(p).by = From(p).by
  BY <1>1 DEF Download, From, TypeOK
<1>2. CASE p = <<"part", Plain>> /\ flat[Plain] \in Saves
  BY <1>2, Cut, Specials DEF Download, From
<1>3. ASSUME NEW x \in Names \cup {Plain}, p = <<"flat", x>>, flat[x] \in Saves
      PROVE  Download(p) \in Found /\ Download(p).by = From(p).by
  <2>1. Download(p) \in {flat[x], [flat[x] EXCEPT !.whole = FALSE]}
    BY <1>3 DEF Download
  <2>2. QED
    BY <1>3, <2>1, Cut, Specials DEF From
<1>4. QED
  BY <1>1, <1>2, <1>3 DEF Place

LEMMA MishapType == TypeOK /\ (Mishap \/ UNCHANGED mishaps) => mishaps' \in 0..MaxMishaps
  BY DEF TypeOK, Mishap

LEMMA AnswersMishap == ASSUME NEW seen, Answers(seen) PROVE Mishap \/ UNCHANGED mishaps
  BY DEF Answers

LEMMA MarkType == ASSUME NEW u \in Accounts PROVE Mark(u) \in Accounts \cup {NoOne}
  BY DEF Mark

LEMMA PutType ==
    ASSUME TypeOK, NEW u \in Accounts, NEW s \in Found, Put(u, s)
    PROVE  /\ dir' \in [Names -> Found \cup {Absent}] /\ owner' \in [Names -> Accounts \cup {NoOne}]
           /\ recall' \in [Accounts -> Names \cup {NoName, FlatName}]
           /\ astray' \subseteq Accounts
  BY PathName DEF Put, TypeOK

LEMMA RecallType ==
    ASSUME TypeOK, NEW u \in Accounts, NEW p
    PROVE  RecallOf(u, p) \in [Accounts -> Names \cup {NoName, FlatName}]
  BY PathName DEF RecallOf, TypeOK

LEMMA InitType == Init => TypeOK
<1> SUFFICES ASSUME Init PROVE TypeOK
  OBVIOUS
<1>1. PICK here \in (SUBSET Accounts) \ {{}} :
        LET first == [u \in Accounts |->
                           IF u \in here THEN [by |-> u, n |-> 1, whole |-> TRUE] ELSE Absent]
            many == Cardinality(here) > 1
        IN /\ save = first
           /\ flat = [x \in Names \cup {Plain} |->
                         IF Old /\ \E u \in here : OldName(u, many) = x
                         THEN first[CHOOSE u \in here : OldName(u, many) = x] ELSE Absent]
           /\ marker = [u \in Accounts \cup {NoOne} |->
                         IF Old /\ many /\ u \in here THEN first[u]
                         ELSE IF Old /\ ~many /\ u = NoOne
                         THEN first[CHOOSE v \in here : TRUE] ELSE Absent]
  BY DEF Init
<1> DEFINE first == [u \in Accounts |->
                       IF u \in here THEN [by |-> u, n |-> 1, whole |-> TRUE] ELSE Absent]
           many == Cardinality(here) > 1
<1>2. \A u \in here : first[u] \in Saves
  BY DEF Saves
<1>3. save \in [Accounts -> Found \cup {Absent}]
  BY <1>1, <1>2, Specials
<1>4. flat \in [Names \cup {Plain} -> Saves \cup {Absent}]
  <2>1. \A x : (\E u \in here : OldName(u, many) = x) =>
                 (CHOOSE u \in here : OldName(u, many) = x) \in here
    OBVIOUS
  <2>2. flat = [x \in Names \cup {Plain} |->
                  IF Old /\ \E u \in here : OldName(u, many) = x
                  THEN first[CHOOSE u \in here : OldName(u, many) = x] ELSE Absent]
    BY <1>1
  <2> HIDE DEF first, many
  <2>3. QED
    BY <1>2, <2>1, <2>2
<1>5. marker \in [Accounts \cup {NoOne} -> Saves \cup {Empty, Absent}]
  <2>1. (CHOOSE v \in here : TRUE) \in here
    <3>1. \E v : v \in here /\ TRUE
      OBVIOUS
    <3>2. QED
      BY <3>1, Zenon
  <2>2. marker = [u \in Accounts \cup {NoOne} |->
                    IF Old /\ many /\ u \in here THEN first[u]
                    ELSE IF Old /\ ~many /\ u = NoOne
                    THEN first[CHOOSE v \in here : TRUE] ELSE Absent]
    BY <1>1
  <2> HIDE DEF first, many
  <2>3. QED
    BY <1>2, <2>1, <2>2
<1>6. /\ nick = Nick /\ recall = [u \in Accounts |-> NoName]
      /\ dir = [x \in Names |-> Absent] /\ owner = [x \in Names |-> NoOne]
      /\ astray = {} /\ played = 1 /\ renames = 0 /\ mishaps = 0
  BY DEF Init
<1>7. QED
  BY <1>3, <1>4, <1>5, <1>6 DEF TypeOK

LEMMA NextType == TypeOK /\ [Next]_vars => TypeOK'
<1> SUFFICES ASSUME TypeOK, [Next]_vars PROVE TypeOK'
  OBVIOUS
<1> USE DEF console, card, cloud, ghosts
<1>0. CASE UNCHANGED vars
  BY <1>0 DEF vars, TypeOK
<1>1. ASSUME NEW u \in Accounts, Join(u) PROVE TypeOK'
  BY <1>1, Specials DEF Join, TypeOK
<1>2. ASSUME NEW u \in Accounts, Leave(u) PROVE TypeOK'
  BY <1>2 DEF Leave, TypeOK
<1>3. ASSUME NEW u \in Accounts, Play(u) PROVE TypeOK'
  <2>1. played' \in 1..MaxSave
    BY <1>3 DEF Play, TypeOK
  <2>2. save[u] \in Found /\ save[u].whole \in BOOLEAN
    <3>1. save[u] \in Saves \/ save[u] = Empty
      BY <1>3 DEF Play, TypeOK, Found
    <3>2. (\A s \in Saves : s.whole \in BOOLEAN) /\ Empty.whole \in BOOLEAN
      BY DEF Saves, Empty
    <3>3. QED
      BY <3>1, <3>2, Specials
  <2>3. [by |-> u, n |-> played', whole |-> save[u].whole] \in Saves
    BY <2>1, <2>2 DEF Saves
  <2>4. QED
    BY <1>3, <2>1, <2>3, Specials DEF Play, TypeOK
<1>4. ASSUME NEW u \in Accounts, Forget(u) PROVE TypeOK'
  <2>1. mishaps' \in 0..MaxMishaps
    BY <1>4, MishapType DEF Forget
  <2>2. QED
    BY <1>4, <2>1 DEF Forget, TypeOK
<1>5. ASSUME NEW u \in Accounts, Upload(u) PROVE TypeOK'
  <2>1. save[u] \in Found
    BY <1>5 DEF Upload, TypeOK
  <2>2. marker' \in [Accounts \cup {NoOne} -> Saves \cup {Empty, Absent}]
    BY <1>5, <2>1, MarkType DEF Upload, TypeOK, Found
  <2>3. QED
    BY <1>5, <2>1, <2>2, PutType DEF Upload, Put, TypeOK
<1>6. ASSUME NEW u \in Accounts, NEW x \in Names, Rename(u, x) PROVE TypeOK'
  BY <1>6 DEF Rename, TypeOK
<1>7. ASSUME NEW u \in Accounts, NEW seen \in Answered, Operation(u, seen) PROVE TypeOK'
  <2>1. mishaps' \in 0..MaxMishaps
    BY <1>7, MishapType, AnswersMishap
       DEF Operation, Restore, FirstSync, SyncDown, SyncUp, SyncSees
  <2>2. CASE Restore(u, seen)
    <3>1. PICK p \in Lookup(u, seen) :
            /\ save' = [save EXCEPT ![u] = Download(p)]
            /\ marker' = IF save[u] = Download(p) THEN [marker EXCEPT ![Mark(u)] = save[u]] ELSE marker
      BY <2>2 DEF Restore
    <3>2. Download(p) \in Found
      BY LookupPlace, DownloadType
    <3>3. save' \in [Accounts -> Found \cup {Absent}]
      BY <3>1, <3>2 DEF TypeOK
    <3>4. marker' \in [Accounts \cup {NoOne} -> Saves \cup {Empty, Absent}]
      BY <3>1, <3>2, MarkType DEF TypeOK, Found
    <3>5. QED
      BY <2>1, <2>2, <3>3, <3>4 DEF Restore, TypeOK
  <2>3. CASE FirstSync(u, seen)
    <3>1. save[u] \in Found
      BY <2>3 DEF FirstSync, TypeOK
    <3>2. marker' \in [Accounts \cup {NoOne} -> Saves \cup {Empty, Absent}]
      BY <2>3, <3>1, MarkType DEF FirstSync, Marked, TypeOK, Found
    <3>3. QED
      BY <2>1, <2>3, <3>1, <3>2, PutType DEF FirstSync, Put, TypeOK
  <2>4. CASE SyncDown(u, seen)
    <3>1. PICK p \in Lookup(u, seen) :
            /\ recall' = RecallOf(u, p) /\ save' = [save EXCEPT ![u] = Download(p)]
            /\ marker' = [marker EXCEPT ![Mark(u)] = Download(p)]
      BY <2>4 DEF SyncDown, Marked
    <3>2. Download(p) \in Found
      BY LookupPlace, DownloadType
    <3>3. save' \in [Accounts -> Found \cup {Absent}]
      BY <3>1, <3>2 DEF TypeOK
    <3>4. marker' \in [Accounts \cup {NoOne} -> Saves \cup {Empty, Absent}]
      BY <3>1, <3>2, MarkType DEF TypeOK, Found
    <3>5. recall' \in [Accounts -> Names \cup {NoName, FlatName}]
      BY <3>1, RecallType
    <3>6. QED
      BY <2>1, <2>4, <3>3, <3>4, <3>5 DEF SyncDown, Missed, TypeOK
  <2>5. CASE SyncUp(u, seen)
    <3>1. PICK p \in Lookup(u, seen) :
            /\ recall' = RecallOf(u, p)
            /\ dir' = IF p[1] = "own" THEN [dir EXCEPT ![p[2]] = save[u]] ELSE dir
            /\ flat' = CASE p[1] = "own"  -> flat
                         [] p[1] = "flat" -> [flat EXCEPT ![p[2]] = save[u]]
                         [] p[1] = "part" -> [flat EXCEPT ![Plain].whole = FALSE]
      BY <2>5 DEF SyncUp
    <3>2. Place(p)
      BY LookupPlace
    <3>3. save[u] \in Saves
      BY <2>5 DEF SyncUp, TypeOK, Found
    <3>4. dir' \in [Names -> Found \cup {Absent}]
      BY <3>1, <3>2, <3>3, Specials DEF Place, TypeOK
    <3>5. flat' \in [Names \cup {Plain} -> Saves \cup {Absent}]
      <4>1. CASE p = <<"part", Plain>> /\ flat[Plain] \in Saves
        BY <3>1, <4>1, Cut DEF TypeOK
      <4>2. CASE \E x \in Names \cup {Plain} : p = <<"flat", x>> /\ flat[x] \in Saves
        BY <3>1, <3>3, <4>2 DEF TypeOK
      <4>3. CASE \E x \in Names : p = <<"own", x>>
        BY <3>1, <4>3 DEF TypeOK
      <4>4. QED
        BY <3>2, <4>1, <4>2, <4>3 DEF Place
    <3>6. marker' \in [Accounts \cup {NoOne} -> Saves \cup {Empty, Absent}]
      BY <2>5, <3>3, MarkType DEF SyncUp, Marked, TypeOK
    <3>7. recall' \in [Accounts -> Names \cup {NoName, FlatName}]
      BY <3>1, RecallType
    <3>8. QED
      BY <2>1, <2>5, <3>4, <3>5, <3>6, <3>7 DEF SyncUp, Missed, TypeOK
  <2>6. CASE SyncSees(u, seen)
    <3>1. PICK p \in Lookup(u, seen) :
            /\ recall' = RecallOf(u, p)
            /\ marker' = [marker EXCEPT ![Mark(u)] = Download(p)] \/ UNCHANGED marker
      BY <2>6 DEF SyncSees, Marked
    <3>2. Download(p) \in Found
      BY LookupPlace, DownloadType
    <3>3. marker' \in [Accounts \cup {NoOne} -> Saves \cup {Empty, Absent}]
      BY <3>1, <3>2, MarkType DEF TypeOK, Found
    <3>4. recall' \in [Accounts -> Names \cup {NoName, FlatName}]
      BY <3>1, RecallType
    <3>5. QED
      BY <2>1, <2>6, <3>3, <3>4 DEF SyncSees, Missed, TypeOK
  <2>7. QED
    BY <1>7, <2>2, <2>3, <2>4, <2>5, <2>6 DEF Operation
<1>8. QED
  BY <1>0, <1>1, <1>2, <1>3, <1>4, <1>5, <1>6, <1>7 DEF Next

LEMMA TypeInvariant == Spec => []TypeOK
  BY InitType, NextType, PTL DEF Spec

\* Every variable always has its type.
THEOREM TypeCorrect == Spec => []TypeOK
  BY TypeInvariant
-----------------------------------------------------------------------------
(* Who shares the game.                                                    *)

LEMMA PresentFinite == IsFiniteSet(Present) /\ Cardinality(Present) \in Nat
<1>1. Present \in SUBSET Accounts
  BY DEF Present
<1>2. IsFiniteSet(Present)
  BY <1>1, FS_Subset
<1>3. QED
  BY <1>2, FS_CardinalityType

LEMMA TwoElements ==
    ASSUME NEW S, IsFiniteSet(S), NEW u \in S, NEW v \in S, u # v
    PROVE  Cardinality(S) > 1
<1>1. IsFiniteSet({u}) /\ Cardinality({u}) = 1
  BY FS_Singleton
<1>2. v \notin {u}
  OBVIOUS
<1>3. Cardinality({u} \cup {v}) = Cardinality({u}) + 1
  BY <1>1, <1>2, FS_AddElement
<1>4. {u} \cup {v} \subseteq S
  OBVIOUS
<1>5. Cardinality({u} \cup {v}) <= Cardinality(S) /\ Cardinality(S) \in Nat
  BY <1>4, FS_Subset, FS_CardinalityType
<1>6. QED
  BY <1>1, <1>3, <1>5

LEMMA TwoShare ==
    ASSUME NEW u \in Present, NEW v \in Present, u # v
    PROVE  Shared
  BY PresentFinite, TwoElements DEF Shared

\* Who is left after one savedata was removed.
LEMMA SharedStays ==
    ASSUME Stay >= 2, TypeOK, NEW u \in Accounts, Leave(u)
    PROVE  Shared'
<1>1. Present' = Present \ {u} /\ u \in Present /\ Cardinality(Present) > Stay
  BY DEF Leave, Present, TypeOK
<1>2. Cardinality(Present \ {u}) = Cardinality(Present) - 1
  BY <1>1, PresentFinite, FS_RemoveElement
<1>3. QED
  BY <1>1, <1>2, PresentFinite DEF Shared

-----------------------------------------------------------------------------
(* Whose folder is whose.  OwnSave is not inductive: it needs that nobody    *)
(* else wrote where an account looks.                                      *)

\* The names the folder of u has or is about to get.
Mine(u) == {nick[u], recall[u]} \cap Names

OwnInv ==
    /\ OwnSave /\ Present # {}
    \* No two accounts claim the same folder,
    /\ \A u, v \in Accounts : u # v => Mine(u) \cap Mine(v) = {}
    \* a folder there is belongs to the account that created it,
    /\ \A x \in Names : dir[x] = Absent <=> owner[x] = NoOne
    /\ OwnBackup
    \* an account claims no folder of another one,
    /\ \A u \in Accounts : \A x \in Mine(u) : owner[x] \in {u, NoOne}
    /\ \A u \in Accounts : flat[nick[u]].by \in {u, NoOne}
    \* and while only one account plays, everything in the cloud is its own.
    /\ ~Shared => \A u \in Present :
          /\ flat[Plain].by \in {u, NoOne}
          /\ \A x \in Names : owner[x] \in {u, NoOne}

\* A lookup for an account that plays finds what this account sent.
LEMMA LookupMine ==
    ASSUME TypeOK, OwnInv, NEW u \in Present, NEW seen, NEW p \in Lookup(u, seen)
    PROVE  /\ Place(p) /\ From(p).by \in {u, NoOne}
           /\ p[1] = "own" => p[2] \in Names /\ owner[p[2]] = u
           /\ p[1] = "flat" => p[2] = OldName(u, Shared)
           /\ p[1] = "part" => ~Shared
<1>1. Place(p) /\ u \in Accounts /\ Path(u) \in Names /\ Path(u) \in Mine(u)
  BY LookupPlace, PathName DEF Present, Path, Mine, TypeOK
<1>2. CASE p \in Flat(u, seen)
  <2>1. p = <<"flat", OldName(u, Shared)>>
    BY <1>2 DEF Flat
  <2>2. flat[OldName(u, Shared)].by \in {u, NoOne}
    BY <1>1 DEF OldName, OwnInv
  <2>3. QED
    BY <1>1, <2>1, <2>2 DEF From
<1>3. CASE p = <<"own", Path(u)>> /\ dir[Path(u)] # Absent
  <2>1. owner[Path(u)] = u
    BY <1>1, <1>3 DEF OwnInv
  <2>2. dir[Path(u)].by \in {u, NoOne}
    BY <1>1, <2>1 DEF OwnInv, OwnBackup
  <2>3. QED
    BY <1>1, <1>3, <2>1, <2>2 DEF From
<1>4. CASE ~Shared /\ p \in Subfolders
  <2>1. CASE p = <<"part", Plain>>
    BY <1>1, <1>4, <2>1 DEF From, OwnInv
  <2>2. ASSUME NEW x \in Names, dir[x] # Absent, p = <<"own", x>>
        PROVE  owner[x] = u /\ dir[x].by \in {u, NoOne}
    BY <1>4, <2>2 DEF OwnInv, OwnBackup
  <2>3. QED
    BY <1>1, <1>4, <2>1, <2>2 DEF Subfolders, From
<1>5. QED
  BY <1>2, <1>3, <1>4 DEF Lookup, Nested

LEMMA InitOwn == ASSUME DistinctNames PROVE Init => OwnInv
<1> SUFFICES ASSUME Init PROVE OwnInv
  OBVIOUS
<1>1. PICK here \in (SUBSET Accounts) \ {{}} :
        LET first == [u \in Accounts |->
                           IF u \in here THEN [by |-> u, n |-> 1, whole |-> TRUE] ELSE Absent]
            many == Cardinality(here) > 1
        IN /\ save = first
           /\ flat = [x \in Names \cup {Plain} |->
                         IF Old /\ \E u \in here : OldName(u, many) = x
                         THEN first[CHOOSE u \in here : OldName(u, many) = x] ELSE Absent]
  BY DEF Init
<1> DEFINE first == [u \in Accounts |->
                       IF u \in here THEN [by |-> u, n |-> 1, whole |-> TRUE] ELSE Absent]
           many == Cardinality(here) > 1
           chosen(x) == CHOOSE u \in here : OldName(u, many) = x
<1>2. /\ nick = Nick /\ recall = [u \in Accounts |-> NoName]
      /\ dir = [x \in Names |-> Absent] /\ owner = [x \in Names |-> NoOne]
  BY DEF Init
<1>3. \A u \in Accounts : first[u].by \in {u, NoOne} /\ (first[u] # Absent <=> u \in here)
  <2>1. \A u \in here : [by |-> u, n |-> 1, whole |-> TRUE].by = u /\ u # NoOne
    OBVIOUS
  <2>2. \A u \in here : [by |-> u, n |-> 1, whole |-> TRUE] # Absent
    BY <2>1, Specials
  <2>3. QED
    BY <2>1, <2>2, Specials
<1>4. Present = here
  BY <1>1, <1>3 DEF Present
<1>5. Shared <=> many
  BY <1>4 DEF Shared
<1>6. flat = [x \in Names \cup {Plain} |->
                IF Old /\ \E u \in here : OldName(u, many) = x THEN first[chosen(x)] ELSE Absent]
  BY <1>1
<1>7. \A x : (\E u \in here : OldName(u, many) = x) => chosen(x) \in here /\ OldName(chosen(x), many) = x
  OBVIOUS
<1>8. \A u \in Accounts : nick[u] \in Names /\ nick[u] # Plain
  BY <1>2
<1>9. \A u, v \in Accounts : nick[u] = nick[v] => u = v
  BY <1>2, DistinctNames
<1> HIDE DEF first, many, chosen
<1>10. \A u \in Accounts : flat[nick[u]].by \in {u, NoOne}
  <2> SUFFICES ASSUME NEW u \in Accounts PROVE flat[nick[u]].by \in {u, NoOne}
    OBVIOUS
  <2>1. CASE Old /\ \E v \in here : OldName(v, many) = nick[u]
    <3>1. chosen(nick[u]) \in here /\ OldName(chosen(nick[u]), many) = nick[u]
      BY <1>7, <2>1
    <3>2. chosen(nick[u]) \in Accounts /\ nick[chosen(nick[u])] = nick[u]
      BY <1>8, <3>1 DEF OldName
    <3>3. chosen(nick[u]) = u
      BY <1>9, <3>2
    <3>4. QED
      BY <1>3, <1>6, <1>8, <2>1, <3>3
  <2>2. CASE ~(Old /\ \E v \in here : OldName(v, many) = nick[u])
    BY <1>6, <1>8, <2>2, Specials
  <2>3. QED
    BY <2>1, <2>2
<1>11. ~Shared => \A u \in Present : flat[Plain].by \in {u, NoOne}
  <2> SUFFICES ASSUME ~Shared, NEW u \in Present PROVE flat[Plain].by \in {u, NoOne}
    OBVIOUS
  <2>1. \A v \in here : v = u
    BY <1>4, TwoShare
  <2>2. flat[Plain] = Absent \/ flat[Plain] = first[u]
    BY <1>6, <1>7, <2>1
  <2>3. QED
    BY <1>3, <2>2, Specials DEF Present
<1>12. OwnSave
  BY <1>1, <1>3 DEF OwnSave, first
<1>13. OwnBackup
  BY <1>2, Specials DEF OwnBackup
<1>14. \A u \in Accounts : Mine(u) = {nick[u]}
  BY <1>2, <1>8 DEF Mine
<1>15. \A u, v \in Accounts : u # v => Mine(u) \cap Mine(v) = {}
  BY <1>9, <1>14
<1>16. QED
  BY <1>2, <1>4, <1>8, <1>10, <1>11, <1>12, <1>13, <1>14, <1>15 DEF OwnInv

-----------------------------------------------------------------------------
(* Each operation keeps it.                                                *)

\* A step after which the same accounts have savedata, or more of them.
LEMMA SharedGrows ==
    ASSUME TypeOK, TypeOK', Present \subseteq Present', ~Shared', Present # {}
    PROVE  ~Shared /\ Present' = Present
<1>1. IsFiniteSet(Present')
  <2>1. Present' \in SUBSET Accounts
    BY DEF Present
  <2>2. QED
    BY <2>1, FS_Subset
<1>2. \A u \in Present', v \in Present' : u = v
  BY <1>1, TwoElements DEF Shared
<1>3. Present' = Present
  BY <1>2
<1>4. QED
  BY <1>3 DEF Shared

\* An account that plays changes its own savedata, its own line, a folder that it
\* claims or created, and its folder of the old layout.
LEMMA OwnStep ==
    ASSUME TypeOK, TypeOK', OwnInv, NEW u \in Present, nick' = nick,
           \A v \in Accounts \ {u} : save'[v] = save[v] /\ recall'[v] = recall[v],
           save'[u] # Absent, save'[u].by \in {u, NoOne},
           recall'[u] \in {recall[u], Path(u), FlatName},
           \A x \in Names :
              \/ dir'[x] = dir[x] /\ owner'[x] = owner[x]
              \/ /\ x = Path(u) \/ owner[x] = u
                 /\ dir'[x] # Absent /\ dir'[x].by \in {u, NoOne} /\ owner'[x] = u,
           \A y \in Names \cup {Plain} :
              \/ flat'[y].by = flat[y].by
              \/ y = OldName(u, Shared) /\ flat'[y].by \in {u, NoOne}
    PROVE  OwnInv'
<1>1. u \in Accounts /\ Path(u) \in Names /\ Path(u) \in Mine(u) /\ nick[u] \in Mine(u) /\ nick[u] # Plain
  BY PathName DEF Present, Path, Mine, TypeOK
<1>2. Present' = Present /\ (Shared' <=> Shared)
  <2>1. \A v \in Accounts : save'[v] = Absent <=> save[v] = Absent
    BY <1>1 DEF Present
  <2>2. Present' = Present
    BY <2>1 DEF Present
  <2>3. QED
    BY <2>2 DEF Shared
<1>3. \A v \in Accounts : Mine(v)' \subseteq Mine(v)
  <2>1. \A v \in Accounts : recall'[v] \in {recall[v], FlatName} \/ (v = u /\ recall'[v] \in Mine(u))
    BY <1>1
  <2>2. QED
    BY <2>1 DEF Mine
<1>4. \A v \in Accounts \ {u} : Mine(v) \cap Mine(u) = {}
  BY <1>1 DEF OwnInv
<1>5. OwnSave'
  BY <1>1 DEF OwnInv, OwnSave
<1>6. \A x \in Names : dir'[x] = Absent <=> owner'[x] = NoOne
  BY <1>1 DEF OwnInv
<1>7. OwnBackup'
  BY <1>1 DEF OwnInv, OwnBackup
<1>8. ASSUME NEW v \in Accounts, NEW x \in Mine(v)' PROVE owner'[x] \in {v, NoOne}
  <2>1. x \in Names /\ x \in Mine(v) /\ owner[x] \in {v, NoOne}
    BY <1>3, <1>8 DEF Mine, OwnInv
  <2>2. CASE owner'[x] = owner[x]
    BY <2>1, <2>2
  <2>3. CASE owner'[x] = u /\ (x = Path(u) \/ owner[x] = u)
    <3>1. CASE v = u
      BY <2>3, <3>1
    <3>2. CASE v # u
      <4>1. x # Path(u)
        BY <1>1, <1>4, <2>1, <3>2
      <4>2. owner[x] = u
        BY <2>3, <4>1
      <4>3. QED
        BY <1>1, <2>1, <3>2, <4>2
    <3>3. QED
      BY <3>1, <3>2
  <2>4. QED
    BY <2>1, <2>2, <2>3
<1>9. ASSUME NEW v \in Accounts PROVE flat'[nick'[v]].by \in {v, NoOne}
  <2>1. nick[v] \in Names /\ nick[v] \in Mine(v) /\ flat[nick[v]].by \in {v, NoOne}
    BY DEF TypeOK, Mine, OwnInv
  <2>2. CASE nick[v] = OldName(u, Shared)
    <3>1. nick[v] = nick[u]
      BY <2>1, <2>2 DEF OldName
    <3>2. v = u
      BY <1>1, <1>4, <2>1, <3>1
    <3>3. QED
      BY <2>1, <3>2
  <2>3. QED
    BY <2>1, <2>2
<1>10. ~Shared' => \A v \in Present' : /\ flat'[Plain].by \in {v, NoOne}
                                       /\ \A x \in Names : owner'[x] \in {v, NoOne}
  <2> SUFFICES ASSUME ~Shared, NEW v \in Present
               PROVE  /\ flat'[Plain].by \in {v, NoOne}
                      /\ \A x \in Names : owner'[x] \in {v, NoOne}
    BY <1>2
  <2>1. v = u
    BY TwoShare
  <2>2. flat[Plain].by \in {u, NoOne} /\ \A x \in Names : owner[x] \in {u, NoOne}
    BY DEF OwnInv
  <2>3. QED
    BY <2>1, <2>2
<1>11. QED
  BY <1>2, <1>3, <1>5, <1>6, <1>7, <1>8, <1>9, <1>10 DEF OwnInv

LEMMA PutOwn ==
    ASSUME TypeOK, OwnInv, NEW u \in Present, Put(u, save[u])
    PROVE  /\ \A v \in Accounts \ {u} : recall'[v] = recall[v]
           /\ recall'[u] = Path(u)
           /\ \A x \in Names :
              \/ dir'[x] = dir[x] /\ owner'[x] = owner[x]
              \/ /\ x = Path(u) \/ owner[x] = u
                 /\ dir'[x] # Absent /\ dir'[x].by \in {u, NoOne} /\ owner'[x] = u
<1>1. u \in Accounts /\ Path(u) \in Names /\ Path(u) \in Mine(u) /\ save[u] # Absent
  BY PathName DEF Present, Path, Mine, TypeOK
<1>2. save[u].by \in {u, NoOne} /\ owner[Path(u)] \in {u, NoOne}
  BY <1>1 DEF OwnInv, OwnSave
<1>3. dir'[Path(u)] = save[u] /\ owner'[Path(u)] = u /\ recall'[u] = Path(u)
  <2>1. dir[Path(u)] # Absent => owner[Path(u)] = u
    BY <1>1, <1>2 DEF OwnInv
  <2>2. QED
    BY <1>1, <2>1 DEF Put, TypeOK
<1>4. \A x \in Names \ {Path(u)} : dir'[x] = dir[x] /\ owner'[x] = owner[x]
  BY DEF Put, TypeOK
<1>5. QED
  BY <1>1, <1>2, <1>3, <1>4 DEF Put, TypeOK

LEMMA JoinOwn ==
    ASSUME TypeOK, TypeOK', OwnInv, NEW u \in Accounts, Join(u)
    PROVE  OwnInv'
<1>1. /\ save[u] = Absent /\ save' = [save EXCEPT ![u] = Empty]
      /\ UNCHANGED <<nick, recall, dir, flat, owner>>
  BY DEF Join, card, cloud, ghosts
<1>2. Present' = Present \cup {u} /\ u \notin Present /\ Present # {}
  BY <1>1, Specials DEF Present, TypeOK, OwnInv
<1>3. Shared'
  <2>1. PICK v \in Present : TRUE
    BY <1>2
  <2>2. u \in Present' /\ v \in Present' /\ u # v
    BY <1>2, <2>1
  <2>3. IsFiniteSet(Present')
    BY <1>2, PresentFinite, FS_AddElement
  <2>4. QED
    BY <2>2, <2>3, TwoElements DEF Shared
<1>4. OwnSave'
  BY <1>1, Specials DEF OwnInv, OwnSave, TypeOK
<1>5. QED
  BY <1>1, <1>2, <1>3, <1>4 DEF OwnInv, OwnBackup, Mine

LEMMA LeaveOwn ==
    ASSUME Stay >= 2, TypeOK, OwnInv, NEW u \in Accounts, Leave(u)
    PROVE  OwnInv'
<1>1. /\ save' = [save EXCEPT ![u] = Absent] /\ UNCHANGED <<nick, recall, dir, flat, owner>>
  BY DEF Leave, card, cloud, ghosts
<1>2. Shared'
  BY SharedStays
<1>3. Present' # {}
  <2>1. Cardinality({}) = 0
    BY FS_EmptySet
  <2>2. QED
    BY <1>2, <2>1 DEF Shared
<1>4. OwnSave'
  BY <1>1, Specials DEF OwnInv, OwnSave, TypeOK
<1>5. QED
  BY <1>1, <1>2, <1>3, <1>4 DEF OwnInv, OwnBackup, Mine

LEMMA RenameOwn ==
    ASSUME TypeOK, OwnInv, NEW u \in Accounts, NEW x \in Names, Rename(u, x)
    PROVE  OwnInv'
<1>1. /\ x \notin {nick[v] : v \in Accounts} /\ x \notin {recall[v] : v \in Accounts}
      /\ dir[x] = Absent /\ flat[x] = Absent
      /\ nick' = [nick EXCEPT ![u] = x]
      /\ UNCHANGED <<save, recall, dir, flat, owner>>
  BY DEF Rename, card, cloud, ghosts
<1>2. \A v \in Accounts : x \notin Mine(v)
  BY <1>1 DEF Mine
<1>3. Mine(u)' \subseteq Mine(u) \cup {x} /\ \A v \in Accounts \ {u} : Mine(v)' = Mine(v)
  BY <1>1 DEF Mine, TypeOK
<1>4. owner[x] = NoOne /\ flat[x].by = NoOne
  BY <1>1, Specials DEF OwnInv
<1>5. Present' = Present /\ (Shared' <=> Shared)
  <2>1. Present' = Present
    BY <1>1 DEF Present
  <2>2. QED
    BY <2>1 DEF Shared
<1>6. \A v, w \in Accounts : v # w => Mine(v)' \cap Mine(w)' = {}
  BY <1>2, <1>3 DEF OwnInv
<1>7. \A v \in Accounts : \A y \in Mine(v)' : owner'[y] \in {v, NoOne}
  <2> SUFFICES ASSUME NEW v \in Accounts, NEW y \in Mine(v)' PROVE owner[y] \in {v, NoOne}
    BY <1>1
  <2>1. CASE y = x
    BY <1>4, <2>1
  <2>2. CASE y # x
    BY <1>3, <2>2 DEF OwnInv
  <2>3. QED
    BY <2>1, <2>2
<1>8. \A v \in Accounts : flat'[nick'[v]].by \in {v, NoOne}
  <2> SUFFICES ASSUME NEW v \in Accounts PROVE flat[nick'[v]].by \in {v, NoOne}
    BY <1>1
  <2>1. CASE v = u
    BY <1>1, <1>4, <2>1 DEF TypeOK
  <2>2. CASE v # u
    BY <1>1, <2>2 DEF OwnInv, TypeOK
  <2>3. QED
    BY <2>1, <2>2
<1>9. OwnSave' /\ OwnBackup'
  BY <1>1 DEF OwnInv, OwnSave, OwnBackup
<1>10. QED
  BY <1>1, <1>5, <1>6, <1>7, <1>8, <1>9 DEF OwnInv

LEMMA ForgetOwn ==
    ASSUME TypeOK, OwnInv, NEW u \in Accounts, Forget(u)
    PROVE  OwnInv'
<1>1. /\ recall' = [recall EXCEPT ![u] = NoName]
      /\ UNCHANGED <<save, nick, dir, flat, owner>>
  BY DEF Forget, console, cloud
<1>2. \A v \in Accounts : Mine(v)' \subseteq Mine(v)
  <2>1. \A v \in Accounts : recall'[v] \in {recall[v], NoName}
    BY <1>1 DEF TypeOK
  <2>2. QED
    BY <1>1, <2>1 DEF Mine
<1>3. Present' = Present /\ (Shared' <=> Shared)
  <2>1. Present' = Present
    BY <1>1 DEF Present
  <2>2. QED
    BY <2>1 DEF Shared
<1>4. OwnSave' /\ OwnBackup'
  BY <1>1 DEF OwnInv, OwnSave, OwnBackup
<1>5. QED
  BY <1>1, <1>2, <1>3, <1>4 DEF OwnInv

LEMMA PlayOwn ==
    ASSUME TypeOK, TypeOK', OwnInv, NEW u \in Accounts, Play(u)
    PROVE  OwnInv'
<1>1. /\ u \in Present /\ save'[u].by = u /\ save'[u].n = played' /\ played' = played + 1
      /\ \A v \in Accounts \ {u} : save'[v] = save[v]
      /\ UNCHANGED <<nick, recall, dir, flat, owner>>
  BY DEF Play, Present, TypeOK, card, cloud, ghosts
<1>2. save'[u] # Absent
  BY <1>1, Specials
<1>3. QED
  BY <1>1, <1>2, OwnStep

LEMMA UploadOwn ==
    ASSUME TypeOK, TypeOK', OwnInv, NEW u \in Present, Put(u, save[u]), UNCHANGED console
    PROVE  OwnInv'
<1>1. u \in Accounts /\ save[u] # Absent /\ save[u].by \in {u, NoOne}
  BY DEF Present, OwnInv, OwnSave
<1>2. flat' = flat /\ save' = save /\ nick' = nick
  BY DEF Put, console
<1>3. QED
  BY <1>1, <1>2, PutOwn, OwnStep

\* What is written into the savedata was found.
LEMMA TakenMine ==
    ASSUME TypeOK, OwnInv, NEW u \in Present, NEW seen, NEW p \in Lookup(u, seen)
    PROVE  Download(p).by \in {u, NoOne} /\ Download(p) # Absent
<1>1. Download(p) \in Found /\ Download(p).by = From(p).by
  BY LookupMine, DownloadType
<1>2. QED
  BY <1>1, LookupMine, Specials

LEMMA RecallOwn ==
    ASSUME TypeOK, NEW u \in Accounts, NEW p, recall' = RecallOf(u, p)
    PROVE  /\ \A v \in Accounts \ {u} : recall'[v] = recall[v]
           /\ recall'[u] = IF p[1] = "flat" THEN FlatName ELSE Path(u)
  BY DEF RecallOf, TypeOK

LEMMA OperationOwn ==
    ASSUME TypeOK, TypeOK', OwnInv, NEW u \in Accounts, NEW seen, Operation(u, seen)
    PROVE  OwnInv'
<1>1. u \in Present /\ save[u].by \in {u, NoOne} /\ save[u] # Absent
  BY DEF Operation, Restore, FirstSync, SyncDown, SyncUp, SyncSees, Present, OwnInv, OwnSave
<1>2. CASE Restore(u, seen)
  <2>1. PICK p \in Lookup(u, seen) : save' = [save EXCEPT ![u] = Download(p)]
    BY <1>2 DEF Restore
  <2>2. save'[u] = Download(p) /\ \A v \in Accounts \ {u} : save'[v] = save[v]
    BY <2>1 DEF TypeOK
  <2>3. UNCHANGED <<nick, recall, dir, flat, owner>>
    BY <1>2 DEF Restore, cloud, ghosts
  <2>4. QED
    BY <1>1, <2>1, <2>2, <2>3, TakenMine, OwnStep
<1>3. CASE FirstSync(u, seen)
  BY <1>1, <1>3, UploadOwn DEF FirstSync
<1>4. CASE SyncDown(u, seen)
  <2>1. PICK p \in Lookup(u, seen) :
          recall' = RecallOf(u, p) /\ save' = [save EXCEPT ![u] = Download(p)]
    BY <1>4 DEF SyncDown
  <2>2. save'[u] = Download(p) /\ \A v \in Accounts \ {u} : save'[v] = save[v]
    BY <2>1 DEF TypeOK
  <2>3. UNCHANGED <<nick, dir, flat, owner>>
    BY <1>4 DEF SyncDown, cloud
  <2>4. QED
    BY <1>1, <2>1, <2>2, <2>3, TakenMine, RecallOwn, OwnStep
<1>5. CASE SyncUp(u, seen)
  <2>1. PICK p \in Lookup(u, seen) :
          /\ recall' = RecallOf(u, p)
          /\ dir' = IF p[1] = "own" THEN [dir EXCEPT ![p[2]] = save[u]] ELSE dir
          /\ flat' = CASE p[1] = "own"  -> flat
                       [] p[1] = "flat" -> [flat EXCEPT ![p[2]] = save[u]]
                       [] p[1] = "part" -> [flat EXCEPT ![Plain].whole = FALSE]
    BY <1>5 DEF SyncUp
  <2>2. UNCHANGED <<save, nick, owner>>
    BY <1>5 DEF SyncUp, console
  <2>3. /\ Place(p)
        /\ p[1] = "own" => p[2] \in Names /\ owner[p[2]] = u
        /\ p[1] = "flat" => p[2] = OldName(u, Shared)
    BY <1>1, LookupMine
  <2>4. p[1] \in {"own", "part", "flat"} /\ (p[1] = "part" => flat[Plain] \in Saves)
        /\ OldName(u, Shared) \in Names \cup {Plain}
    BY <2>3 DEF Place, OldName, TypeOK
  <2>5. \A x \in Names : dir'[x] = dir[x] \/ (owner[x] = u /\ dir'[x] = save[u])
    BY <2>1, <2>3 DEF TypeOK
  <2>6. \A y \in Names \cup {Plain} :
          flat'[y].by = flat[y].by \/ (y = OldName(u, Shared) /\ flat'[y].by \in {u, NoOne})
    <3>1. CASE p[1] = "own"
      BY <2>1, <3>1
    <3>2. CASE p[1] = "flat"
      BY <1>1, <2>1, <2>3, <2>4, <3>2 DEF TypeOK
    <3>3. CASE p[1] = "part"
      <4>1. flat' = [flat EXCEPT ![Plain] = [flat[Plain] EXCEPT !.whole = FALSE]]
        BY <2>1, <3>3
      <4>2. QED
        BY <2>4, <3>3, <4>1, Cut DEF TypeOK
    <3>4. QED
      BY <2>4, <3>1, <3>2, <3>3
  <2>7. QED
    BY <1>1, <2>1, <2>2, <2>5, <2>6, RecallOwn, OwnStep
<1>6. CASE SyncSees(u, seen)
  <2>1. PICK p \in Lookup(u, seen) : recall' = RecallOf(u, p)
    BY <1>6 DEF SyncSees
  <2>2. UNCHANGED <<save, nick, dir, flat, owner>>
    BY <1>6 DEF SyncSees, console, cloud
  <2>3. QED
    BY <1>1, <2>1, <2>2, RecallOwn, OwnStep
<1>7. QED
  BY <1>2, <1>3, <1>4, <1>5, <1>6 DEF Operation

LEMMA NextOwn ==
    ASSUME Stay >= 2 PROVE TypeOK /\ OwnInv /\ [Next]_vars => OwnInv'
<1> SUFFICES ASSUME TypeOK, OwnInv, [Next]_vars PROVE OwnInv'
  OBVIOUS
<1>1. TypeOK'
  BY NextType
<1>2. CASE UNCHANGED vars
  <2>1. UNCHANGED <<save, nick, recall, dir, flat, owner>>
    BY <1>2 DEF vars, console, card, cloud, ghosts
  <2>2. Present' = Present
    BY <2>1 DEF Present
  <2>3. QED
    BY <2>1, <2>2 DEF OwnInv, OwnSave, OwnBackup, Mine, Shared
<1>3. ASSUME NEW u \in Accounts, Upload(u) PROVE OwnInv'
  BY <1>1, <1>3, UploadOwn DEF Upload, Present
<1>4. QED
  BY <1>1, <1>2, <1>3, JoinOwn, LeaveOwn, PlayOwn, ForgetOwn, RenameOwn, OperationOwn DEF Next

LEMMA OwnInvariant == ASSUME Stay >= 2, DistinctNames PROVE Spec => [](TypeOK /\ OwnInv)
<1>1. Init => TypeOK /\ OwnInv
  BY InitType, InitOwn
<1>2. TypeOK /\ OwnInv /\ [Next]_vars => TypeOK' /\ OwnInv'
  BY NextType, NextOwn
<1>3. QED
  BY <1>1, <1>2, PTL DEF Spec

\* Nobody is ever given another account's save, however accounts come, go and
\* change their names, and whatever lines and lookups are lost.
THEOREM NobodyGetsAnothers == ASSUME Stay >= 2, DistinctNames PROVE Spec => []OwnSave
<1>1. OwnInv => OwnSave
  BY DEF OwnInv
<1>2. QED
  BY OwnInvariant, <1>1, PTL

\* Nobody's upload lands in a folder another account created.
THEOREM NobodyWritesAnothers == ASSUME Stay >= 2, DistinctNames PROVE Spec => []OwnBackup
<1>1. OwnInv => OwnBackup
  BY DEF OwnInv
<1>2. QED
  BY OwnInvariant, <1>1, PTL

-----------------------------------------------------------------------------
(* No backup is orphaned.  An account that once created a folder, and of    *)
(* which neither the line nor a lookup was lost since, has its line, and    *)
(* its last upload went there.                                             *)

Home(u) ==
    IF \E x \in Names : owner[x] = u
    THEN recall[u] \in Names /\ dir[recall[u]] # Absent /\ sent[u] = <<"own", recall[u]>>
    ELSE sent[u] = <<>> \/ sent[u][1] # "own"

HomeInv ==
    /\ sent \in [Accounts -> {<<>>} \cup ({"own", "part", "flat"} \X (Names \cup {Plain}))]
    /\ \A u \in Accounts \ astray : Home(u)

\* The line is followed whenever every question is answered.
LEMMA FoundAtHome ==
    ASSUME NEW u \in Accounts, recall[u] \in Names, dir[recall[u]] # Absent
    PROVE  Lookup(u, All) = {<<"own", recall[u]>>}
<1>1. Path(u) = recall[u] /\ Game /\ "game" \in All /\ "owner" \in All
  BY DEF Path, Game, All
<1>2. Nested(u, All) = {<<"own", recall[u]>>}
  BY <1>1 DEF Nested
<1>3. QED
  BY <1>2 DEF Lookup

\* A step of another account takes nothing of this away.
LEMMA HomeOfOthers ==
    ASSUME NEW v, Home(v), recall'[v] = recall[v], sent'[v] = sent[v],
           \A x \in Names : owner'[x] = v <=> owner[x] = v,
           \A x \in Names : dir[x] # Absent => dir'[x] # Absent
    PROVE  Home(v)'
  BY DEF Home

\* Nor does a step that leaves lines, folders and uploads alone.
LEMMA HomeKept ==
    ASSUME HomeInv, UNCHANGED <<recall, dir, owner, sent, astray>> PROVE HomeInv'
  BY DEF HomeInv, Home

LEMMA PutHome ==
    ASSUME TypeOK, OwnInv, HomeInv, NEW u \in Present, Put(u, save[u])
    PROVE  HomeInv'
<1>1. /\ u \in Accounts /\ Path(u) \in Names /\ Path(u) \in Mine(u) /\ save[u] # Absent
      /\ owner[Path(u)] \in {u, NoOne}
  BY PathName DEF Present, Path, Mine, TypeOK, OwnInv
<1>2. /\ sent' = [sent EXCEPT ![u] = <<"own", Path(u)>>] /\ astray' = astray \ {u}
      /\ recall' = [recall EXCEPT ![u] = Path(u)] /\ dir' = [dir EXCEPT ![Path(u)] = save[u]]
  BY DEF Put
<1>3. owner'[Path(u)] = u /\ \A x \in Names \ {Path(u)} : owner'[x] = owner[x]
  <2>1. dir[Path(u)] # Absent => owner[Path(u)] = u
    BY <1>1 DEF OwnInv
  <2>2. QED
    BY <1>1, <2>1 DEF Put, TypeOK
<1>4. Home(u)'
  <2>1. recall'[u] = Path(u) /\ dir'[Path(u)] = save[u] /\ sent'[u] = <<"own", Path(u)>>
    BY <1>1, <1>2 DEF TypeOK, HomeInv
  <2>2. QED
    BY <1>1, <1>3, <2>1 DEF Home
<1>5. ASSUME NEW v \in Accounts \ {u}, v \notin astray' PROVE Home(v)'
  <2>1. Home(v)
    BY <1>2, <1>5 DEF HomeInv
  <2>2. recall'[v] = recall[v] /\ sent'[v] = sent[v]
    BY <1>2, <1>5 DEF TypeOK, HomeInv
  <2>3. \A x \in Names : owner'[x] = v <=> owner[x] = v
    BY <1>1, <1>3, <1>5
  <2>4. \A x \in Names : dir[x] # Absent => dir'[x] # Absent
    BY <1>1, <1>2 DEF TypeOK
  <2>5. QED
    BY <2>1, <2>2, <2>3, <2>4, HomeOfOthers
<1>6. sent' \in [Accounts -> {<<>>} \cup ({"own", "part", "flat"} \X (Names \cup {Plain}))]
  BY <1>1, <1>2 DEF HomeInv
<1>7. QED
  BY <1>4, <1>5, <1>6 DEF HomeInv

\* A sync that found p follows the line when every question was answered.
LEMMA SyncHome ==
    ASSUME TypeOK, OwnInv, HomeInv, NEW u \in Present, NEW seen, NEW p \in Lookup(u, seen),
           recall' = RecallOf(u, p), Missed(u, seen), owner' = owner,
           sent' = sent \/ sent' = [sent EXCEPT ![u] = p],
           \A x \in Names : dir[x] # Absent => dir'[x] # Absent
    PROVE  HomeInv'
<1>1. u \in Accounts /\ Place(p)
  BY LookupMine DEF Present
<1>2. ASSUME NEW v \in Accounts \ {u}, v \notin astray' PROVE Home(v)'
  <2>1. Home(v) /\ recall'[v] = recall[v] /\ sent'[v] = sent[v]
    BY <1>1, <1>2, RecallOwn DEF HomeInv, Missed
  <2>2. QED
    BY <2>1, HomeOfOthers
<1>3. ASSUME u \notin astray' PROVE Home(u)'
  <2>1. seen = All /\ u \notin astray /\ Home(u)
    BY <1>1, <1>3 DEF Missed, HomeInv
  <2>2. /\ recall'[u] = IF p[1] = "flat" THEN FlatName ELSE Path(u)
        /\ sent'[u] = sent[u] \/ sent'[u] = p
    BY <1>1, RecallOwn DEF HomeInv
  <2>3. CASE \E x \in Names : owner[x] = u
    <3>1. recall[u] \in Names /\ dir[recall[u]] # Absent /\ sent[u] = <<"own", recall[u]>>
      BY <2>1, <2>3 DEF Home
    <3>2. p = <<"own", recall[u]>> /\ Path(u) = recall[u]
      BY <1>1, <2>1, <3>1, FoundAtHome DEF Path
    <3>3. recall'[u] = recall[u] /\ sent'[u] = <<"own", recall[u]>>
      BY <2>2, <3>1, <3>2
    <3>4. QED
      BY <2>3, <3>1, <3>3 DEF Home
  <2>4. CASE ~\E x \in Names : owner[x] = u
    <3>1. p[1] # "own"
      BY <2>4, LookupMine
    <3>2. sent[u] = <<>> \/ sent[u][1] # "own"
      BY <2>1, <2>4 DEF Home
    <3>3. QED
      BY <2>2, <2>4, <3>1, <3>2 DEF Home
  <2>5. QED
    BY <2>3, <2>4
<1>4. p \in {"own", "part", "flat"} \X (Names \cup {Plain})
  BY <1>1 DEF Place
<1>5. sent' \in [Accounts -> {<<>>} \cup ({"own", "part", "flat"} \X (Names \cup {Plain}))]
  BY <1>1, <1>4 DEF HomeInv
<1>6. QED
  BY <1>2, <1>3, <1>5 DEF HomeInv

LEMMA NextHome == TypeOK /\ OwnInv /\ HomeInv /\ [Next]_vars => HomeInv'
<1> SUFFICES ASSUME TypeOK, OwnInv, HomeInv, [Next]_vars PROVE HomeInv'
  OBVIOUS
<1> USE DEF console, card, cloud, ghosts
<1>1. CASE UNCHANGED vars
  BY <1>1, HomeKept DEF vars
<1>2. ASSUME NEW u \in Accounts, Join(u) \/ Leave(u) \/ Play(u) \/ \E x \in Names : Rename(u, x)
      PROVE  HomeInv'
  BY <1>2, HomeKept DEF Join, Leave, Play, Rename
<1>3. ASSUME NEW u \in Accounts, Forget(u) PROVE HomeInv'
  <2>1. /\ recall' = [recall EXCEPT ![u] = NoName] /\ astray' = astray \cup {u}
        /\ UNCHANGED <<dir, owner, sent>>
    BY <1>3 DEF Forget
  <2>2. ASSUME NEW v \in Accounts, v \notin astray' PROVE Home(v)'
    <3>1. Home(v) /\ v # u
      BY <2>1, <2>2 DEF HomeInv
    <3>2. QED
      BY <2>1, <3>1, HomeOfOthers DEF TypeOK
  <2>3. QED
    BY <2>1, <2>2 DEF HomeInv
<1>4. ASSUME NEW u \in Accounts, Upload(u) PROVE HomeInv'
  BY <1>4, PutHome DEF Upload, Present
<1>5. ASSUME NEW u \in Accounts, NEW seen, Operation(u, seen) PROVE HomeInv'
  <2>1. u \in Present
    BY <1>5 DEF Operation, Restore, FirstSync, SyncDown, SyncUp, SyncSees, Present
  <2>2. CASE Restore(u, seen)
    BY <2>2, HomeKept DEF Restore
  <2>3. CASE FirstSync(u, seen)
    BY <2>1, <2>3, PutHome DEF FirstSync
  <2>4. CASE SyncDown(u, seen) \/ SyncSees(u, seen)
    <3>1. PICK p \in Lookup(u, seen) : recall' = RecallOf(u, p)
      BY <2>4 DEF SyncDown, SyncSees
    <3>2. Missed(u, seen) /\ UNCHANGED <<dir, owner, sent>>
      BY <2>4 DEF SyncDown, SyncSees
    <3>3. QED
      BY <2>1, <3>1, <3>2, SyncHome
  <2>5. CASE SyncUp(u, seen)
    <3>1. PICK p \in Lookup(u, seen) :
            /\ recall' = RecallOf(u, p) /\ sent' = [sent EXCEPT ![u] = p]
            /\ dir' = IF p[1] = "own" THEN [dir EXCEPT ![p[2]] = save[u]] ELSE dir
      BY <2>5 DEF SyncUp
    <3>2. Missed(u, seen) /\ owner' = owner /\ save[u] # Absent
      BY <2>5 DEF SyncUp
    <3>3. \A x \in Names : dir[x] # Absent => dir'[x] # Absent
      BY <3>1, <3>2 DEF TypeOK
    <3>4. QED
      BY <2>1, <3>1, <3>2, <3>3, SyncHome
  <2>6. QED
    BY <1>5, <2>2, <2>3, <2>4, <2>5 DEF Operation
<1>6. QED
  BY <1>1, <1>2, <1>3, <1>4, <1>5 DEF Next

\* The next lookup for an account finds the folder its last upload went to,
\* unless its line, or a lookup of it, was lost in between.
THEOREM NoBackupIsOrphaned == ASSUME Stay >= 2, DistinctNames PROVE Spec => []NotOrphaned
<1>1. Init => HomeInv
  <2> SUFFICES ASSUME Init PROVE HomeInv
    OBVIOUS
  <2>1. sent = [u \in Accounts |-> <<>>] /\ owner = [x \in Names |-> NoOne]
    BY DEF Init
  <2>2. QED
    BY <2>1 DEF HomeInv, Home
<1>2. TypeOK /\ OwnInv /\ HomeInv => NotOrphaned
  <2> SUFFICES ASSUME HomeInv, NEW u \in Present \ astray, sent[u] # <<>>, sent[u][1] = "own"
               PROVE  Lookup(u, All) = {sent[u]}
    BY DEF NotOrphaned
  <2>1. u \in Accounts /\ Home(u)
    BY DEF Present, HomeInv
  <2>2. recall[u] \in Names /\ dir[recall[u]] # Absent /\ sent[u] = <<"own", recall[u]>>
    BY <2>1 DEF Home
  <2>3. QED
    BY <2>1, <2>2, FoundAtHome
<1>3. QED
  BY OwnInvariant, <1>1, <1>2, NextHome, PTL DEF Spec
=============================================================================
