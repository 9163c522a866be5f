---------------------------- MODULE CloudFolders ----------------------------
(***************************************************************************)
(* Where in the cloud the saves of one game live (core/syncjob.c, the      *)
(* folder registry of core/syncstate.c, the folder calls of core/cloud.c). *)
(*                                                                         *)
(* A save is kept in <Game>/<Owner>, named by the nickname of its account, *)
(* which the console lets people change; pastas.txt remembers the folder   *)
(* of each account.  Older versions kept it in <Game>, or in               *)
(* <Game> (<Owner>) when the game had several saves: nothing is moved, and *)
(* <Game> is now also the folder the owners' folders are in.  A reader     *)
(* looks in three places and never creates one.                            *)
(*                                                                         *)
(* An upload or a download is one step here; what happens when it stops    *)
(* halfway is in BackupQueue and SyncTitle.  pastas.txt is rewritten in    *)
(* place without a lock: its line of an account is lost when the console   *)
(* dies there, and missed when another program reads it there.             *)
(***************************************************************************)
EXTENDS Integers, FiniteSets

CONSTANTS
    Accounts,
    Device,     \* the account that stands for the console's own save
    Names,      \* nicknames
    Nick,       \* Nick[u]: the name u starts with; the device save's is "console"
    Plain,      \* the name of the game, as a folder of the old layout
    NoOne,
    NoName,     \* no line in pastas.txt
    FlatName,   \* a line of the old layout: a name without a slash
    Old,        \* whether the saves were backed up by an older version
    OneDir,     \* whether saves of this game hold exactly one directory
    Stay,       \* savedata is removed only while more accounts than this have one
    MaxSave, MaxRenames, MaxMishaps

ASSUME FoldersAssumption ==
    /\ Nick \in [Accounts -> Names] /\ NoOne \notin Accounts
    /\ Plain \notin Names /\ NoName \notin Names /\ FlatName \notin Names
    /\ NoName # FlatName
    /\ Old \in BOOLEAN /\ OneDir \in BOOLEAN /\ Stay \in Nat
    /\ MaxSave \in Nat \ {0} /\ MaxRenames \in Nat /\ MaxMishaps \in Nat
    /\ IsFiniteSet(Accounts)
\* Accounts of the same nickname would share a folder.
ASSUME DistinctNames == \A u, v \in Accounts : Nick[u] = Nick[v] => u = v

\* A save: who played it, when (a count of all saves played), and whether it is
\* all of it and nothing else.
Saves  == [by : Accounts, n : 1..MaxSave, whole : BOOLEAN]
Empty  == [by |-> NoOne, n |-> 0, whole |-> TRUE]    \* a folder without files
Absent == [by |-> NoOne, n |-> -1, whole |-> TRUE]   \* no folder, no savedata
Found  == Saves \cup {Empty}

VARIABLES
    save,    \* save[u]: the savedata of u on the console
    nick,    \* nick[u]
    recall,  \* recall[u]: the line of pastas.txt
    marker,  \* marker[NoOne]: rev-<game>.txt; marker[u]: rev-<game>-<u>.txt
    dir,     \* dir[x]: the folder <Game>/<x>
    flat,    \* flat[x]: the folder <Game> (<x>); flat[Plain]: the files of <Game>
    owner,   \* owner[x]: whose upload created dir[x]
    sent,    \* sent[u]: where u's last upload went
    astray,  \* accounts whose line was lost, or a lookup of whom was, since then
    played, renames, mishaps

console == <<save, nick>>
card    == <<recall, marker>>
cloud   == <<dir, flat>>
ghosts  == <<owner, sent, astray>>
vars    == <<console, card, cloud, ghosts, played, renames, mishaps>>

Present == {u \in Accounts : save[u] # Absent}
Shared == Cardinality(Present) > 1
\* The old name of u's folder.
OldName(u, s) == IF s THEN nick[u] ELSE Plain
Mark(u) == IF Shared THEN u ELSE NoOne

Init ==
    /\ nick = Nick
    /\ \E here \in (SUBSET Accounts) \ {{}} :
          LET first == [u \in Accounts |->
                           IF u \in here THEN [by |-> u, n |-> 1, whole |-> TRUE] ELSE Absent]
              many == Cardinality(here) > 1
          IN /\ save = first
             /\ flat = [x \in Names \cup {Plain} |->
                           IF Old /\ \E u \in here : OldName(u, many) = x
                           THEN first[CHOOSE u \in here : OldName(u, many) = x] ELSE Absent]
             /\ marker = [u \in Accounts \cup {NoOne} |->
                           IF Old /\ many /\ u \in here THEN first[u]
                           ELSE IF Old /\ ~many /\ u = NoOne
                           THEN first[CHOOSE v \in here : TRUE] ELSE Absent]
    /\ recall = [u \in Accounts |-> NoName]
    /\ dir = [x \in Names |-> Absent] /\ owner = [x \in Names |-> NoOne]
    /\ sent = [u \in Accounts |-> <<>>] /\ astray = {}
    /\ played = 1 /\ renames = 0 /\ mishaps = 0

Mishap == mishaps < MaxMishaps /\ mishaps' = mishaps + 1
-----------------------------------------------------------------------------
(* The people.                                                             *)

\* u opens the game for the first time here: its savedata is created, empty.
Join(u) ==
    /\ save[u] = Absent
    /\ save' = [save EXCEPT ![u] = Empty]
    /\ UNCHANGED <<nick, card, cloud, ghosts, played, renames, mishaps>>

\* The savedata, or the account, is deleted from the console.
Leave(u) ==
    /\ save[u] # Absent /\ Cardinality(Present) > Stay
    /\ save' = [save EXCEPT ![u] = Absent]
    /\ UNCHANGED <<nick, card, cloud, ghosts, played, renames, mishaps>>

Play(u) ==
    /\ save[u] # Absent /\ played < MaxSave /\ played' = played + 1
    /\ save' = [save EXCEPT ![u] = [by |-> u, n |-> played', whole |-> save[u].whole]]
    /\ UNCHANGED <<nick, card, cloud, ghosts, renames, mishaps>>

\* A name nobody has or had: two accounts may not share one here.
Rename(u, x) ==
    /\ u # Device /\ renames < MaxRenames /\ renames' = renames + 1
    /\ x \notin {nick[v] : v \in Accounts} /\ dir[x] = Absent /\ flat[x] = Absent
    /\ x \notin {recall[v] : v \in Accounts}
    /\ nick' = [nick EXCEPT ![u] = x]
    /\ UNCHANGED <<save, card, cloud, ghosts, played, mishaps>>

\* pastas.txt loses u's line.
Forget(u) ==
    /\ Mishap /\ recall[u] # NoName
    /\ recall' = [recall EXCEPT ![u] = NoName]
    /\ astray' = astray \cup {u}
    /\ UNCHANGED <<console, marker, cloud, owner, sent, played, renames>>
-----------------------------------------------------------------------------
(* Looking.  A place is where a save may be found; a request of the lookup *)
(* that is not in "seen" got no answer, which reads as "not there".        *)

All == {"game", "owner", "list", "flat"}
Answered == {All} \cup {All \ {q} : q \in All}

\* cloud_folder_path without the registry.
PathForgetful(u) == nick[u]

\* cloud_folder_path with the owner's name cut off by a long name of the game.
PathCut(u) == IF recall[u] \in Names THEN recall[u] ELSE CHOOSE x \in Names : TRUE

\* cloud_folder_path: the owner's folder, by its line if it has a slash.
Path(u) == IF recall[u] \in Names THEN recall[u] ELSE nick[u]

\* What is inside <Game>: owners' folders, and the directory of an old backup.
Subfolders ==
    {<<"own", x>> : x \in {y \in Names : dir[y] # Absent}}
      \cup (IF OneDir /\ flat[Plain] \in Saves THEN {<<"part", Plain>>} ELSE {})
Game == flat[Plain] # Absent \/ \E x \in Names : dir[x] # Absent

\* cloud_title_folder, reading, with the only folder taken whoever shares the game.
NestedGreedy(u, seen) ==
    IF ~Game \/ "game" \notin seen THEN {}
    ELSE IF "owner" \in seen /\ dir[Path(u)] # Absent THEN {<<"own", Path(u)>>}
    ELSE IF "list" \in seen /\ Cardinality(Subfolders) = 1 THEN Subfolders
    ELSE {}

\* cloud_title_folder, reading: the owner's folder, or the only one there is.
Nested(u, seen) ==
    IF ~Game \/ "game" \notin seen THEN {}
    ELSE IF "owner" \in seen /\ dir[Path(u)] # Absent THEN {<<"own", Path(u)>>}
    ELSE IF ~Shared /\ "list" \in seen /\ Cardinality(Subfolders) = 1 THEN Subfolders
    ELSE {}

\* cloud_flat_backup: a folder of the old name with files of its own.
Flat(u, seen) ==
    IF "flat" \in seen /\ flat[OldName(u, Shared)] \in Saves
    THEN {<<"flat", OldName(u, Shared)>>} ELSE {}

Lookup(u, seen) == IF Nested(u, seen) # {} THEN Nested(u, seen) ELSE Flat(u, seen)

\* What is downloaded from place p; <Game> comes with the owners' folders in it.
Download(p) ==
    CASE p[1] = "own"  -> dir[p[2]]
      [] p[1] = "part" -> [flat[Plain] EXCEPT !.whole = FALSE]
      [] p[1] = "flat" -> IF p[2] = Plain /\ \E x \in Names : dir[x] # Absent
                          THEN [flat[Plain] EXCEPT !.whole = FALSE] ELSE flat[p[2]]

\* Every answer comes, or one mishap is spent.
Answers(seen) == (seen = All /\ UNCHANGED mishaps) \/ (seen # All /\ Mishap)
Missed(u, seen) == astray' = IF seen = All THEN astray ELSE astray \cup {u}
-----------------------------------------------------------------------------
(* Uploading, syncing, restoring the save of u.                            *)

\* cloud_title_folder creating, cloud_upload_tree, cloud_prune_extras, lembra_pasta.
Put(u, s) ==
    LET x == Path(u) IN
    /\ dir' = [dir EXCEPT ![x] = s]
    /\ owner' = [owner EXCEPT ![x] = IF dir[x] = Absent THEN u ELSE owner[x]]
    /\ recall' = [recall EXCEPT ![u] = x]
    /\ sent' = [sent EXCEPT ![u] = <<"own", x>>]
    /\ astray' = astray \ {u}
    /\ UNCHANGED flat

\* A backup by the app, or by the module, which then writes the marker.
Upload(u) ==
    /\ save[u] # Absent
    /\ Put(u, save[u])
    /\ \/ marker' = [marker EXCEPT ![Mark(u)] = save[u]]
       \/ UNCHANGED marker
    /\ UNCHANGED <<console, played, renames, mishaps>>

\* syncjob_restore_title: writes whatever it found that differs, but not nothing.
Restore(u, seen) ==
    /\ save[u] # Absent /\ Answers(seen)
    /\ \E p \in Lookup(u, seen) :
          /\ Download(p) # Empty
          /\ save' = [save EXCEPT ![u] = Download(p)]
          /\ marker' = IF save[u] = Download(p) THEN [marker EXCEPT ![Mark(u)] = save[u]] ELSE marker
    /\ UNCHANGED <<nick, recall, cloud, ghosts, played, renames>>

\* The same, remembering whatever was found.
RecallOfFound(u, p) == [recall EXCEPT ![u] = p[2]]

\* lembra_pasta(pasta_nuvem) of a sync: the computed path, or the old name.
RecallOf(u, p) == [recall EXCEPT ![u] = IF p[1] = "flat" THEN FlatName ELSE Path(u)]
Marked(u, s) == marker' = [marker EXCEPT ![Mark(u)] = s]

\* syncjob_sync_title: nothing was found, or it holds no file: the first sync.
FirstSync(u, seen) ==
    /\ save[u] \notin {Absent, Empty} /\ Answers(seen)
    /\ \A p \in Lookup(u, seen) : Download(p) = Empty
    /\ Put(u, save[u]) /\ Marked(u, save[u])
    /\ UNCHANGED <<console, played, renames>>

\* The cloud's comes down: there is none here, or only the cloud changed.
SyncDown(u, seen) ==
    /\ save[u] # Absent /\ Answers(seen)
    /\ \E p \in Lookup(u, seen) :
          LET r == Download(p) IN
          /\ r \notin {Empty, save[u]}
          /\ save[u] = Empty \/ (save[u] = marker[Mark(u)] /\ r # marker[Mark(u)])
          /\ recall' = RecallOf(u, p)
          /\ save' = [save EXCEPT ![u] = r] /\ Marked(u, r)
    /\ Missed(u, seen)
    /\ UNCHANGED <<nick, cloud, owner, sent, played, renames>>

\* Only the console changed: its save goes into the folder that was found.
SyncUp(u, seen) ==
    /\ save[u] \notin {Absent, Empty} /\ Answers(seen)
    /\ \E p \in Lookup(u, seen) :
          LET r == Download(p) IN
          /\ r # Empty /\ r = marker[Mark(u)] /\ save[u] # r
          /\ recall' = RecallOf(u, p)
          /\ dir' = IF p[1] = "own" THEN [dir EXCEPT ![p[2]] = save[u]] ELSE dir
          /\ flat' = CASE p[1] = "own"  -> flat
                       [] p[1] = "flat" -> [flat EXCEPT ![p[2]] = save[u]]
                       [] p[1] = "part" -> [flat EXCEPT ![Plain].whole = FALSE]
          /\ sent' = [sent EXCEPT ![u] = p]
    /\ Marked(u, save[u]) /\ Missed(u, seen)
    /\ UNCHANGED <<console, owner, played, renames>>

\* Both are equal, or the user has to choose: only the registry changes, and the
\* marker when they are equal.
SyncSees(u, seen) ==
    /\ save[u] # Absent /\ Answers(seen)
    /\ \E p \in Lookup(u, seen) :
          LET r == Download(p)
              m == marker[Mark(u)]
          IN
          /\ recall' = RecallOf(u, p)
          /\ \/ save[u] = r /\ (IF r = Empty THEN UNCHANGED marker ELSE Marked(u, r))
             \/ save[u] # r /\ Empty \notin {save[u], r}
                /\ (m = Absent \/ (save[u] # m /\ r # m)) /\ UNCHANGED marker
    /\ Missed(u, seen)
    /\ UNCHANGED <<console, cloud, owner, sent, played, renames>>

Operation(u, seen) ==
    Restore(u, seen) \/ FirstSync(u, seen) \/ SyncDown(u, seen) \/ SyncUp(u, seen)
      \/ SyncSees(u, seen)
Next ==
    \E u \in Accounts :
       \/ Join(u) \/ Leave(u) \/ Play(u) \/ Forget(u) \/ Upload(u)
       \/ \E x \in Names : Rename(u, x)
       \/ \E seen \in Answered : Operation(u, seen)
Spec == Init /\ [][Next]_vars
-----------------------------------------------------------------------------
(* Properties.                                                             *)

TypeOK ==
    /\ save \in [Accounts -> Found \cup {Absent}]
    /\ nick \in [Accounts -> Names]
    /\ recall \in [Accounts -> Names \cup {NoName, FlatName}]
    /\ marker \in [Accounts \cup {NoOne} -> Saves \cup {Empty, Absent}]
    /\ dir \in [Names -> Found \cup {Absent}]
    /\ flat \in [Names \cup {Plain} -> Saves \cup {Absent}]
    /\ owner \in [Names -> Accounts \cup {NoOne}]
    /\ astray \subseteq Accounts /\ played \in 1..MaxSave
    /\ renames \in 0..MaxRenames /\ mishaps \in 0..MaxMishaps

\* Nobody is given the save of another account (the shared_game lock of
\* cloud_title_folder's rescue: without it "este resgate ENTREGA O SAVE DE UMA
\* PESSOA PRA OUTRA").
OwnSave == \A u \in Accounts : save[u].by \in {u, NoOne}

\* Nobody's upload lands in the folder another account created.
OwnBackup == \A x \in Names : dir[x].by \in {owner[x], NoOne}

\* Whatever names change and whoever joins, the next lookup for an account finds
\* the folder <Game>/<Owner> its last upload went to (pastas.txt: "sem ele o app
\* procuraria uma pasta que nao existe, trataria como primeira sync e deixaria o
\* backup antigo orfao"), unless its line was lost, or a lookup of it failed, in
\* between.  Backups of the old layout have no such line.
NotOrphaned ==
    \A u \in Present \ astray :
       sent[u] # <<>> /\ sent[u][1] = "own" => Lookup(u, All) = {sent[u]}

\* The savedata of a game only ever holds a whole save, and nothing else: a folder
\* of accounts, or a directory of a backup, is never taken for a backup.
SaveWhole == \A u \in Accounts : save[u].whole
=============================================================================
