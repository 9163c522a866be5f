---------------------------- MODULE LocalBackup ----------------------------
(***************************************************************************)
(* One game's copy on the SD card: syncjob_backup_title_local, restore and *)
(* "Empty this game's save", with the savedata mount they all go through.  *)
(*                                                                         *)
(* The copy lives in backups/<game>; a new one is built in <game>.novo and *)
(* exchanged for it through <game>.velho.  Two programs run this code on   *)
(* the same card: the app, for the user, and the background module, after  *)
(* a game exits.  Console crashes, failing copies, failing renames, a      *)
(* refused commit and a listing that breaks off are mishaps; their number  *)
(* is bounded by MaxMishaps.                                               *)
(*                                                                         *)
(* clear_dir and savemount_copy_tree take an error of readdir for the end  *)
(* of the directory.  The history variable cut says which trees came       *)
(* through such a listing; no guard reads it.                              *)
(***************************************************************************)
EXTENDS Integers

CONSTANTS
    Files,       \* paths a save may contain
    FilesOf,     \* FilesOf[v]: the files of the v-th save the game writes
    MaxVer,      \* how many saves the game writes
    Programs,    \* who is running: a subset of {"app", "sysmodule"}
    MaxMishaps,  \* bound on failures and crashes together
    NoDir        \* a folder that is not on the card

ASSUME BackupAssumption ==
    /\ MaxVer \in Nat \ {0}
    /\ MaxMishaps \in Nat
    /\ FilesOf \in [1..MaxVer -> (SUBSET Files) \ {{}}]
    /\ Programs \subseteq {"app", "sysmodule"}

\* A file is a version, 0 where there is none and Torn where a copy was cut short.
Torn == -1
Trees == [Files -> Torn..MaxVer]
ASSUME NoDirAssumption == NoDir \notin Trees
Empty == [f \in Files |-> 0]
Tree(v) == [f \in Files |-> IF f \in FilesOf[v] THEN v ELSE 0]
Whole(t) == \E v \in 1..MaxVer : t = Tree(v)
In(t) == IF t = NoDir THEN {} ELSE {f \in Files : t[f] # 0}

VARIABLES
    save,      \* committed contents of the savedata
    played,    \* how many saves the game has written
    holder,    \* program that has the savedata mounted, or "none"
    work,      \* what a writable mount shows, lost unless committed
    dir,       \* backups/<game>
    novo,      \* backups/<game>.novo
    velho,     \* backups/<game>.velho
    job,       \* job[p]: what program p was asked to do
    pc,        \* pc[p]: where it is, "idle" between jobs
    todo,      \* todo[p]: directory entries its current loop has left
    good,      \* good[p]: all_ok of the copy loop
    had,       \* had[p]: tinha_antes
    mishaps,
    cut        \* trees that a listing which broke off left incomplete, or copies of such

device == <<save, played, holder, work>>
card   == <<dir, novo, velho>>
local  == <<job, pc, todo, good, had>>
vars   == <<device, card, local, mishaps, cut>>

Init ==
    /\ save = Tree(1) /\ played = 1 /\ holder = "none" /\ work = Empty
    /\ dir = NoDir /\ novo = NoDir /\ velho = NoDir
    /\ job = [p \in Programs |-> "none"] /\ pc = [p \in Programs |-> "idle"]
    /\ todo = [p \in Programs |-> {}]
    /\ good = [p \in Programs |-> TRUE] /\ had = [p \in Programs |-> FALSE]
    /\ mishaps = 0 /\ cut = {}

Mishap == mishaps < MaxMishaps /\ mishaps' = mishaps + 1
NoMishap == UNCHANGED mishaps

\* A loop over readdir is over: no entry is left, or reading the next one failed,
\* which nobody tells from the end.
Listed(p) == IF todo[p] = {} THEN NoMishap ELSE Mishap
CutShort(p) == todo[p] # {}

Notes(tree, is) == cut' = IF is THEN cut \cup {tree} ELSE cut \ {tree}
Renamed(from, to) == cut' = (cut \ {from, to}) \cup (IF from \in cut THEN {to} ELSE {})

GoTo(p, l) == pc' = [pc EXCEPT ![p] = l]
\* Reaches a loop over directory t at label l.
Loop(p, l, t) == GoTo(p, l) /\ todo' = [todo EXCEPT ![p] = In(t)]
Taken(p, f) == todo' = [todo EXCEPT ![p] = @ \ {f}]
-----------------------------------------------------------------------------
(* The game writes its next save.  It holds the savedata while it runs, and *)
(* it does not run while the app, which must be in front, has a job.       *)

Play ==
    /\ holder = "none" /\ played < MaxVer
    /\ \A p \in Programs : p = "app" => pc[p] = "idle"
    /\ played' = played + 1 /\ save' = Tree(played + 1) /\ Notes("save", FALSE)
    /\ UNCHANGED <<holder, work, card, local, mishaps>>
-----------------------------------------------------------------------------
(* syncjob_backup_title_local.                                             *)

\* As Begin, but copying over what an interrupted attempt left in .novo.
BeginOverDebris(p, j) ==
    /\ pc[p] = "idle"
    /\ j = "backup" \/ (j = "wipe" /\ p = "app")
    /\ job' = [job EXCEPT ![p] = j]
    /\ Loop(p, "clear", NoDir)
    /\ UNCHANGED <<device, card, good, had, mishaps, cut>>

\* The user asks the app to copy or to empty the save; the background module
\* only ever copies.
Begin(p, j) ==
    /\ pc[p] = "idle"
    /\ j = "backup" \/ (j = "wipe" /\ p = "app")
    /\ job' = [job EXCEPT ![p] = j]
    /\ Loop(p, "clear", novo)
    /\ UNCHANGED <<device, card, good, had, mishaps, cut>>

\* clear_dir(novo), one entry at a time.  An entry it cannot remove is passed over,
\* which is as if the listing had ended before it.
ClearNovo(p, l) ==
    /\ pc[p] = l
    /\ \E f \in todo[p] :
          /\ Taken(p, f)
          /\ novo' = IF novo = NoDir THEN NoDir ELSE [novo EXCEPT ![f] = 0]
    /\ UNCHANGED <<device, dir, velho, job, pc, good, had, mishaps, cut>>

\* rmdir(d) works on an empty folder only.
Removed(t) == IF t = Empty THEN NoDir ELSE t

Cleared(p) ==
    /\ pc[p] = "clear" /\ Listed(p)
    /\ novo' = Removed(novo) /\ Notes("novo", CutShort(p))
    /\ Loop(p, "drop", velho)
    /\ UNCHANGED <<device, dir, velho, job, good, had>>

ClearVelho(p, l) ==
    /\ pc[p] = l
    /\ \E f \in todo[p] :
          /\ Taken(p, f)
          /\ velho' = IF velho = NoDir THEN NoDir ELSE [velho EXCEPT ![f] = 0]
    /\ UNCHANGED <<device, dir, novo, job, pc, good, had, mishaps, cut>>

Dropped(p) ==
    /\ pc[p] = "drop" /\ Listed(p)
    /\ velho' = Removed(velho)
    /\ novo' = IF novo = NoDir THEN Empty ELSE novo
    /\ Loop(p, "mount", NoDir)
    /\ UNCHANGED <<device, dir, job, good, had, cut>>

\* The mount is refused while the game or the other program has the savedata.
MountFails(p) ==
    /\ pc[p] = "mount"
    /\ novo' = Removed(novo)
    /\ GoTo(p, "idle")
    /\ UNCHANGED <<device, dir, velho, job, todo, good, had, mishaps, cut>>

Mount(p) ==
    /\ pc[p] = "mount" /\ holder = "none"
    /\ holder' = p
    /\ Loop(p, "copy", save)
    /\ good' = [good EXCEPT ![p] = TRUE]
    /\ novo' = IF novo = NoDir THEN Empty ELSE novo
    /\ UNCHANGED <<save, played, work, dir, velho, job, had, mishaps, cut>>

\* fopen fails once somebody removed the destination folder.
CopyFile(p) ==
    /\ pc[p] = "copy"
    /\ \E f \in todo[p] :
          /\ Taken(p, f)
          /\ \/ /\ novo' = IF novo = NoDir THEN NoDir ELSE [novo EXCEPT ![f] = save[f]]
                /\ good' = [good EXCEPT ![p] = @ /\ novo # NoDir] /\ NoMishap
             \/ /\ novo # NoDir
                /\ novo' = [novo EXCEPT ![f] = Torn]
                /\ good' = [good EXCEPT ![p] = FALSE] /\ Mishap
    /\ UNCHANGED <<device, dir, velho, job, pc, had, cut>>

\* savemount_unmount(false); a copy that failed is thrown away, but one whose
\* listing broke off has not failed.
CopyDone(p) ==
    /\ pc[p] = "copy" /\ Listed(p)
    /\ holder' = "none"
    /\ IF good[p] THEN Loop(p, "out", NoDir) ELSE Loop(p, "discard", novo)
    /\ Notes("novo", CutShort(p) \/ {"novo", "save"} \cap cut # {})
    /\ UNCHANGED <<save, played, work, card, job, good, had>>

\* rename(dir, velho)
SwapOut(p) ==
    /\ pc[p] = "out"
    /\ \/ /\ dir # NoDir /\ velho = NoDir
          /\ velho' = dir /\ dir' = NoDir /\ Renamed("dir", "velho")
          /\ had' = [had EXCEPT ![p] = TRUE] /\ NoMishap
       \/ /\ UNCHANGED <<dir, velho, cut>>
          /\ had' = [had EXCEPT ![p] = FALSE]
          /\ IF dir # NoDir /\ velho = NoDir THEN Mishap ELSE NoMishap
    /\ GoTo(p, "in")
    /\ UNCHANGED <<device, novo, job, todo, good>>

\* As SwapIn, but dropping the old copy whether or not the new one took its place.
SwapInUnchecked(p) ==
    /\ pc[p] = "in"
    /\ \/ /\ novo # NoDir /\ dir = NoDir /\ dir' = novo /\ novo' = NoDir
          /\ Renamed("novo", "dir") /\ NoMishap
       \/ UNCHANGED <<dir, novo, cut>> /\ IF novo # NoDir /\ dir = NoDir THEN Mishap ELSE NoMishap
    /\ Loop(p, "retire", IF had[p] THEN velho ELSE NoDir)
    /\ UNCHANGED <<device, velho, job, good, had>>

\* rename(novo, dir): on success the old copy goes, on failure it comes back.
SwapIn(p) ==
    /\ pc[p] = "in"
    /\ \/ /\ novo # NoDir /\ dir = NoDir
          /\ dir' = novo /\ novo' = NoDir /\ Renamed("novo", "dir")
          /\ Loop(p, "retire", IF had[p] THEN velho ELSE NoDir) /\ NoMishap
       \/ /\ UNCHANGED <<dir, novo, cut>>
          /\ IF had[p] THEN GoTo(p, "undo") /\ UNCHANGED todo
                       ELSE Loop(p, "discard", novo)
          /\ IF novo # NoDir /\ dir = NoDir THEN Mishap ELSE NoMishap
    /\ UNCHANGED <<device, velho, job, good, had>>

\* rename(velho, dir): its result is not looked at.
SwapBack(p) ==
    /\ pc[p] = "undo"
    /\ \/ /\ velho # NoDir /\ dir = NoDir
          /\ dir' = velho /\ velho' = NoDir /\ Renamed("velho", "dir") /\ NoMishap
       \/ /\ UNCHANGED <<dir, velho, cut>>
          /\ IF velho # NoDir /\ dir = NoDir THEN Mishap ELSE NoMishap
    /\ Loop(p, "discard", novo)
    /\ UNCHANGED <<device, novo, job, good, had>>

\* As Discarded, but emptying the save without looking at the backup's result.
DiscardedGoesOn(p) ==
    /\ pc[p] = "discard" /\ Listed(p)
    /\ novo' = Removed(novo)
    /\ Loop(p, IF job[p] = "wipe" THEN "wipe" ELSE "idle", NoDir)
    /\ UNCHANGED <<device, dir, velho, job, good, had, cut>>

\* The backup reports failure.
Discarded(p) ==
    /\ pc[p] = "discard" /\ Listed(p)
    /\ novo' = Removed(novo)
    /\ Loop(p, "idle", NoDir)
    /\ UNCHANGED <<device, dir, velho, job, good, had, cut>>

\* The backup reports success; emptying the save goes on from there.
Retired(p) ==
    /\ pc[p] = "retire" /\ Listed(p)
    /\ velho' = IF had[p] THEN Removed(velho) ELSE velho
    /\ Loop(p, IF job[p] = "wipe" THEN "wipe" ELSE "idle", NoDir)
    /\ UNCHANGED <<device, dir, novo, job, good, had, cut>>
-----------------------------------------------------------------------------
(* jobWipeSave, after its safety copy.  Nothing written through the mount  *)
(* is seen by others before the commit, so mount to unmount is one step.   *)

Wipe(p) ==
    /\ pc[p] = "wipe"
    /\ \/ holder = "none" /\ save' = Empty /\ Notes("save", FALSE) /\ NoMishap
       \/ UNCHANGED <<save, cut>> /\ NoMishap       \* mount refused
       \/ holder = "none" /\ UNCHANGED <<save, cut>> /\ Mishap  \* an unlink, the listing or the commit
    /\ GoTo(p, "idle")
    /\ UNCHANGED <<played, holder, work, card, job, todo, good, had>>
-----------------------------------------------------------------------------
(* syncjob_restore_title_local and write_over_save; only the app restores. *)

Restore(p) ==
    /\ p = "app" /\ pc[p] = "idle"
    /\ In(dir) # {}
    /\ job' = [job EXCEPT ![p] = "restore"]
    /\ GoTo(p, "open")
    /\ UNCHANGED <<device, card, todo, good, had, mishaps, cut>>

OpenFails(p) ==
    /\ pc[p] = "open"
    /\ GoTo(p, "idle")
    /\ UNCHANGED <<device, card, job, todo, good, had, mishaps, cut>>

\* Mount for writing and savemount_wipe_contents, then opendir(dir).
Open(p) ==
    /\ pc[p] = "open" /\ holder = "none"
    /\ holder' = p /\ work' = Empty
    /\ good' = [good EXCEPT ![p] = dir # NoDir]
    /\ Loop(p, "write", dir)
    /\ UNCHANGED <<save, played, card, job, had, mishaps, cut>>

\* As Commit, but committing whatever was written.
CommitAnyway(p) ==
    /\ pc[p] = "write" /\ Listed(p)
    /\ save' = work /\ Notes("save", CutShort(p) \/ "dir" \in cut)
    /\ holder' = "none" /\ work' = Empty
    /\ Loop(p, "idle", NoDir)
    /\ UNCHANGED <<played, card, job, good, had>>

WriteFile(p) ==
    /\ pc[p] = "write"
    /\ \E f \in todo[p] :
          /\ Taken(p, f)
          /\ \/ /\ f \in In(dir)
                /\ work' = [work EXCEPT ![f] = dir[f]]
                /\ good' = good /\ NoMishap
             \/ /\ UNCHANGED work
                /\ good' = [good EXCEPT ![p] = FALSE]
                /\ IF f \in In(dir) THEN Mishap ELSE NoMishap
    /\ UNCHANGED <<save, played, holder, card, job, pc, had, cut>>

\* A copy whose listing of the folder broke off is committed as any other.
Commit(p) ==
    /\ pc[p] = "write"
    /\ \/ /\ good[p] /\ save' = work /\ Listed(p)
          /\ Notes("save", CutShort(p) \/ "dir" \in cut)
       \/ ~good[p] /\ UNCHANGED <<save, cut>> /\ Listed(p)
       \/ good[p] /\ UNCHANGED <<save, cut>> /\ Mishap
    /\ holder' = "none" /\ work' = Empty
    /\ Loop(p, "idle", NoDir)
    /\ UNCHANGED <<played, card, job, good, had>>
-----------------------------------------------------------------------------
\* Power goes: what was not committed is lost, the card stays as it is.
Crash ==
    /\ Mishap
    /\ \E p \in Programs : pc[p] # "idle"
    /\ holder' = "none" /\ work' = Empty
    /\ pc' = [p \in Programs |-> "idle"] /\ todo' = [p \in Programs |-> {}]
    /\ UNCHANGED <<save, played, card, job, good, had, cut>>

Step(p) ==
    \/ \E j \in {"backup", "wipe"} : Begin(p, j)
    \/ ClearNovo(p, "clear") \/ Cleared(p) \/ ClearVelho(p, "drop") \/ Dropped(p)
    \/ MountFails(p) \/ Mount(p) \/ CopyFile(p) \/ CopyDone(p)
    \/ SwapOut(p) \/ SwapIn(p) \/ SwapBack(p)
    \/ ClearNovo(p, "discard") \/ Discarded(p)
    \/ ClearVelho(p, "retire") \/ Retired(p)
    \/ Wipe(p)
    \/ Restore(p) \/ OpenFails(p) \/ Open(p) \/ WriteFile(p) \/ Commit(p)

Next == Play \/ Crash \/ \E p \in Programs : Step(p)

Spec == Init /\ [][Next]_vars
-----------------------------------------------------------------------------
Labels == {"idle", "clear", "drop", "mount", "copy", "out", "in", "undo", "discard",
           "retire", "wipe", "open", "write"}

\* Every variable has its type.
TypeOK ==
    /\ {save, work} \subseteq Trees /\ played \in 1..MaxVer
    /\ {dir, novo, velho} \subseteq Trees \cup {NoDir}
    /\ holder \in Programs \cup {"none"}
    /\ job \in [Programs -> {"none", "backup", "wipe", "restore"}]
    /\ pc \in [Programs -> Labels]
    /\ todo \in [Programs -> SUBSET Files]
    /\ good \in [Programs -> BOOLEAN] /\ had \in [Programs -> BOOLEAN]
    /\ mishaps \in 0..MaxMishaps
    /\ cut \subseteq {"save", "dir", "novo", "velho"}

\* The savedata is never half of one save and half of another, nor cut short:
\* whatever fails or crashes, it is a save the game wrote, or empty, unless a
\* restore, or the copy it restored, came through a listing that broke off.
SaveWhole == save = Empty \/ Whole(save) \/ "save" \in cut

\* The copy under the game's own name is never a partial or mixed one, although
\* it is assembled file by file and crashes leave debris in .novo and .velho;
\* again but for a listing that broke off, of the save or of the debris.
CopyWhole == dir = NoDir \/ dir = Empty \/ Whole(dir) \/ "dir" \in cut

\* "Empty this game's save" erases only while backups/<game> holds exactly what
\* goes, or came through a listing that broke off (and no restore ends in an
\* empty savedata unless its own listing broke off).
ErasesOnlyWhatIsCopied ==
    [][ save # Empty /\ save' = Empty => dir = save \/ "dir" \in cut \/ "save" \in cut' ]_vars

\* core/syncjob.c: "Em nenhum instante existe zero copia completa no cartao":
\* once the card holds a complete copy of a save, it always holds one.  Does not
\* hold where an emptied save is copied or emptied again, so no run has it.
SomeCopy == \E t \in {dir, velho} : t # NoDir /\ Whole(t)
OneCopyRemains == [][ SomeCopy => SomeCopy' ]_vars

\* core/savemount.c, of its checks: they are "a rede de seguranca do 'esvaziar o
\* save'".  Neither holds without the exception of cut, so no run has them.
SaveAlwaysWhole == save = Empty \/ Whole(save)
ErasesOnlyACopy == [][ save # Empty /\ save' = Empty => dir = save ]_vars

\* What does hold: whatever fails or crashes, also between the two renames and in
\* the attempts that follow, a complete save remains, in the savedata or on the
\* card, unless a savedata that is empty is being copied, or the savedata or the
\* copy came through a listing that broke off.
SaveRemains == Whole(save) \/ SomeCopy
CopiesNothing ==
    save = Empty /\ \E p \in Programs : pc[p] \notin {"idle", "wipe", "open", "write"}
OneSaveRemains ==
    [][ SaveRemains /\ ~CopiesNothing => SaveRemains' \/ {"save", "dir"} \cap cut' # {} ]_vars
=============================================================================
