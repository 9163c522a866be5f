------------------------------ MODULE Archive ------------------------------
(***************************************************************************)
(* Every save in one file: the archive the app packs from the savedatas,   *)
(* sends to the cloud, brings back, and restores one folder from.          *)
(*                                                                         *)
(* A new archive is written to <archive>.parcial, a downloaded one to      *)
(* <archive>.baixando; only a finished one takes the archive's place, and  *)
(* the one it replaces steps aside as <archive>.anterior meanwhile.  One   *)
(* job runs at a time.  The app dies at any step, a write or a rename      *)
(* fails, an upload or a listing breaks off; MaxMishaps bounds these       *)
(* together.                                                               *)
(*                                                                         *)
(* nxsaves_add_dir, clear_dir and savemount_copy_tree take an error of     *)
(* readdir for the end of the directory.  What that may have done to a     *)
(* save is kept as its doubt, a history that no guard reads.               *)
(***************************************************************************)
EXTENDS FiniteSets, Integers

CONSTANTS
    Saves,       \* savedatas: a game and an account of it
    Folders,     \* names a folder of the archive may have
    FolderOf,    \* FolderOf[s]: name of s's folder, which two may share
    Files,       \* paths a save may contain
    FilesOf,     \* FilesOf[v]: the files of the v-th save a game writes
    MaxVer,      \* how many saves each game writes
    MaxMishaps,  \* bound on crashes and failures together
    CutUploads,  \* does the cloud keep what an upload that broke off had sent?
    NoBox        \* a file that is not there

ASSUME ArchiveAssumption ==
    /\ MaxVer \in Nat \ {0}
    /\ MaxMishaps \in Nat
    /\ FilesOf \in [1..MaxVer -> (SUBSET Files) \ {{}}]
    /\ CutUploads \in BOOLEAN
    /\ FolderOf \in [Saves -> Folders]
    /\ IsFiniteSet(Folders)

\* A file holds part of the v-th save of s, as <<s, v>>.
None == <<>>
Contents == (Saves \X (1..MaxVer)) \cup {None}
Trees == [Files -> Contents]
Empty == [f \in Files |-> None]
Tree(s, v) == [f \in Files |-> IF f \in FilesOf[v] THEN <<s, v>> ELSE None]
In(t) == {f \in Files : t[f] # None}
Only(t, F) == [f \in Files |-> IF f \in F THEN t[f] ELSE None]

\* A container file.  Its header is there once it was closed; its index, which
\* is at the end, is not there once the file was cut short.
\* The doubt of a tree: 0 none, 1 it may be a part of a save, 2 it may be a mixture.
Doubts == 0..2
Worse(m, n) == IF m > n THEN m ELSE n
Box == [header : BOOLEAN, index : BOOLEAN, at : [Folders -> Trees],
        doubt : [Folders -> Doubts]]
ASSUME NoBoxAssumption == NoBox \notin Box
Fresh == [header |-> FALSE, index |-> FALSE, at |-> [g \in Folders |-> Empty],
          doubt |-> [g \in Folders |-> 0]]
Cut(b) == [b EXCEPT !.index = FALSE]
IsBox(b) == IF b = NoBox THEN FALSE ELSE b.header
Readable(b) == IF b = NoBox THEN FALSE ELSE b.header /\ b.index

Slots == {"final", "parcial", "baixando", "anterior"}

VARIABLES
    save,     \* committed contents of each savedata
    played,   \* how many saves each game has written
    disk,     \* the archive and the files around it, on the card
    staging,  \* staging/<folder>
    cloud,    \* the archive in the cloud
    pc,       \* where the job is, "idle" between jobs
    left,     \* titles the loop over the list has not reached
    seen,     \* folders of the titles it has
    cur,      \* title it is at
    from,     \* folder being restored
    todo,     \* files of it that are not copied yet
    stored,   \* entraram: how many saves went in
    temp,     \* the file that is to take the archive's place
    had,      \* tinha_antes
    old,      \* the archive when the job began, or when one that failed did
    told,     \* what the last job said of itself
    made,     \* has a job ever said that the archive is on the card?
    mishaps,
    doubt,    \* doubt of each savedata
    debris    \* doubt of what is in the staging folder of the job

ends  == <<old, told, made>>
local == <<left, seen, cur, from, todo, stored, temp, had>>
past  == <<doubt, debris>>
vars  == <<save, played, disk, staging, cloud, pc, local, ends, mishaps, past>>

Init ==
    /\ save \in {[s \in Saves |-> Empty], [s \in Saves |-> Tree(s, 1)]}
    /\ played = [s \in Saves |-> IF save[s] = Empty THEN 0 ELSE 1]
    /\ disk = [d \in Slots |-> NoBox] /\ cloud = NoBox
    /\ staging = [g \in Folders |-> Empty]
    /\ pc = "idle" /\ left = {} /\ seen = {}
    /\ cur = "none" /\ from = "none" /\ todo = {} /\ stored = 0
    /\ temp = "parcial" /\ had = FALSE
    /\ old = NoBox /\ told = "none" /\ made = FALSE /\ mishaps = 0
    /\ doubt = [s \in Saves |-> 0] /\ debris = 0

Mishap == mishaps < MaxMishaps /\ mishaps' = mishaps + 1
NoMishap == UNCHANGED mishaps
Begins == pc = "idle" /\ old' = disk["final"] /\ told' = "none" /\ UNCHANGED made
GoTo(l) == pc' = l /\ UNCHANGED ends
\* What a job knew goes with it.
Over ==
    /\ pc' = "idle" /\ left' = {} /\ seen' = {} /\ cur' = "none" /\ from' = "none"
    /\ todo' = {} /\ stored' = 0 /\ temp' = "parcial" /\ had' = FALSE /\ debris' = 0
Ends(t) ==
    /\ Over /\ told' = t /\ old' = (IF t = "failed" THEN old ELSE NoBox)
    /\ UNCHANGED made
Removed(d) == disk' = [disk EXCEPT ![d] = NoBox]
\* rename refuses a source that is not there and a target that is.
CanMove(a, b) == disk[a] # NoBox /\ disk[b] = NoBox
Moved(a, b) == disk' = [disk EXCEPT ![a] = NoBox, ![b] = disk[a]]
-----------------------------------------------------------------------------
\* A game runs between two jobs and writes its next save.
Play(s) ==
    /\ pc = "idle" /\ played[s] < MaxVer
    /\ played' = [played EXCEPT ![s] = @ + 1]
    /\ save' = [save EXCEPT ![s] = Tree(s, played[s] + 1)]
    /\ doubt' = [doubt EXCEPT ![s] = 0]
    /\ UNCHANGED <<disk, staging, cloud, pc, local, ends, mishaps, debris>>
-----------------------------------------------------------------------------
(* syncjob_archive_titles_to: pack the listed saves.                       *)

Pack(list) ==
    /\ Begins /\ pc' = "next"
    /\ disk' = [disk EXCEPT !["parcial"] = Fresh]
    /\ temp' = "parcial" /\ left' = list /\ seen' = {} /\ stored' = 0
    /\ UNCHANGED <<save, played, staging, cloud, cur, from, todo, had, mishaps, past>>

\* nxsaves_abort_write.
Abort ==
    /\ Removed("parcial") /\ Ends("failed")
    /\ UNCHANGED <<save, played, staging, cloud, doubt>>

\* Between two games the user may stop it.
StopAsked == pc = "next" /\ left # {} /\ Abort /\ NoMishap

\* Was there an earlier title with the folder of s?
Repeated(s) == FolderOf[s] \in seen
Reach(s) ==
    /\ pc = "next" /\ s \in left
    /\ left' = left \ {s} /\ seen' = seen \cup {FolderOf[s]}

\* A title with a folder seen before is passed over, and so is one whose save
\* cannot be mounted because its game is open.
PassOver(s) ==
    /\ Reach(s)
    /\ UNCHANGED <<save, played, disk, staging, cloud, pc, cur, from, todo,
                   stored, temp, had, ends, mishaps, past>>

\* As Mounted, counting the files that go in.
MountedCountsFiles(s) ==
    /\ Reach(s) /\ ~Repeated(s)
    /\ cur' = s /\ todo' = In(save[s])
    /\ stored' = stored + Cardinality(In(save[s]))
    /\ GoTo("add")
    /\ UNCHANGED <<save, played, disk, staging, cloud, from, temp, had, mishaps, past>>
Mounted(s) ==
    /\ Reach(s) /\ ~Repeated(s)
    /\ cur' = s /\ todo' = In(save[s])
    /\ stored' = stored + IF save[s] = Empty THEN 0 ELSE 1
    /\ GoTo("add")
    /\ UNCHANGED <<save, played, disk, staging, cloud, from, temp, had, mishaps, past>>

\* poe_arquivo: one file of the save becomes one entry.
AddFile(f) ==
    /\ pc = "add" /\ f \in todo
    /\ disk' = [disk EXCEPT !["parcial"].at[FolderOf[cur]][f] = save[cur][f]]
    /\ todo' = todo \ {f}
    /\ UNCHANGED <<save, played, staging, cloud, pc, left, seen, cur, from,
                   stored, temp, had, ends, mishaps, past>>

\* A file that cannot be read or stored gives the whole archive up.
AddFails == pc = "add" /\ todo # {} /\ Abort /\ Mishap

\* The loop over the save is over: nothing is left, or reading the next entry
\* failed, and the title counts as packed all the same.
Added ==
    /\ pc = "add" /\ IF todo = {} THEN NoMishap ELSE Mishap
    /\ disk' = [disk EXCEPT !["parcial"].doubt[FolderOf[cur]] =
                   Worse(doubt[cur], IF todo = {} THEN 0 ELSE 1)]
    /\ todo' = {} /\ cur' = "none" /\ GoTo("next")
    /\ UNCHANGED <<save, played, staging, cloud, left, seen, from, stored, temp,
                   had, past>>

NothingWentIn == pc = "next" /\ left = {} /\ stored = 0 /\ Abort /\ NoMishap

\* nxsaves_close_write: the index and then the header make it a box.
Close ==
    /\ pc = "next" /\ left = {} /\ stored > 0
    /\ disk' = [disk EXCEPT !["parcial"].header = TRUE, !["parcial"].index = TRUE]
    /\ GoTo("drop")
    /\ UNCHANGED <<save, played, staging, cloud, local, mishaps, past>>

CloseFails == pc = "next" /\ left = {} /\ stored > 0 /\ Abort /\ Mishap
-----------------------------------------------------------------------------
(* The exchange that packing and downloading both end with.                *)

\* As DropAnterior, removing the archive instead of moving it aside.
DropFinal ==
    /\ pc = "drop"
    /\ Removed("final")
    /\ GoTo("aside")
    /\ UNCHANGED <<save, played, staging, cloud, local, mishaps, past>>
DropAnterior ==
    /\ pc = "drop"
    /\ Removed("anterior")
    /\ GoTo("aside")
    /\ UNCHANGED <<save, played, staging, cloud, local, mishaps, past>>

MoveAside ==
    /\ pc = "aside"
    /\ \/ CanMove("final", "anterior") /\ Moved("final", "anterior")
          /\ had' = TRUE /\ NoMishap
       \/ ~CanMove("final", "anterior") /\ had' = FALSE /\ UNCHANGED disk /\ NoMishap
       \/ CanMove("final", "anterior") /\ had' = FALSE /\ UNCHANGED disk /\ Mishap
    /\ GoTo("put")
    /\ UNCHANGED <<save, played, staging, cloud, left, seen, cur, from, todo,
                   stored, temp, past>>

Put ==
    /\ pc = "put" /\ CanMove(temp, "final")
    /\ Moved(temp, "final")
    /\ GoTo("tidy")
    /\ UNCHANGED <<save, played, staging, cloud, local, mishaps, past>>

PutFails ==
    /\ pc = "put"
    /\ IF CanMove(temp, "final") THEN Mishap ELSE NoMishap
    /\ GoTo(IF had THEN "undo" ELSE "forget")
    /\ UNCHANGED <<save, played, disk, staging, cloud, local, past>>

Undo ==
    /\ pc = "undo"
    /\ \/ Moved("anterior", "final") /\ NoMishap
       \/ UNCHANGED disk /\ Mishap
    /\ GoTo("forget")
    /\ UNCHANGED <<save, played, staging, cloud, local, past>>

\* remove(temp) after a failure.
Forget ==
    /\ pc = "forget"
    /\ Removed(temp) /\ Ends("failed") /\ NoMishap
    /\ UNCHANGED <<save, played, staging, cloud, doubt>>

Tidy ==
    /\ pc = "tidy"
    /\ Removed("anterior") /\ NoMishap
    /\ Over /\ told' = "done" /\ old' = NoBox /\ made' = TRUE
    /\ UNCHANGED <<save, played, staging, cloud, doubt>>
-----------------------------------------------------------------------------
(* syncjob_archive_upload_path and syncjob_archive_download.               *)

Upload ==
    /\ pc = "idle" /\ IsBox(disk["final"])
    /\ cloud' = disk["final"] /\ Ends("done")
    /\ UNCHANGED <<save, played, disk, staging, mishaps, doubt>>

UploadBreaks ==
    /\ pc = "idle" /\ IsBox(disk["final"])
    /\ cloud' = IF CutUploads THEN Cut(disk["final"]) ELSE cloud
    /\ Ends("none") /\ Mishap
    /\ UNCHANGED <<save, played, disk, staging, doubt>>

Download ==
    /\ Begins /\ cloud # NoBox
    /\ disk' = [disk EXCEPT !["baixando"] = Fresh]
    /\ temp' = "baixando" /\ pc' = "fetch"
    /\ UNCHANGED <<save, played, staging, cloud, left, seen, cur, from, todo,
                   stored, had, mishaps, past>>

\* What arrives is exchanged for the archive only if it begins like a box.
Fetched ==
    /\ pc = "fetch"
    /\ disk' = [disk EXCEPT !["baixando"] = cloud]
    /\ GoTo(IF IsBox(cloud) THEN "drop" ELSE "forget")
    /\ UNCHANGED <<save, played, staging, cloud, local, mishaps, past>>

\* As FetchFails, without asking how the transfer ended.
FetchUnchecked ==
    /\ pc = "fetch" /\ Mishap
    /\ disk' = [disk EXCEPT !["baixando"] = Cut(cloud)]
    /\ GoTo("drop")
    /\ UNCHANGED <<save, played, staging, cloud, local, past>>
FetchFails ==
    /\ pc = "fetch" /\ Mishap
    /\ GoTo("forget")
    /\ UNCHANGED <<save, played, disk, staging, cloud, local, past>>
-----------------------------------------------------------------------------
(* syncjob_archive_restore_folder: one folder of the archive over the save *)
(* of a title the user picked, which may be of another account.            *)

\* nxsaves_extract reads the index first and takes nothing if it is not there.
Entries(g) == IF Readable(disk["final"]) THEN In(disk["final"].at[g]) ELSE {}

\* As Restore, over what the staging folder has.
RestoreOverDebris(g, s) ==
    /\ Begins /\ IsBox(disk["final"])
    /\ from' = g /\ cur' = s /\ todo' = Entries(g) /\ pc' = "take"
    /\ UNCHANGED <<save, played, disk, staging, cloud, left, seen, stored, temp,
                   had, mishaps, past>>
\* The staging folder is emptied before anything goes into it; an entry that
\* cannot be removed, or a listing that breaks off, leaves some of it there.
Restore(g, s) ==
    /\ Begins /\ IsBox(disk["final"])
    /\ from' = g /\ cur' = s /\ todo' = Entries(g) /\ pc' = "take"
    /\ \E stay \in SUBSET In(staging[g]) :
          /\ staging' = [staging EXCEPT ![g] = Only(staging[g], stay)]
          /\ debris' = (IF stay = {} THEN 0 ELSE 2)
          /\ IF stay = {} THEN NoMishap ELSE Mishap
    /\ UNCHANGED <<save, played, disk, cloud, left, seen, stored, temp, had, doubt>>

\* tira_uma: one entry becomes one file.
Take(f) ==
    /\ pc = "take" /\ f \in todo
    /\ staging' = [staging EXCEPT ![from][f] = disk["final"].at[from][f]]
    /\ todo' = todo \ {f}
    /\ UNCHANGED <<save, played, disk, cloud, pc, left, seen, cur, from, stored,
                   temp, had, ends, mishaps, past>>

\* An entry whose size or checksum is wrong, or a full card.
TakeFails ==
    /\ pc = "take" /\ todo # {} /\ Mishap
    /\ Ends("failed")
    /\ UNCHANGED <<save, played, disk, staging, cloud, doubt>>

\* No entry of that folder: taking nothing is no success.
NothingTaken ==
    /\ pc = "take" /\ Entries(from) = {}
    /\ Ends("failed")
    /\ UNCHANGED <<save, played, disk, staging, cloud, mishaps, doubt>>

\* write_over_save commits the folder, or what its listing gave before it broke
\* off, or leaves the save as it was.
Write ==
    /\ pc = "take" /\ todo = {} /\ Entries(from) # {}
    /\ \/ \E got \in SUBSET In(staging[from]) :
             LET whole == got = In(staging[from])
             IN  /\ save' = [save EXCEPT ![cur] = Only(staging[from], got)]
                 /\ doubt' = [doubt EXCEPT ![cur] =
                       Worse(debris, Worse(disk["final"].doubt[from], IF whole THEN 0 ELSE 1))]
                 /\ IF whole THEN NoMishap ELSE Mishap
                 /\ Ends("done")
       \/ UNCHANGED <<save, doubt>> /\ Ends("failed") /\ Mishap
    /\ UNCHANGED <<played, disk, staging, cloud>>
-----------------------------------------------------------------------------
\* The console loses power, or the app is closed, in the middle of a job.
Crash ==
    /\ pc # "idle" /\ Mishap
    /\ Ends("none")
    /\ UNCHANGED <<save, played, disk, staging, cloud, doubt>>

Next ==
    \/ \E s \in Saves : Play(s) \/ PassOver(s) \/ Mounted(s)
    \/ \E list \in SUBSET Saves : Pack(list)
    \/ StopAsked \/ AddFails \/ Added \/ NothingWentIn \/ Close \/ CloseFails
    \/ \E f \in Files : AddFile(f) \/ Take(f)
    \/ DropAnterior \/ MoveAside \/ Put \/ PutFails \/ Undo \/ Forget \/ Tidy
    \/ Upload \/ UploadBreaks \/ Download \/ Fetched \/ FetchFails
    \/ \E g \in Folders, s \in Saves : Restore(g, s)
    \/ TakeFails \/ NothingTaken \/ Write \/ Crash

Spec == Init /\ [][Next]_vars
-----------------------------------------------------------------------------
Box4 == Box \cup {NoBox}
TypeOK ==
    /\ save \in [Saves -> Trees] /\ played \in [Saves -> 0..MaxVer]
    /\ disk \in [Slots -> Box4] /\ cloud \in Box4 /\ old \in Box4
    /\ staging \in [Folders -> Trees]
    /\ pc \in {"idle", "next", "add", "drop", "aside", "put", "undo", "forget",
               "tidy", "fetch", "take"}
    /\ left \subseteq Saves /\ seen \subseteq Folders
    /\ cur \in Saves \cup {"none"} /\ from \in Folders \cup {"none"} /\ todo \subseteq Files
    /\ stored \in 0..Cardinality(seen) /\ temp \in {"parcial", "baixando"}
    /\ had \in BOOLEAN /\ told \in {"none", "done", "failed"}
    /\ made \in BOOLEAN /\ mishaps \in 0..MaxMishaps
    /\ doubt \in [Saves -> Doubts] /\ debris \in Doubts

\* Nothing but a finished container ever has the archive's name: not one the
\* app was stopped in, not one a download broke off in (nxsaves_is_box looks at
\* the header only, so this needs a cloud that never keeps half an upload).
FinalReadable ==
    ~CutUploads /\ disk["final"] # NoBox => Readable(disk["final"])

\* Once the user was told the archive is on the card, one failure or one loss
\* of power, wherever it falls, and any later packing, stop or download leave a
\* readable archive on the card, under one of its names.
OneArchiveRemains ==
    ~CutUploads /\ made /\ mishaps <= 1 => \E d \in Slots : Readable(disk[d])

\* What jobArchiveAll says of a failure: the archive there was is still there,
\* whole, at worst as .anterior because the rename back failed too.
FailureKeepsOld ==
    told = "failed" /\ old # NoBox =>
        old \in {disk["final"], disk["anterior"]}

\* As near to one save of one account as its doubt says.
OneWhole(x) == \E t \in Saves, v \in 1..MaxVer : x = Tree(t, v)
PartOfOne(x) == x = Empty \/ \E t \in Saves, v \in 1..MaxVer : x = Only(Tree(t, v), In(x))

\* A job writes to the savedata the user picked, and writes what the archive
\* holds under the picked folder, which is one whole save; where a listing broke
\* off, of the save when it was packed or of the staging folder, it is a part of
\* one save; two accounts' saves in one, or two versions, are written only where
\* emptying the staging folder of an earlier restore broke off.
RestoresOneSave ==
    [][\A s \in Saves : pc # "idle" /\ save'[s] # save[s] =>
         /\ s = cur
         /\ doubt'[s] = 0 => save'[s] = disk["final"].at[from] /\ OneWhole(save'[s])
         /\ doubt'[s] = 1 => PartOfOne(save'[s])]_vars

=============================================================================
