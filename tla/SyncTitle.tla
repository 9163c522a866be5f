----------------------------- MODULE SyncTitle -----------------------------
(***************************************************************************)
(* One game on several consoles sharing a cloud: the one-click sync        *)
(* (syncjob_sync_title) with the two jobs it offers on a conflict, backup  *)
(* and restore.                                                            *)
(*                                                                         *)
(* The direction is decided from three trees: the console's, the cloud's   *)
(* and the marker, the tree both had when they were last equal.  A         *)
(* fingerprint is modelled by the tree it is computed from.  Every save    *)
(* the game writes carries the sessions played to reach it, so that        *)
(* overwriting progress can be told from continuing it.                    *)
(*                                                                         *)
(* A job may be blind: it takes an error for the absence of something.     *)
(* readdir that fails is the end of a directory for savemount_copy_tree,   *)
(* clear_dir, dir_is_empty and cloud_upload_tree, stat that fails is a     *)
(* deleted file for cloud_prune_extras, nobody looks whether fingerprint_dir *)
(* failed, and a folder lookup without an answer is a folder not there.    *)
(***************************************************************************)
EXTENDS Integers

CONSTANTS
    Consoles,
    Backends,    \* cloud providers the user may select
    Files,       \* paths a save may contain
    FilesOf,     \* FilesOf[v]: the files of the v-th save ever written
    MaxVer,      \* how many saves are written, on all consoles
    MaxMishaps,  \* bound on failures and crashes together
    Overlap,     \* whether two consoles may use the cloud folder at once
    NoMark       \* the console has no marker for this game

ASSUME SyncAssumption ==
    /\ MaxVer \in Nat \ {0}
    /\ MaxMishaps \in Nat
    /\ FilesOf \in [1..MaxVer -> (SUBSET Files) \ {{}}]
    /\ Overlap \in BOOLEAN

Versions == 1..MaxVer
Trees == [Files -> 0..MaxVer]       \* 0: the file is not there
Empty == [f \in Files |-> 0]
Tree(v) == [f \in Files |-> IF f \in FilesOf[v] THEN v ELSE 0]
Whole(t) == \E v \in Versions : t = Tree(v)
In(t) == {f \in Files : t[f] # 0}
Parts(t) == {u \in Trees : \A f \in In(u) : u[f] = t[f]}

VARIABLES
    save,      \* save[c]: the console's savedata
    marker,    \* marker[c]: rev-<game>.txt
    active,    \* active[c]: the provider selected on console c
    cloud,     \* cloud[b]: the game's folder at provider b
    played,    \* how many saves have been written
    hist,      \* hist[v]: the sessions that led to save v
    given,     \* sessions the user chose to overwrite somewhere
    job,       \* job[c]: the job console c runs
    pc,        \* pc[c]: where it is
    here,      \* here[c]: console_dir, the copy of the savedata
    there,     \* there[c]: cloud_dir, what was downloaded
    mark,      \* mark[c]: the fingerprint the job is to record
    todo,      \* todo[c]: files the current loop has left
    good,      \* good[c]: all_ok of the current loop
    mishaps,
    blind,     \* consoles whose job is, or whose last one was, blind
    harm       \* "blind" since a job was, "cut" since an upload ended early

data   == <<save, marker, active, cloud>>
ghosts == <<played, hist, given>>
local  == <<job, pc, here, there, mark, todo, good>>
faults == <<mishaps, blind, harm>>
vars   == <<data, ghosts, local, faults>>

Progress(t) == UNION {hist[t[f]] : f \in In(t)}
Idle(c) == pc[c] = "idle"
Sending(c) == pc[c] \in {"upload", "prune"}
\* The job goes on at label l with files t to handle, and m to record.
Go(c, l, t, m) ==
    /\ pc' = [pc EXCEPT ![c] = l] /\ todo' = [todo EXCEPT ![c] = t]
    /\ mark' = [mark EXCEPT ![c] = m]
    /\ UNCHANGED <<job, here, there, good>>
\* The job returns; the copies it leaves on the card are cleared before use.
Return(c) ==
    /\ pc' = [pc EXCEPT ![c] = "idle"] /\ job' = [job EXCEPT ![c] = "none"]
    /\ here' = [here EXCEPT ![c] = Empty] /\ there' = [there EXCEPT ![c] = Empty]
    /\ mark' = [mark EXCEPT ![c] = Empty]
    /\ todo' = [todo EXCEPT ![c] = {}] /\ good' = [good EXCEPT ![c] = TRUE]
Mishap == mishaps < MaxMishaps /\ mishaps' = mishaps + 1
NoMishap == UNCHANGED mishaps
\* The job goes on, having seen things right or not.
Sees(c, right) ==
    IF right THEN UNCHANGED faults
    ELSE Mishap /\ blind' = blind \cup {c} /\ harm' = harm \cup {"blind"}
\* The job stops, perhaps before the folder is what it sends.
Stops(c) ==
    /\ harm' = IF Sending(c) /\ cloud'[active[c]] # here[c] THEN harm \cup {"cut"} ELSE harm
    /\ UNCHANGED blind

Init ==
    /\ save = [c \in Consoles |-> Empty] /\ marker = [c \in Consoles |-> NoMark]
    /\ active \in [Consoles -> Backends]
    /\ cloud = [b \in Backends |-> Empty]
    /\ played = 0 /\ hist = [v \in Versions |-> {}] /\ given = {}
    /\ job = [c \in Consoles |-> "none"] /\ pc = [c \in Consoles |-> "idle"]
    /\ here = [c \in Consoles |-> Empty] /\ there = [c \in Consoles |-> Empty]
    /\ mark = [c \in Consoles |-> Empty]
    /\ todo = [c \in Consoles |-> {}] /\ good = [c \in Consoles |-> TRUE]
    /\ mishaps = 0 /\ blind = {} /\ harm = {}
-----------------------------------------------------------------------------
(* The players and the settings.  While a job runs the app is in front.    *)

Play(c) ==
    /\ Idle(c) /\ played < MaxVer
    /\ played' = played + 1
    /\ save' = [save EXCEPT ![c] = Tree(played + 1)]
    /\ hist' = [hist EXCEPT ![played + 1] = Progress(save[c]) \cup {played + 1}]
    /\ UNCHANGED <<marker, active, cloud, given, local, faults>>

Select(c) ==
    /\ Idle(c)
    /\ \E b \in Backends \ {active[c]} : active' = [active EXCEPT ![c] = b]
    /\ UNCHANGED <<save, marker, cloud, ghosts, local, faults>>
-----------------------------------------------------------------------------
(* Reading both sides.                                                     *)

\* What a folder on the card may hold instead of a copy: files are missing, and
\* files an earlier job left there are still in it.
Mixed == {t \in Trees : \A f \in In(t) : t[f] <= played /\ f \in FilesOf[t[f]]}

\* Mount read-only, copy to the card, unmount.  A restore reads the save later.
Begin(c, j) ==
    /\ Idle(c)
    /\ Overlap \/ \A d \in Consoles : Idle(d)
    /\ job' = [job EXCEPT ![c] = j]
    /\ pc' = [pc EXCEPT ![c] = IF j = "backup" THEN "upload" ELSE "find"]
    /\ \E t \in IF j = "restore" THEN {save[c]} ELSE Mixed :
          /\ here' = [here EXCEPT ![c] = t]
          /\ todo' = [todo EXCEPT ![c] = IF j = "backup" THEN In(t) ELSE {}]
          /\ IF t = save[c]
               THEN blind' = blind \ {c} /\ UNCHANGED <<mishaps, harm>>
               ELSE Sees(c, FALSE)
    /\ UNCHANGED <<data, ghosts, there, mark, good>>

\* The lookup: the folder is found and cloud_dir cleared for it, or, to a sync,
\* it is not there; which is also what a lookup without an answer says.
Find(c) ==
    /\ pc[c] = "find"
    /\ \/ \E t \in Mixed :
             /\ there' = [there EXCEPT ![c] = t]
             /\ todo' = [todo EXCEPT ![c] = In(cloud[active[c]])]
             /\ Sees(c, t = Empty)
       \/ /\ job[c] = "sync" /\ UNCHANGED <<there, todo>>
          /\ Sees(c, cloud[active[c]] = Empty)
    /\ pc' = [pc EXCEPT ![c] = "fetch"]
    /\ UNCHANGED <<data, ghosts, job, here, mark, good>>

FetchFile(c) ==
    /\ pc[c] = "fetch"
    /\ \E f \in todo[c] :
          /\ todo' = [todo EXCEPT ![c] = @ \ {f}]
          /\ there' = [there EXCEPT ![c][f] = cloud[active[c]][f]]
          /\ cloud[active[c]][f] # 0
    /\ UNCHANGED <<data, ghosts, job, pc, here, mark, good, faults>>

\* No token, no folder of the app, a file that does not come, or, to a restore,
\* no folder of the game: nothing was changed.
FetchFails(c) ==
    /\ pc[c] \in {"find", "fetch"}
    /\ Return(c)
    /\ UNCHANGED <<data, ghosts, faults>>
-----------------------------------------------------------------------------
(* Deciding.                                                               *)

\* What dir_is_empty and fingerprint_dir may say of a tree, and what they should.
Looks(t) == [none: {t = Empty, TRUE}, print: Parts(t)]
Right(t) == [none |-> t = Empty, print |-> t]

\* As Verdict, but trusting the cloud when the console changed too.
VerdictCloudWins(l, r, m) ==
    CASE l.none /\ r.none   -> "nothing"
      [] ~l.none /\ r.none  -> "upload"
      [] l.none /\ ~r.none  -> "write"
      [] ~l.none /\ ~r.none ->
            IF l.print = r.print THEN "equal"
            ELSE IF m = NoMark THEN "conflict"
            ELSE IF r.print # m THEN "write" ELSE "upload"

\* syncjob_sync_title's decision from console, cloud and marker.
Verdict(l, r, m) ==
    CASE l.none /\ r.none   -> "nothing"
      [] ~l.none /\ r.none  -> "upload"
      [] l.none /\ ~r.none  -> "write"
      [] ~l.none /\ ~r.none ->
            IF l.print = r.print THEN "equal"
            ELSE IF m = NoMark \/ (l.print # m /\ r.print # m) THEN "conflict"
            ELSE IF r.print # m THEN "write" ELSE "upload"

Decide(c) ==
    /\ pc[c] = "fetch" /\ todo[c] = {} /\ job[c] = "sync"
    /\ \E l \in Looks(here[c]), r \in Looks(there[c]) :
          /\ Sees(c, l = Right(here[c]) /\ r = Right(there[c]))
          /\ LET v == Verdict(l, r, marker[c])
             IN  CASE v \in {"nothing", "conflict"} -> Return(c)
                   [] v = "equal"  -> Go(c, "mark", {}, l.print)
                   [] v = "write"  -> Go(c, "write", {}, r.print)
                   [] v = "upload" -> Go(c, "upload", In(here[c]), l.print)
    /\ UNCHANGED <<data, ghosts>>

\* A restore writes whatever differs, or cannot be compared with the save, except
\* an empty download.
DecideRestore(c) ==
    /\ pc[c] = "fetch" /\ todo[c] = {} /\ job[c] = "restore"
    /\ \E r \in Looks(there[c]) :
          /\ Sees(c, r = Right(there[c]))
          /\ \/ r.none /\ Return(c)
             \/ ~r.none /\ r.print = save[c] /\ Go(c, "mark", {}, save[c])
             \/ ~r.none /\ Go(c, "write", {}, Empty)
    /\ UNCHANGED <<data, ghosts>>
-----------------------------------------------------------------------------
(* Console to cloud.  What a backup overwrites, the user asked for.        *)

SendTo(c, t) ==
    /\ cloud' = [cloud EXCEPT ![active[c]] = t]
    /\ given' = IF job[c] = "sync" THEN given
                ELSE given \cup (Progress(cloud[active[c]]) \ Progress(t))

\* A file that fails does not stop the others.
UploadFile(c) ==
    /\ pc[c] = "upload"
    /\ \E f \in todo[c] :
          /\ todo' = [todo EXCEPT ![c] = @ \ {f}]
          /\ \/ /\ SendTo(c, [cloud[active[c]] EXCEPT ![f] = here[c][f]])
                /\ UNCHANGED good /\ NoMishap
             \/ /\ good' = [good EXCEPT ![c] = FALSE] /\ Mishap
                /\ UNCHANGED <<cloud, given>>
    /\ UNCHANGED <<save, marker, active, played, hist, job, pc, here, there, mark, blind, harm>>

\* As UploadEnds, but leaving files of an older save in the folder.
UploadEndsUnpruned(c) ==
    /\ pc[c] = "upload" /\ UNCHANGED <<data, ghosts>>
    /\ \/ /\ good[c] /\ Sees(c, todo[c] = {})
          /\ IF job[c] = "sync" THEN Go(c, "mark", {}, mark[c]) ELSE Return(c)
       \/ ~good[c] /\ todo[c] = {} /\ Return(c) /\ NoMishap /\ Stops(c)

\* Files the listing did not give are not sent, and not missed.
UploadEnds(c) ==
    /\ pc[c] = "upload" /\ UNCHANGED <<data, ghosts>>
    /\ \/ good[c] /\ Go(c, "prune", {}, mark[c]) /\ Sees(c, todo[c] = {})
       \/ ~good[c] /\ todo[c] = {} /\ Return(c) /\ NoMishap /\ Stops(c)

\* What cloud_prune_extras leaves in the folder: not the files `unseen' that stat
\* says are not here, but the extra ones `kept' that would not go.
Pruned(c, unseen, kept) ==
    [f \in Files |-> IF f \in (In(here[c]) \ unseen) \cup kept THEN cloud[active[c]][f] ELSE 0]
PruneFaults(c, unseen, kept) ==
    /\ IF unseen \cup kept = {} THEN NoMishap ELSE Mishap
    /\ blind' = IF unseen = {} THEN blind ELSE blind \cup {c}
    /\ harm' = harm \cup (IF unseen = {} THEN {} ELSE {"blind"})
                    \cup (IF kept = {} THEN {} ELSE {"cut"})

\* As Prune, but marking whatever became of the extras.
PruneMarksAnyway(c) ==
    /\ pc[c] = "prune"
    /\ \E unseen \in SUBSET In(here[c]), kept \in SUBSET (In(cloud[active[c]]) \ In(here[c])) :
          /\ SendTo(c, Pruned(c, unseen, kept))
          /\ IF job[c] = "sync" THEN Go(c, "mark", {}, mark[c]) ELSE Return(c)
          /\ PruneFaults(c, unseen, kept)
    /\ UNCHANGED <<save, marker, active, played, hist>>

\* cloud_prune_extras; extras the provider refuses to delete cost the marker.
\* A backup leaves no marker either way.
Prune(c) ==
    /\ pc[c] = "prune"
    /\ \E unseen \in SUBSET In(here[c]), kept \in SUBSET (In(cloud[active[c]]) \ In(here[c])) :
          /\ SendTo(c, Pruned(c, unseen, kept))
          /\ IF kept = {} /\ job[c] = "sync" THEN Go(c, "mark", {}, mark[c]) ELSE Return(c)
          /\ PruneFaults(c, unseen, kept)
    /\ UNCHANGED <<save, marker, active, played, hist>>
-----------------------------------------------------------------------------
(* Cloud to console.                                                       *)

\* write_over_save commits what savemount_copy_tree says is all of it.
Write(c) ==
    /\ pc[c] = "write"
    /\ \E got \in Parts(there[c]) :
          /\ save' = [save EXCEPT ![c] = got]
          /\ given' = IF job[c] = "sync" THEN given
                      ELSE given \cup (Progress(save[c]) \ Progress(got))
          /\ Sees(c, got = there[c])
    /\ IF job[c] = "sync" THEN Go(c, "mark", {}, mark[c]) ELSE Return(c)
    /\ UNCHANGED <<marker, active, cloud, played, hist>>

\* Whatever failed was noticed, and nothing committed.
WriteFails(c) ==
    /\ pc[c] = "write"
    /\ Return(c)
    /\ UNCHANGED <<data, ghosts, faults>>

\* syncjob_mark_synced drops the result of writing the marker file.
Mark(c) ==
    /\ pc[c] = "mark"
    /\ \/ marker' = [marker EXCEPT ![c] = mark[c]] /\ NoMishap
       \/ UNCHANGED marker /\ Mishap
    /\ Return(c)
    /\ UNCHANGED <<save, active, cloud, ghosts, blind, harm>>

\* Power, or the app, goes while the job runs; or an upload is called off.
Crash(c) ==
    /\ ~Idle(c) /\ Mishap
    /\ Return(c)
    /\ UNCHANGED <<data, ghosts>> /\ Stops(c)

Next ==
    \E c \in Consoles :
        \/ Play(c)
        \/ \E j \in {"sync", "restore", "backup"} : Begin(c, j)
        \/ Find(c) \/ FetchFile(c) \/ FetchFails(c) \/ Decide(c) \/ DecideRestore(c)
        \/ UploadFile(c) \/ UploadEnds(c) \/ Prune(c)
        \/ Write(c) \/ WriteFails(c) \/ Mark(c) \/ Crash(c)

\* Everybody stays with one provider.
Spec == Init /\ [][Next]_vars
\* The provider may be changed in the settings at any time.
SpecProviders == Init /\ [][Next \/ \E c \in Consoles : Select(c)]_vars
-----------------------------------------------------------------------------
\* Every variable has its type, and a job about to write has something to write:
\* "nada" is never written over a save, whatever the cloud folder held.
TypeOK ==
    /\ \A c \in Consoles : pc[c] = "write" => there[c] # Empty
    /\ save \in [Consoles -> Trees] /\ marker \in [Consoles -> Trees \cup {NoMark}]
    /\ active \in [Consoles -> Backends] /\ cloud \in [Backends -> Trees]
    /\ played \in 0..MaxVer /\ hist \in [Versions -> SUBSET Versions]
    /\ given \subseteq Versions
    /\ job \in [Consoles -> {"none", "sync", "restore", "backup"}]
    /\ pc \in [Consoles -> {"idle", "find", "fetch", "upload", "prune", "write", "mark"}]
    /\ here \in [Consoles -> Trees] /\ there \in [Consoles -> Trees]
    /\ mark \in [Consoles -> Trees]
    /\ todo \in [Consoles -> SUBSET Files] /\ good \in [Consoles -> BOOLEAN]
    /\ mishaps \in 0..MaxMishaps /\ blind \subseteq Consoles /\ harm \subseteq {"blind", "cut"}

\* "Escolher sozinho ai apaga progresso de um dos lados": on neither side does a
\* sync overwrite sessions, unless the user gave them up in an earlier choice.
\* That is so until an error of the card, or a lookup without an answer, makes
\* some job take for absent what is there: a blind one may lose them.
NoSilentLoss ==
    [][ "blind" \notin harm' =>
        /\ \A c \in Consoles : Progress(save[c]) \subseteq Progress(save[c])' \cup given'
        /\ \A b \in Backends : Progress(cloud[b]) \subseteq Progress(cloud[b])' \cup given'
      ]_vars

\* The same without the exception: does not hold, and no run has it.
NoLossAtAll ==
    [][ /\ \A c \in Consoles : Progress(save[c]) \subseteq Progress(save[c])' \cup given'
        /\ \A b \in Backends : Progress(cloud[b]) \subseteq Progress(cloud[b])' \cup given'
      ]_vars

\* The marker is only ever set to what the console and the cloud folder both
\* hold at that moment, unless by a job that was blind itself.
MarkerMeansEqual ==
    [][ \A c \in Consoles : marker'[c] # marker[c] /\ c \notin blind =>
            marker'[c] = save[c] /\ marker'[c] = cloud[active[c]] ]_vars

\* Consoles hand saves on file by file, by syncs, backups and restores.  Whatever
\* else fails, while no upload has ended early and no job was blind, what a console
\* has is a save the game wrote, not a mixture of what several wrote into the folder.
SavesWholeUntilCut ==
    harm = {} => \A c \in Consoles : save[c] = Empty \/ Whole(save[c])

\* The savedata is never "metade de ontem, metade de hoje": what a sync writes
\* into it on its own is a save the game wrote.  Does not hold when the folder it
\* takes is one that an upload left half sent, or when it copies blindly; no run has it.
SyncWritesWholeSaves ==
    [][ \A c \in Consoles :
            save'[c] # save[c] /\ job[c] = "sync" /\ pc[c] = "write" => Whole(save'[c]) ]_vars
=============================================================================
