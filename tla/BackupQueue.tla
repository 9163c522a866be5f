---------------------------- MODULE BackupQueue ----------------------------
(***************************************************************************)
(* The background module's persistent snapshot queue: core/backupqueue.c,  *)
(* driven by the capture worker and the upload worker of                   *)
(* sysmodule/source/main.c, with the cloud folder it mirrors and the       *)
(* "last synchronized" marker it records.                                  *)
(*                                                                         *)
(* The queue is a directory on the SD card.  An entry is a directory named *)
(* <sequence>.<suffix>; the suffix says whether it is a capture in         *)
(* progress, a published snapshot or a retired one.  Every step below is   *)
(* one write to the SD card or to the cloud, so a crash may fall between   *)
(* any two of them.                                                        *)
(*                                                                         *)
(* savemount_copy_tree and cloud_upload_tree take an error of readdir for  *)
(* the end of a directory, and prune_item_cb takes one of stat for a file  *)
(* that is not there: a snapshot may lack files and be published as good,  *)
(* an upload may miss files of it and count as complete.                   *)
(***************************************************************************)
EXTENDS Integers, FiniteSets

CONSTANTS
    Saves,          \* the savedata of the console, one per (game, account)
    Files,          \* file names a save may hold
    Backends,       \* cloud providers (Drive, WebDAV)
    FilesOf,        \* FilesOf[v]: the files a save holds in its version v
    MaxVer,         \* bound: versions the game writes of one save
    MaxId,          \* bound: sequence numbers
    MaxMishaps,     \* bound: failed operations, pauses, exclusions, crashes
    BlindScan,      \* may the queue directory not open, or its listing break off?
    Replaces,       \* does rename put a file over an existing one?
    Absent,         \* no directory of that name
    Partial         \* a directory whose capture is not complete

Versions == 1..MaxVer
Ids      == 1..MaxId

\* BackupJob, without the checksum and the attempt count.  The fingerprint stands
\* for the copied tree: the files `has' of version `snap'.  `waiting' says that
\* the retry deadline `due' is still in the future.
Manifest == [save: Saves, snap: Versions, has: SUBSET Files, backend: Backends,
             waiting: BOOLEAN]

\* What an entry holds once its capture ended: the manifest with its tree and the
\* journal uploaded.txt.
Entry == [job: Manifest, sent: SUBSET Files]

ASSUME ConstantsAssumption ==
    /\ MaxVer \in Nat \ {0}
    /\ MaxId \in Nat \ {0}
    /\ MaxMishaps \in Nat
    /\ BlindScan \in BOOLEAN
    /\ Replaces \in BOOLEAN
    /\ FilesOf \in [Versions -> SUBSET Files]
    /\ Absent \notin Entry
    /\ Partial \notin Entry
    /\ Partial # Absent

VARIABLES
    (* The world outside the module. *)
    live,       \* live[s]: version of save s on the console
    cloud,      \* cloud[<<b, s>>][f]: version of f in the save's folder, 0 if none
    paused,     \* uploads.paused, the cloud destination off, or the kill switch
    excluded,   \* saves whose game is on the exclusion list
    mishaps,    \* how many failures and interventions have happened
    (* Durable state on the SD card. *)
    building,   \* building[i]: contents of <i>.building, a capture in progress
    jobs,       \* jobs[i]: contents of <i>.job, a published snapshot
    done,       \* done[i]: contents of <i>.job.done, a retired job
    marker,     \* marker[s]: version recorded in rev-*.txt, 0 if none
    (* Volatile state of the running module. *)
    running,    \* the module's process is alive
    active,     \* provider pinned when the module started
    capPc, capId, capSave,                    \* backupqueue_enqueue
    upPc, upId, upJob, upTodo, upOk, upCause, \* upload_worker
    (* History, read by no guard. *)
    unread      \* files of the snapshot that this upload missed

queueVars == <<building, jobs, done>>
sdVars  == <<queueVars, marker>>
capVars == <<capPc, capId, capSave>>
upVars  == <<upPc, upId, upJob, upTodo, upOk, upCause, unread>>
envVars == <<live, paused, excluded>>
vars    == <<live, cloud, paused, excluded, mishaps, building, jobs, done,
             marker, running, active, capPc, capId, capSave, upPc, upId, upJob,
             upTodo, upOk, upCause, unread>>

-----------------------------------------------------------------------------
(* The directory. *)

Present(dir) == {i \in Ids : dir[i] # Absent}
Entries      == Present(building) \cup Present(jobs) \cup Present(done)

\* Mutant: the uploader takes whichever job readdir yields first.
IsHeadUnsorted(i) == i \in Present(jobs)
IsHead(i) == i \in Present(jobs) /\ \A j \in Present(jobs) : i <= j

\* Mutant: a new capture reuses the first free sequence number.
NextIdFillsGap(i) == i \notin Entries /\ \A j \in 1..(i - 1) : j \in Entries

\* scan() + 1: one more than the largest sequence number of any entry it saw; an
\* empty directory, or one that cannot be opened, yields 1.
NextId(i) ==
    /\ i \in Nat \ {0}
    /\ (\A j \in Entries : j < i) \/ BlindScan
    /\ i = 1 \/ i - 1 \in Entries

\* The folder of a job's save at its provider.
FolderOf(m) == <<m.backend, m.save>>

\* Of the files F, the cloud has in that folder those of the snapshot m, as they
\* are in it, and no other.
Mirrors(m, F) ==
    \A f \in F : cloud[FolderOf(m)][f] = IF f \in m.has THEN m.snap ELSE 0

\* Everything that goes wrong, or that somebody interferes with, draws on one
\* budget, so that a bounded run sees every combination of a few of them.
Mishap   == mishaps < MaxMishaps /\ mishaps' = mishaps + 1
NoMishap == UNCHANGED mishaps

\* The locals of the two workers between two calls.
CaptureIdle == capPc' = "idle" /\ capId' = 0 /\ capSave' = Absent
UploadIdle  == /\ upPc' = "idle" /\ upId' = 0 /\ upJob' = Absent
               /\ upTodo' = {} /\ upOk' = TRUE /\ upCause' = "none" /\ unread' = {}

-----------------------------------------------------------------------------
(* Before the module ever ran: saves exist, nothing is queued. *)

Init ==
    /\ live = [s \in Saves |-> 1]
    /\ cloud = [bs \in Backends \X Saves |-> [f \in Files |-> 0]]
    /\ paused = FALSE
    /\ excluded = {}
    /\ mishaps = 0
    /\ building = [i \in Ids |-> Absent]
    /\ jobs = [i \in Ids |-> Absent]
    /\ done = [i \in Ids |-> Absent]
    /\ marker = [s \in Saves |-> 0]
    /\ running = FALSE
    /\ active \in Backends
    /\ capPc = "idle" /\ capId = 0 /\ capSave = Absent
    /\ upPc = "idle" /\ upId = 0 /\ upJob = Absent
    /\ upTodo = {} /\ upOk = TRUE /\ upCause = "none" /\ unread = {}

-----------------------------------------------------------------------------
(* The world: the game writes saves, the user flips switches, time passes. *)

Play(s) ==
    /\ live[s] < MaxVer
    /\ live' = [live EXCEPT ![s] = @ + 1]
    /\ UNCHANGED <<cloud, paused, excluded, mishaps, sdVars, running, active,
                   capVars, upVars>>

Pause ==
    /\ ~paused /\ Mishap
    /\ paused' = TRUE
    /\ UNCHANGED <<live, cloud, excluded, sdVars, running, active, capVars, upVars>>

Resume ==
    /\ paused
    /\ paused' = FALSE
    /\ UNCHANGED <<live, cloud, excluded, mishaps, sdVars, running, active,
                   capVars, upVars>>

Exclude(s) ==
    /\ s \notin excluded /\ Mishap
    /\ excluded' = excluded \cup {s}
    /\ UNCHANGED <<live, cloud, paused, sdVars, running, active, capVars, upVars>>

Include(s) ==
    /\ s \in excluded
    /\ excluded' = excluded \ {s}
    /\ UNCHANGED <<live, cloud, paused, mishaps, sdVars, running, active,
                   capVars, upVars>>

\* The retry deadline of a job arrives.
DeadlinePasses(i) ==
    /\ i \in Present(jobs) /\ jobs[i].job.waiting
    /\ jobs' = [jobs EXCEPT ![i].job.waiting = FALSE]
    /\ UNCHANGED <<envVars, cloud, mishaps, building, done, marker, running,
                   active, capVars, upVars>>

-----------------------------------------------------------------------------
(* backupqueue_enqueue, called by the capture worker, the only producer. *)

\* scan, then mkdir of <id>.building, which fails if the directory exists.
CaptureBegin(s) ==
    /\ running /\ capPc = "idle"
    /\ \E i \in Ids :
        /\ NextId(i)
        /\ building[i] = Absent
        /\ building' = [building EXCEPT ![i] = Partial]
        /\ capId' = i
    /\ capSave' = s
    /\ capPc' = "copy"
    /\ UNCHANGED <<envVars, cloud, mishaps, jobs, done, marker, running, active,
                   upVars>>

\* Mutant: the result of the copy is ignored and the entry published anyway.
CaptureCopyUnchecked ==
    /\ running /\ capPc = "copy"
    /\ Mishap /\ capPc' = "publish"
    /\ UNCHANGED <<envVars, cloud, sdVars, running, active, capId, capSave, upVars>>

\* syncjob_snapshot and write_job into the building directory.  A listing of the
\* save that breaks off gives a tree that lacks files: it is flushed and
\* fingerprinted as it is.
CaptureCopy ==
    /\ running /\ capPc = "copy"
    /\ \/ \E got \in SUBSET FilesOf[live[capSave]] :
             /\ building' = [building EXCEPT ![capId] =
                    [job  |-> [save |-> capSave, snap |-> live[capSave], has |-> got,
                               backend |-> active, waiting |-> FALSE],
                     sent |-> {}]]
             /\ capPc' = "publish"
             /\ IF got = FilesOf[live[capSave]] THEN NoMishap ELSE Mishap
       \/ Mishap /\ capPc' = "discard" /\ UNCHANGED building
    /\ UNCHANGED <<envVars, cloud, jobs, done, marker, running, active, capId,
                   capSave, upVars>>

\* rename(<id>.building, <id>.job), which fails if a job of that name exists.
CapturePublish ==
    /\ running /\ capPc = "publish"
    /\ \/ /\ jobs[capId] = Absent
          /\ jobs' = [jobs EXCEPT ![capId] = building[capId]]
          /\ building' = [building EXCEPT ![capId] = Absent]
          /\ CaptureIdle
          /\ NoMishap
       \/ /\ IF jobs[capId] # Absent THEN NoMishap ELSE Mishap
          /\ capPc' = "discard"
          /\ UNCHANGED <<jobs, building, capId, capSave>>
    /\ UNCHANGED <<envVars, cloud, done, marker, running, active, upVars>>

\* remove_tree of a capture that failed; its own failure is ignored.
CaptureDiscard ==
    /\ running /\ capPc = "discard"
    /\ \/ building' = [building EXCEPT ![capId] = Absent] /\ NoMishap
       \/ UNCHANGED building /\ Mishap
    /\ CaptureIdle
    /\ UNCHANGED <<envVars, cloud, jobs, done, marker, running, active, upVars>>

-----------------------------------------------------------------------------
(* upload_worker, the only consumer. *)

\* One pass of the loop finds work: uploads are not paused and the job with the
\* smallest sequence number scan saw is of this provider, not excluded and due.
UploadPick ==
    /\ running /\ upPc = "idle" /\ ~paused
    /\ \E i \in Ids :
        /\ IsHead(i) \/ (BlindScan /\ i \in Present(jobs))
        /\ LET m == jobs[i].job IN
            /\ m.backend = active
            /\ m.save \notin excluded
            /\ ~m.waiting
            /\ upJob' = m
        /\ upId' = i
    /\ upPc' = "open" /\ upTodo' = {} /\ upOk' = TRUE /\ upCause' = "none" /\ unread' = {}
    /\ UNCHANGED <<envVars, cloud, mishaps, sdVars, running, active, capVars>>

\* An operation of the job failed.  While uploads are paused it is the abort
\* callback that makes it fail.
Fails ==
    /\ upOk' = FALSE
    /\ \/ paused /\ upCause # "error" /\ upCause' = "pause" /\ NoMishap
       \/ upCause' = "error" /\ Mishap

\* cloud_title_folder at the pinned provider.
Folder == <<active, upJob.save>>

\* Mutant: a failed login ends the upload thread.
UploadOpenGivesUp ==
    /\ running /\ upPc = "open"
    /\ \/ /\ upPc' = "tree" /\ upTodo' = upJob.has
          /\ UNCHANGED <<upOk, upCause>> /\ NoMishap
       \/ Fails /\ upPc' = "stopped" /\ UNCHANGED upTodo
    /\ UNCHANGED <<envVars, cloud, sdVars, running, active, capVars, upId, upJob, unread>>

\* Saved login, fingerprint of the snapshot, cloud session and title folder.
UploadOpen ==
    /\ running /\ upPc = "open"
    /\ \/ /\ upPc' = "tree" /\ upTodo' = upJob.has
          /\ UNCHANGED <<upOk, upCause>> /\ NoMishap
       \/ Fails /\ upPc' = "failed" /\ UNCHANGED upTodo
    /\ UNCHANGED <<envVars, cloud, sdVars, running, active, capVars, upId, upJob, unread>>

\* cloud_upload_tree: the next file.  It is skipped when the journal has it and
\* the cloud still shows a file of that name (a lookup that fails shows none);
\* otherwise it is sent, and then recorded in the journal.  A failed send, a lost
\* answer or a failed journal write leaves the file old or new in the cloud but
\* not journalled, and the loop goes on with the other files.
UploadFile(f) ==
    /\ running /\ upPc = "tree" /\ f \in upTodo
    /\ upTodo' = upTodo \ {f}
    /\ \/ /\ f \in jobs[upId].sent
          /\ cloud[Folder][f] # 0
          /\ UNCHANGED <<cloud, jobs, upOk, upCause>> /\ NoMishap
       \/ /\ IF f \in jobs[upId].sent /\ cloud[Folder][f] # 0
               THEN Mishap ELSE NoMishap
          /\ cloud' = [cloud EXCEPT ![Folder][f] = upJob.snap]
          /\ jobs' = [jobs EXCEPT ![upId].sent = @ \cup {f}]
          /\ UNCHANGED <<upOk, upCause>>
       \/ /\ Fails
          /\ UNCHANGED jobs
          /\ \/ UNCHANGED cloud
             \/ cloud' = [cloud EXCEPT ![Folder][f] = upJob.snap]
    /\ UNCHANGED <<envVars, building, done, marker, running, active, capVars, upPc,
                   upId, upJob, unread>>

\* The listing of a directory breaks off: what it had not given is not sent, and
\* the tree does not count as failed for it.
UploadMisses(lost) ==
    /\ running /\ upPc = "tree" /\ Mishap
    /\ upTodo' = upTodo \ lost /\ unread' = unread \cup lost
    /\ UNCHANGED <<envVars, cloud, sdVars, running, active, capVars, upPc, upId, upJob,
                   upOk, upCause>>

\* aborted() at the head of the file loop: the rest of the tree is left, and the
\* job counts as failed.  (UploadFile under a pause leaves out one file only:
\* what happens when the pause is lifted between two directories of the tree.)
UploadAbort ==
    /\ running /\ upPc = "tree" /\ upTodo # {} /\ paused
    /\ upTodo' = {}
    /\ upOk' = FALSE
    /\ upCause' = IF upCause = "error" THEN "error" ELSE "pause"
    /\ UNCHANGED <<envVars, cloud, mishaps, sdVars, running, active, capVars, upPc, upId,
                   upJob, unread>>

\* The tree is through: prune only if no file failed.  cloud_prune_extras lists
\* the folder; what the snapshot lacks is removed next.
UploadTreeDone ==
    /\ running /\ upPc = "tree" /\ upTodo = {}
    /\ \/ ~upOk /\ upPc' = "failed" /\ UNCHANGED <<upTodo, upOk, upCause>> /\ NoMishap
       \/ /\ upOk /\ upPc' = "prune"
          /\ upTodo' = {f \in Files \ upJob.has : cloud[Folder][f] # 0}
          /\ UNCHANGED <<upOk, upCause>> /\ NoMishap
       \/ upOk /\ Fails /\ upPc' = "failed" /\ UNCHANGED upTodo
    /\ UNCHANGED <<envVars, cloud, sdVars, running, active, capVars, upId, upJob, unread>>

\* prune_item_cb removes one file the snapshot does not have, unless a pause
\* makes it return at once; a failure is remembered and the listing goes on.
UploadPrune(f) ==
    /\ running /\ upPc = "prune" /\ f \in upTodo
    /\ upTodo' = upTodo \ {f}
    /\ \/ /\ cloud' = [cloud EXCEPT ![Folder][f] = 0]
          /\ UNCHANGED <<upOk, upCause>> /\ NoMishap
       \/ /\ Fails
          /\ UNCHANGED cloud
    /\ UNCHANGED <<envVars, sdVars, running, active, capVars, upPc, upId, upJob, unread>>

\* A file of the snapshot that stat cannot see is taken for an extra one.
UploadPruneBlind(f) ==
    /\ running /\ upPc = "prune" /\ f \in upJob.has /\ Mishap
    /\ cloud' = [cloud EXCEPT ![Folder][f] = 0]
    /\ unread' = unread \cup {f}
    /\ UNCHANGED <<envVars, sdVars, running, active, capVars, upPc, upId, upJob, upTodo,
                   upOk, upCause>>

\* Mutant: a failed prune counts as an exact mirror.
UploadPruneDoneLax ==
    /\ running /\ upPc = "prune" /\ upTodo = {}
    /\ upPc' = "mark"
    /\ UNCHANGED <<envVars, cloud, mishaps, sdVars, running, active, capVars,
                   upId, upJob, upTodo, upOk, upCause, unread>>

\* `exact' is true only when everything was pruned.
UploadPruneDone ==
    /\ running /\ upPc = "prune" /\ upTodo = {}
    /\ upPc' = IF upOk THEN "mark" ELSE "failed"
    /\ UNCHANGED <<envVars, cloud, mishaps, sdVars, running, active, capVars,
                   upId, upJob, upTodo, upOk, upCause, unread>>

\* The save has a rev-*.txt already.
MarkerTaken(s) == marker[s] # 0

\* Mutant: the job is retired even when the marker could not be written.
UploadMarkUnchecked ==
    /\ running /\ upPc = "mark"
    /\ \/ marker' = [marker EXCEPT ![upJob.save] = upJob.snap] /\ NoMishap
       \/ UNCHANGED marker /\ Mishap
    /\ upPc' = "finish"
    /\ UNCHANGED <<envVars, cloud, queueVars, running, active, capVars, upId, upJob,
                   upTodo, upOk, upCause, unread>>

\* syncjob_mark_synced_checked: tmp file, fsync, rename over the old marker.
UploadMark ==
    /\ running /\ upPc = "mark"
    /\ \/ /\ MarkerTaken(upJob.save) => Replaces
          /\ marker' = [marker EXCEPT ![upJob.save] = upJob.snap]
          /\ upPc' = "finish"
          /\ UNCHANGED <<upOk, upCause>> /\ NoMishap
       \/ /\ IF MarkerTaken(upJob.save) /\ ~Replaces THEN NoMishap ELSE Mishap
          /\ upOk' = FALSE /\ upCause' = "error" /\ upPc' = "failed"
          /\ UNCHANGED marker
    /\ UNCHANGED <<envVars, cloud, queueVars, running, active, capVars, upId, upJob,
                   upTodo, unread>>

\* backupqueue_finish: rename(<id>.job, <id>.job.done) retires the job.
UploadFinish ==
    /\ running /\ upPc = "finish"
    /\ \/ /\ done[upId] = Absent
          /\ done' = [done EXCEPT ![upId] = jobs[upId]]
          /\ jobs' = [jobs EXCEPT ![upId] = Absent]
          /\ upPc' = "clean"
          /\ UNCHANGED <<upOk, upCause>> /\ NoMishap
       \/ /\ IF done[upId] # Absent THEN NoMishap ELSE Mishap
          /\ upOk' = FALSE /\ upCause' = "error" /\ upPc' = "failed"
          /\ UNCHANGED <<jobs, done>>
    /\ UNCHANGED <<envVars, cloud, building, marker, running, active, capVars, upId,
                   upJob, upTodo, unread>>

\* ... and remove_tree cleans it up, best effort.
UploadClean ==
    /\ running /\ upPc = "clean"
    /\ \/ done' = [done EXCEPT ![upId] = Absent] /\ NoMishap
       \/ UNCHANGED done /\ Mishap
    /\ UploadIdle
    /\ UNCHANGED <<envVars, cloud, building, jobs, marker, running, active, capVars>>

\* The job failed.  Under a pause it is simply kept; otherwise backupqueue_retry
\* writes the manifest back with a later deadline, over the old one, and may fail
\* to: then the job is due again at once.
UploadFailed ==
    /\ running /\ upPc = "failed"
    /\ \/ paused /\ UNCHANGED jobs /\ NoMishap
       \/ /\ ~paused /\ Replaces /\ NoMishap
          /\ jobs' = [jobs EXCEPT ![upId].job = [upJob EXCEPT !.waiting = TRUE]]
       \/ /\ ~paused /\ UNCHANGED jobs
          /\ IF Replaces THEN Mishap ELSE NoMishap
    /\ UploadIdle
    /\ UNCHANGED <<envVars, cloud, building, done, marker, running, active, capVars>>

-----------------------------------------------------------------------------
(* Process lifetime. *)

\* Power loss, console sleep kill, or the end of the process: both workers stop
\* where they are and only the SD card and the cloud remain.
Crash ==
    /\ running /\ Mishap
    /\ running' = FALSE
    /\ CaptureIdle /\ UploadIdle
    /\ UNCHANGED <<envVars, cloud, sdVars, active>>

\* Mutant: recovery compares suffixes by prefix and takes .job for .job.done.
StartRemovesJobs ==
    /\ ~running
    /\ building' = [i \in Ids |-> Absent]
    /\ jobs' = [i \in Ids |-> Absent]
    /\ done' = [i \in Ids |-> Absent]
    /\ active' \in Backends
    /\ running' = TRUE
    /\ UNCHANGED <<envVars, cloud, mishaps, marker, capVars, upVars>>

\* main(): backupqueue_recover removes unpublished captures and retired jobs,
\* best effort, and the provider configured now is pinned.
Start ==
    /\ ~running
    /\ \E keptBuilding \in SUBSET Present(building), keptDone \in SUBSET Present(done) :
        /\ building' = [i \in Ids |-> IF i \in keptBuilding THEN building[i] ELSE Absent]
        /\ done' = [i \in Ids |-> IF i \in keptDone THEN done[i] ELSE Absent]
        /\ IF keptBuilding \cup keptDone = {} THEN NoMishap ELSE Mishap
    /\ active' \in Backends
    /\ running' = TRUE
    /\ UNCHANGED <<envVars, cloud, jobs, marker, capVars, upVars>>

-----------------------------------------------------------------------------

World ==
    \/ Pause \/ Resume
    \/ \E s \in Saves : Play(s) \/ Exclude(s) \/ Include(s)
    \/ \E i \in Ids : DeadlinePasses(i)

Capture ==
    \/ \E s \in Saves : CaptureBegin(s)
    \/ CaptureCopy \/ CapturePublish \/ CaptureDiscard

Upload ==
    \/ UploadPick \/ UploadOpen \/ UploadAbort \/ UploadTreeDone \/ UploadPruneDone
    \/ UploadMark \/ UploadFinish \/ UploadClean \/ UploadFailed
    \/ \E f \in Files : UploadFile(f) \/ UploadPrune(f) \/ UploadPruneBlind(f)
    \/ \E lost \in (SUBSET upTodo) \ {{}} : UploadMisses(lost)

Next == World \/ Capture \/ Upload \/ Crash \/ Start

Spec == Init /\ [][Next]_vars

(* Both workers keep running while the process lives, the user eventually lifts
   a pause or an exclusion and starts the module again, and clocks advance. *)
Fairness ==
    /\ WF_vars(Upload)
    /\ WF_vars(Resume)
    /\ WF_vars(Start)
    /\ \A s \in Saves : WF_vars(Include(s))
    /\ \A i \in Ids : WF_vars(DeadlinePasses(i))

FairSpec == Spec /\ Fairness

-----------------------------------------------------------------------------
(* Properties. *)

CaptureBusy == capPc # "idle"
UploadBusy  == upPc \notin {"idle", "clean"}

WorldTypeOK ==
    /\ live \in [Saves -> Versions]
    /\ cloud \in [Backends \X Saves -> [Files -> 0..MaxVer]]
    /\ paused \in BOOLEAN
    /\ excluded \subseteq Saves
    /\ mishaps \in 0..MaxMishaps

CardTypeOK ==
    /\ building \in [Ids -> Entry \cup {Absent, Partial}]
    /\ jobs \in [Ids -> Entry \cup {Absent}]
    /\ done \in [Ids -> Entry \cup {Absent}]
    /\ marker \in [Saves -> 0..MaxVer]

CaptureTypeOK ==
    /\ running \in BOOLEAN
    /\ active \in Backends
    /\ capPc \in {"idle", "copy", "publish", "discard"}
    /\ CaptureBusy => capId \in Ids /\ capSave \in Saves

UploadTypeOK ==
    /\ upPc \in {"idle", "open", "tree", "prune", "mark", "finish", "clean", "failed"}
    /\ upPc # "idle" => upId \in Ids /\ upJob \in Manifest
    /\ upTodo \subseteq Files /\ unread \subseteq Files
    /\ upOk \in BOOLEAN
    /\ upCause \in {"none", "pause", "error"}

\* Every variable has its type; in particular a name ending in .job or .job.done
\* always holds an entry whose capture ended, never one in progress.
TypeOK == WorldTypeOK /\ CardTypeOK /\ CaptureTypeOK /\ UploadTypeOK

\* FIFO: however captures interleave, the job the upload worker is working on is
\* still on the card under the path it holds, with the manifest it read, and no
\* older job is waiting behind it.
HeadOwned ==
    UploadBusy =>
        /\ IsHead(upId)
        /\ jobs[upId].job = upJob

\* Sequence numbers follow capture order: of two queued snapshots of one save,
\* the one that will be sent first is not the newer one.
CaptureOrder ==
    \A i, j \in Present(jobs) :
        LET a == jobs[i].job
            b == jobs[j].job
        IN  a.save = b.save /\ i < j => a.snap <= b.snap

\* Across retries, crashes and restarts, neither the marker of a save nor a file
\* in its cloud folder ever goes back to an older version.
NoRollback ==
    [][ /\ \A s \in Saves : marker[s] <= marker'[s]
        /\ \A bs \in Backends \X Saves, f \in Files :
              cloud'[bs][f] = 0 \/ cloud[bs][f] <= cloud'[bs][f] ]_vars

\* The marker is only ever set to the snapshot in the queue that the folder at the
\* pinned provider mirrors at that moment, file by file, with nothing left over;
\* only files that an error of readdir or stat hid from this upload may differ.
MarkedExact ==
    [][ \A s \in Saves :
            marker'[s] # marker[s] =>
                \E i \in Present(jobs) :
                    LET m == jobs[i].job
                    IN  /\ m.save = s /\ m.snap = marker'[s] /\ m.backend = active
                        /\ Mirrors(m, Files \ unread) ]_vars

\* A published snapshot leaves the queue only when the cloud folder of its own
\* provider mirrors it, but for files such an error hid from this upload, and the
\* marker records it; a crash, a full card or a failing network never drop one.
RetiredOnlyWhenSafe ==
    [][ \A i \in Present(jobs) :
            LET m == jobs[i].job
            IN  jobs'[i] = Absent =>
                    Mirrors(m, Files \ unread) /\ marker[m.save] = m.snap ]_vars

\* The same with no file excepted.  Does not hold, because of such an error; no run
\* has it.
RetiredOnlyMirrored ==
    [][ \A i \in Present(jobs) :
            jobs'[i] = Absent => Mirrors(jobs[i].job, Files) ]_vars

\* Every published snapshot is eventually delivered and retired, provided
\* failures and interventions are finitely many.
QueueDrains ==
    \A i \in Ids : (jobs[i] # Absent) ~> (jobs[i] = Absent)

\* docs/BACKGROUND-BACKUP.md: "pausing itself does not create a new backoff
\* deadline": a deadline is only set after a failure that no pause caused.  Does not
\* hold when the pause is lifted before its failure is looked at; no run has it.
PauseSetsNoDeadline ==
    [][ \A i \in Present(jobs) :
            /\ jobs'[i] # Absent
            /\ jobs'[i].job.waiting
            /\ ~jobs[i].job.waiting
            => upCause # "pause" ]_vars
=============================================================================
