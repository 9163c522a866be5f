# TLA+ verification of SwitchSaveSync

SwitchSaveSync copies the savedata of a Nintendo Switch to the user's own cloud
(Google Drive or WebDAV) and back. What it must never do is lose a save: neither the
one on the console, nor the one in the cloud, nor the copy on the SD card. These modules
model the parts of it that decide about saves: the queue of snapshots the background
module keeps on the SD card, the way it notices that a game was closed, the copy on the
card, the one-click sync with its three-way decision, the folders each account's backup is
found in, and the archive of all saves; and the three parts of the app in which threads or
interrupted exchanges matter: jobs and their screens, the updater, the FTP server. TLC checks
them on small instances; TLAPS proves the safety of all but two of them for every instance.

Paths below are relative to `src/`. Line numbers of every definition are in
`PROJECT.json` (`map`), the hazards each property is aimed at in `hazards`.

## The system

| component | state | operations | model |
|---|---|---|---|
| Snapshot queue, `core/backupqueue.c` | directory `queue/`: `<id>.building`, `<id>.job`, `<id>.job.done`, each with manifest, copied tree and journal `uploaded.txt` | enqueue, next, retry, finish, recover | `BackupQueue` |
| Upload worker, `sysmodule/source/main.c` `upload_worker` | locals of one job; markers `rev-*.txt` | pick head, upload tree, prune, mark, retire, postpone | `BackupQueue` |
| Poll and capture worker, `sysmodule/source/main.c` `main`, `capture_worker` | `previous_title/pid`; `capture/<title>.pending`, `.capturing` | 1 Hz poll, intent, claim, per-account capture and checkpoint | `CaptureIntents` |
| Card copy, `core/syncjob.c` local backup/restore, `savemount.c`, app's "empty this save" | `backups/<game>`, `.novo`, `.velho`; the mounted savedata | backup, restore, empty | `LocalBackup` |
| Sync engine, `core/syncjob.c` `syncjob_sync_title`, backup, restore | savedata, cloud folder, marker | sync, backup, restore of a title | `SyncTitle` (the steps of a transfer), `CloudFolders` (which folder) |
| Everything in one file, `core/nxsaves.c`, `syncjob.c` archive jobs | one archive and the `.parcial`, `.baixando`, `.anterior` beside it; `staging/` | pack, publish, upload, download, restore a folder | `Archive` |
| Cloud layer, `core/cloud.c` | per-tree journal, folder ids | tree upload with checkpoints, prune, tree download, folder lookups | inside `BackupQueue`, `SyncTitle`, `CloudFolders`, `Archive` |
| Providers, `drive.c`, `webdav.c`, `http.c` | none of the saves | requests | not modelled; their outcomes are |
| Login, `oauth.c`, `credencial.c` | tokens on the card | device flow, refresh | not modelled; a sign-in job is in `JobPage` |
| Shared settings, `syncstate.c` | pause, exclusions, request file, `pastas.txt` | flags and tables both programs read | partly: in `BackupQueue`, `CaptureIntents`, `CloudFolders` |
| Save enumeration, `titles.c` | none | list games and accounts | partly: the set `SavesOf`, who shares a game |
| App: jobs and screens, `gui/source/job.cpp`, `job_page.cpp`, `main.cpp` | one job thread, progress, cancel flag, choices | open, show, cancel, tell the end, leave | partly: `JobPage`, and the jobs in the modules above |
| App updates, `core/ota*.c`, `gui/source/ota_update.cpp` | the installed files with `.ota` and `.bak` beside each | download, verify, exchange, roll back | partly: `AppUpdate` |
| FTP server, `gui/source/ftpd.c` | sessions, sockets, the piece of a file being sent | one poll loop for all clients; start and leave | partly: `FtpServer` |
| Parental lock, QR view | password | | not modelled |
| Overlay and text app, `overlay/` | switches and the request file | write them | the environment of `CaptureIntents` |
| Relay, `servidor/` | in-memory rate limiter | forward the token exchange | not modelled |
| Parsers, translations, vendored UI and fonts | | | not modelled |

### How the parts interact

- The **game** writes its savedata while it runs, and holds it: nobody else can mount it.
- The background module runs three threads. The **main thread** samples the process
  manager each second; when the process changes it writes `<title>.pending`. The
  **capture worker** claims such an intent by renaming it to `.capturing`, waits for the
  game to be gone, and for each account of the game takes a snapshot: into the queue
  (`backupqueue_enqueue`), onto the card (`syncjob_backup_title_local`), or both; each
  account done is appended to the intent. The **upload worker** takes the entry with
  the smallest sequence number, mirrors its tree into the cloud folder, prunes what the
  snapshot lacks, writes the marker and retires the entry. The three share nothing but
  the card, so renames are their only synchronization.
- The **app** runs the same sync engine for the user, one job at a time, with the same
  card, the same markers and the same cloud folders, in another process.
- The **marker** `rev-<game>.txt` records the tree the console and the cloud had when they
  were last equal. It is what turns "they differ" into "this side is the newer one".
- The **table** `pastas.txt` remembers which cloud folder an account's backup is in. App and
  module rewrite it in place, without a lock.
- In the app a **job** is a thread that shares a handful of fields with the page that shows
  it; the interface looks at them once per frame. The updater is such a job, followed
  by an exchange of files when the app is left.
- The **overlay** and the app write switches and requests that the module reads.

### What is hard

- *Interleavings.* A capture publishes while an upload is in the middle of a job; the
  user pauses in the middle of a file; two programs copy the same game to the card.
- *Crashes between two writes.* Every rename, manifest and journal line may be the last.
  Recovery sees only names and files.
- *Unreliable delivery.* An upload that was acknowledged late has happened; a journal that
  was not written means a file is sent twice; a lookup that fails says the file is gone.
- *Stale reads.* The guard "the game is not running" is asked before and after a copy, not
  during it; a marker is compared with trees read earlier.
- *Partial failure.* One file of a tree fails and the others go on.
- *Errors taken for absence.* A `readdir` that fails reads as the end of the directory
  (`core/savemount.c:163`, `core/cloud.c:201`, `core/nxsaves.c:298`, `clear_dir`), a `stat` that
  fails as a file that is gone (`core/cloud.c:261`), a folder lookup without an answer as a folder
  that does not exist (`core/syncjob.c:1242`), and nobody looks whether a fingerprint could be
  computed (`core/syncjob.c:1214`, `1267`). Each operation then goes on and reports success on less
  than there is. Every model has these errors, and a history variable that says what they
  touched; most promises hold only apart from that, and say so.
- *Names.* Accounts are renamed, join and leave; three layouts of folders coexist in the cloud,
  and nothing is ever moved from one to another.
- *Callbacks and lifetimes.* A page may be left while its job ends; a slot of the FTP server may
  be reused while events of its last client are still to be handled.
- *Liveness.* The queue is strictly first-in first-out: one entry that can never leave
  blocks all others. Intents of a running game must wait without blocking others.

### What makes each component correct

- *Queue and uploader*: captures are sent in capture order; nothing is ever rolled back;
  a marker means an exact mirror of the snapshot, and nothing leaves the queue undelivered, but
  for the files an error hid from the upload; everything leaves it eventually.
- *Poll and capture*: no save that changed is forgotten; every intent is served.
- *Card copy*: the savedata and the copy are each entirely one save or nothing; a save is
  emptied only when the card has precisely that save; there is always one complete save. All of
  it until a listing breaks off.
- *Sync*: no progress is overwritten unless the user chose so, and a marker means equal, until a
  job takes an error for absence; what is written into the savedata is a save the game wrote,
  until an upload is cut short.
- *Folders*: nobody gets or overwrites another account's save; a backup that was made is found
  again.
- *Archive*: only a finished archive has the archive's name, a failure leaves the old one, and
  a restore writes one whole save into the savedata that was picked, or a part of one where a
  listing broke off.
- *Updates*: only verified files are installed, all of a release or none, and never without a
  working copy of each file.
- *Jobs*: each job's end is told once, truthfully, and before its page goes away.
- *FTP*: events reach the client they are of, nothing leaks, a download is whole, and one client
  that stalls holds up nobody.

## Modules

| module | models |
|---|---|
| `BackupQueue` | `backupqueue.c`, `upload_worker`, the tree upload and prune of `cloud.c`, `syncjob_mark_synced_checked` |
| `SnapshotLog` | the abstract specification: a first-in first-out log of snapshots |
| `BackupQueueLog` | the refinement mapping: the k-th smallest published number is the log's k-th snapshot |
| `CaptureIntents` | `main` loop, `request_capture`, `capture_worker` of the background module |
| `LocalBackup` | `syncjob_backup_title_local`, `syncjob_restore_title_local`, `write_over_save`, `jobWipeSave`, the savedata mount |
| `SyncTitle` | `syncjob_sync_title`, the backup and restore jobs a conflict offers |
| `CloudFolders` | `cloud_title_folder`, `cloud_flat_backup`, `lembra_pasta`, the registry `pastas.txt`, and what sync, backup and restore do with them |
| `Archive` | the archive jobs of `syncjob.c`, the container of `nxsaves.c`, publication, restore of a folder |
| `JobPage` | `Job`, `JobPage`, the main loop's turn, leaving the app |
| `AppUpdate` | extends `JobPage`: the update job, `finishOtaUpdate`, `ota_apply` |
| `FtpServer` | the loop, sessions and transfers of `ftpd.c` |
| `MC*` | the sets a run instantiates each of these with |
| `BackupQueueProofs` | proofs about `BackupQueue` and `BackupQueueLog` |
| `CaptureIntentsProofs`, `LocalBackupProofs`, `SyncTitleProofs`, `CloudFoldersProofs`, `ArchiveProofs`, `AppUpdateProofs`, `FtpServerProofs` | proofs about the module of that name |

In every module a failure, a crash or an intervention of the user that costs something
draws on one counter, `mishaps`, with the bound `MaxMishaps`. A bounded run then sees every
combination of a few of them at every place, and a liveness property may say "provided
they are finitely many" without an extra assumption. The theorems hold for every bound.

### BackupQueue

`building`, `jobs` and `done` are the directories under their three suffixes; a snapshot is
a version of the save and the files `has` of it that were copied, `FilesOf` says which files a
version has. A listing of the save that breaks off gives fewer, and `CaptureCopy` publishes them
like any other.
`capPc` walks through `backupqueue_enqueue` (`CaptureBegin` scan and mkdir, `CaptureCopy`
snapshot and manifest, `CapturePublish` rename, `CaptureDiscard` cleanup); `upPc` through one
pass of `upload_worker` (`UploadPick`, `UploadOpen`, `UploadFile`, `UploadTreeDone`,
`UploadPrune`, `UploadPruneDone`, `UploadMark`, `UploadFinish`, `UploadClean`, `UploadFailed`).
One action is at most one write to the card or to the cloud, so `Crash` may fall between any
two. `UploadFile` has the skip by journal, the send with its journal line, and the failure
that may or may not have reached the cloud. `UploadAbort` is the abort callback under a
pause. `UploadMisses` is a listing of the snapshot that breaks off: the rest is not sent, and the
tree counts as complete. `UploadPruneBlind` is a `stat` that fails while pruning: a file of the
snapshot is deleted as an extra one. Both put the files into the history `unread` of the upload,
which no guard reads. `Start` is `backupqueue_recover`, best effort, with the provider pinned.

Two constants describe the platform. `Replaces` says whether `rename` puts a file over an
existing one. `core/` is written for a file system where it does (the marker and the manifest
are replaced that way), while `gui/source/ftpd.c:490` and `gui/source/main.cpp:3129` remove
the target first and say that FAT refuses otherwise. The theorems hold for both values; the
runs take TRUE. With FALSE `QueueDrains` does not hold (see below). `BlindScan` says whether
the queue directory may not open, or its listing break off: `scan` then returns what it saw so
far, the next number may be one that was used, and capture order breaks. It is FALSE in all runs;
the theorems that need that say so.

Left out: the manifest's checksum, the number of attempts and the length of the backoff (a
deadline is a bit that time clears), bandwidth limits, the status file.

### CaptureIntents

`app` is what the process manager reports. `Poll`, `PollExit` and `PollManual` are one pass of
the main loop; `Claim`, `Account`, `CloudCopied`, `LocalBegin`, `LocalCopied`, `Checkpoint`,
`Finish`, `GiveUp` one pass of the capture worker. The world (`Launch`, `Play`, `Close`,
`Toggle`, `Ask`) moves between any two of them. A copy that runs while the game writes yields
the old version, the new one or `Torn`. The 30 s pause after a failed pass is left out; the
account loop's guard, the first guard of the snapshot and the mount are one step; destinations
are fixed in a run. `titles.c` may list fewer accounts than there are (`core/titles.c:252`), and a
copy may lack files. Four ghosts (`read`, `unseen`, `dropped`, `missed`) tell a session the module
could not have known of from one it knew and let go: `missed` are the accounts a list that was cut
short left out and the saves that were copied short, until the next exit of the game.

### LocalBackup

`dir`, `novo` and `velho` are the three folders, `save` the committed savedata, `work` what a
writable mount shows. Files are copied and folders cleared one entry at a time; the exchange
is its two or three renames; `NoDir` is a folder that is not there. Operations on the card are
durable in order. The game does not run while the app has a job (the app must be in front,
`gui/source/main.cpp:743-744`). Emptying is one step from mount to commit, since nobody sees
an uncommitted write. Every loop over a directory may end early, with `Listed` drawing on
`mishaps`: the copy, the restore, and `clear_dir`, where an entry that cannot be removed has the
same effect. The history `cut` says which of the trees came through such a loop, or are copies of
one that did; no guard reads it.

### SyncTitle

A fingerprint is the tree it is computed from. `hist[v]` is the set of sessions played to
reach version `v`; `Progress` of a tree is the union over its files, and `given` collects
sessions the user gave up by choosing a side. `Verdict` is the three-way decision translated
case by case. `Begin`, `Find`, `FetchFile`, `Decide`, `UploadFile`, `UploadEnds`, `Prune`, `Write`,
`Mark` are the steps of the engine; a conflict ends the sync and is resolved by the jobs `backup`
and `restore` (`DecideRestore`).

A job may see wrongly at each of these steps. What it copied may be `Mixed` (files missing, others
left over from an earlier job), a folder that got no answer is not there (`Find`), an empty
directory or a fingerprint may be of a part of the tree (`Looks`, against `Right`), an upload
misses files, a prune takes files for deleted (`Pruned`), a part is committed (`Parts`). Such a job
is `blind`; `mark` is the fingerprint it computed and will record. `harm` remembers that some job
was blind, and that some upload ended with the folder different from what it sent (`"cut"`). No
guard reads `blind` or `harm`.

One console syncs
at a time (`Overlap` FALSE): the code has no lock between consoles, and with two syncs at once
it makes no claim. Single files are replaced atomically in the cloud. One folder per provider
stands for the folder table, which is `CloudFolders`. Uploads of the background module and
local restores are not composed in.

### CloudFolders

One game, its accounts and the console's own save. `dir[x]` is the folder `<Game>/<x>`,
`flat` the folders of the layout older versions used, `recall` the lines of `pastas.txt`,
`marker` the markers of the game and of each account. `Nested` is `cloud_title_folder`
reading, with its rescue of the only folder there is; `Flat` is `cloud_flat_backup`; `Path` is
`cloud_folder_path`. A lookup gets answers to some of four requests (`seen`); a request without
an answer reads as "not there", as in the code. `Upload`, `Restore`, `FirstSync`,
`SyncDown`, `SyncUp` and `SyncSees` are the engine's operations, each in one step: what happens
when a transfer stops halfway is `BackupQueue` and `SyncTitle`. People join, leave, rename
themselves and play in between, and a line of the table is lost (`Forget`).
A save has an author, a number and whether it is all of itself, which is
enough to say whose it is and whether a folder was taken for a file tree it is not.
`RecallOf` keeps a detail of the code: a sync remembers the path it computed, although the
folder the rescue gave it has another name (`core/syncjob.c:468-470`).

### Archive

A container is a tree per folder, its header (written when it is closed) and its index
(at its end, gone when the file was cut short). `nxsaves_is_box` looks at the header only,
reading an entry needs the index. `disk` holds the archive under its four names; `pc` walks
through packing (`Mounted`, `AddFile`, `Added`, `PassOver`, `Close`), publication
(`DropAnterior`, `MoveAside`, `Put`, `Undo`, `Forget`, `Tidy`), download and restore
(`Take`, `Write`). Two saves may share a folder name; the second is then left out.
`CutUploads` says whether the provider keeps what an upload that broke off had sent.
Each savedata and each folder of a container has a `doubt`, a history: 0, or 1 if a listing that
broke off may have made it a part of a save, or 2 if debris of an earlier job may be mixed in
(`debris`, of the staging folder). Compression, scrambling and checksums are abstracted.

### JobPage and AppUpdate

`JobPage` has two threads. The work goes `work`, `returned`, `stored`, `done`: its result, then
`ok`, then `finished`, each a write the interface may fall between. The interface goes
`top` (one key, or leaving), `draw` (`PumpLogin`), `pump` (`PumpFinish`). `BackOnFinished` and the
like, defined beside the code's action, are the variants the properties are
shown to depend on. `AppUpdate` adds the update job (download, digest, `pending`) and
`ota_apply`: one rename per step, the rollback in the opposite direction, and what is left when
it fails or the console dies. A file is the release it is of, or `Torn`. An `activeJob` whose
`Job` was destroyed is `dead`; using it may bring the app down.

### FtpServer

A turn of the loop polls; `todo` is the set of entries that were ready, and `Turn(e)` says that
`e` is the one to handle, in the order of their places in `fds` (`Place`: the listening socket
first, then slot by slot, control before data). `Accept`, `Gone`, `Control` and `Data` handle
one entry each, while earlier ones may have closed a session or given its slot to a new client
(`fresh`). A file is a sequence of units, `Full` of which fit the send
buffer; `room` says whether a client's connection takes more, of a file or of a listing. `Broken`
ends a connection. That an open file is neither rewritten, renamed nor removed is a fact of the
platform's file system, which `Stor`, `Dele` and `Rnto` rest on. The screen
starts the server, asks it to stop and joins. What `stdio` buffered of an upload may be
partly on the card when its session ends.

## Runs

A run finishes with every reachable state seen. Deadlock is checked in `MCArchive`,
`MCCloudFolders` and `MCCloudFoldersDir`, where something can always happen. In the others the
system rightly stops: nothing is left to do, and the bound on versions,
processes, releases or mishaps is reached.

| run | checks | instance | distinct states |
|---|---|---|---|
| `MCBackupQueue` | `TypeOK`, `CaptureOrder`, `NoRollback`, `MarkedExact`, `RetiredOnlyWhenSafe` | 1 save, 2 files, 2 providers, 3 versions, 3 ids, 3 mishaps | 3,168,352 |
| `MCBackupQueueLog` | `HeadOwned`, `ImplementsLog`, `QueueDrains` | 2 saves, 1 file, 1 provider, 2 versions, 2 ids, 2 mishaps, fair | 323,631 |
| `MCCaptureIntents` | `TypeOK`, `SessionsRemembered`, `IntentsServed` | 2 games (2 accounts, no save), both destinations, 2 versions, 2 processes, 1 mishap, fair | 319,554 |
| `MCLocalBackup` | `SaveWhole`, `CopyWhole`, `ErasesOnlyWhatIsCopied`, `OneSaveRemains` | app, 2 files, 3 versions, 3 mishaps | 151,006 |
| `MCSyncTitle` | `SavesWholeUntilCut`, `NoSilentLoss`, `MarkerMeansEqual` | 2 consoles (symmetric), 1 provider, 3 versions, 2 mishaps, `BlindBound` | 2,187,421 |
| `MCCloudFolders` | `TypeOK`, `OwnSave`, `OwnBackup`, `NotOrphaned` | 2 accounts and the console's own, 4 names, old layout, 2 saves, 1 rename, 1 mishap, accounts symmetric | 884,877 |
| `MCArchive` | `TypeOK`, `FinalReadable`, `OneArchiveRemains`, `FailureKeepsOld`, `RestoresOneSave` | 2 saves of one folder name (symmetric), 2 files, 2 versions, 2 mishaps | 6,683,880 |
| `MCAppUpdate` | `OnlyVerified`, `AllOrNothing`, `OneReleaseLeft`, `NoAssetLost`, `TruthTold`, `NothingUnsaid`, `NobodyWaits` | 3 files, 3 releases, 2 mishaps, fair | 398,040 |
| `MCFtpServer` | `TypeOK`, `NothingLeaks`, `EntryForItsClient`, `DownloadWhole`, `StopEnds`, `ReadersServed` | 2 slots, a file of 3 units and an empty one, buffer of 2, uploads of 1, fair | 582,847 |
| `MCLocalBackupShared` | `ErasesOnlyWhatIsCopied`, violated | app and background module, no mishaps | |
| `MCSyncTitleProvider` | `NoSilentLoss`, violated | 1 console, 2 providers, no mishaps | |
| `MCCloudFoldersDir` | `SaveWhole`, violated | as `MCCloudFolders`, saves with one directory, no mishaps | |

### What they show, and why the bounds are enough

**`MCBackupQueue`**. A snapshot never overtakes an older one of its save
(`CaptureOrder`), and no retry, crash or restart takes the marker or a file in the cloud
back (`NoRollback`). `MarkedExact` and `RetiredOnlyWhenSafe` are the central promise: the
marker is set, and the entry retired, only while the folder holds exactly the snapshot,
file by file, but for the files in `unread`. That exception is the code's, not the model's:
`core/cloud.c:201` counts a tree as sent when its listing broke off. It is per file and per upload,
so an upload that saw everything is held to the full promise whatever an earlier one missed. Three versions of one save, with two, one and one other file, give every upload
something to send, keep, and prune. Three mishaps allow a failed upload, a lost answer and
a crash in one history; two providers allow a restart that pins another one while entries of
the first wait. The properties relate snapshots of one save, so one save is enough
for safety.

**`MCBackupQueueLog`**. The directory implements `SnapshotLog`: publications append, only
the oldest is delivered, nothing retired returns. Two saves make an entry of one
save wait behind the other's. `QueueDrains`: a published entry is eventually retired.

**`MCCaptureIntents`**. `SessionsRemembered`: while the last capture of a save is missing,
old or torn, the game runs, or the poll will see it gone, or an intent still covers this
account; the only exemptions are sessions the module could not see (it was off, or
the game was started and closed between two polls) or dropped in `PollExit` (the disagreement
`ExitsDetected` below), and saves a listing that broke off left out (`missed`). The accounts of one game exercise the checkpoint; the
game without saves keeps its intent for ever (`main.c:241`) and must not hold up others.

**`MCLocalBackup`**. With one program on the card, whatever three failures or crashes
happen, the savedata and the copy are never mixed, and a save is emptied only while
`backups/<game>` holds just that. What came through a listing that broke off is excepted, tree by
tree (`cut`); each of the four properties fails without that exception (`SaveAlwaysWhole`,
`ErasesOnlyACopy` below). Version 2 drops a file and 3 brings it back, so debris left
in `.novo` would show up as a file too many. `OneSaveRemains`: wherever power goes or a rename
fails, also between the two renames of the exchange, and in the attempts that follow, which first
clear `.novo` and `.velho`, a complete save remains in the savedata or on the card. The exception is
a copy of a savedata that is empty, see `OneCopyRemains` below.

**`MCSyncTitle`**. Two consoles take turns; both sides can change in three
versions with any order of syncs, failed files, refused deletions, lost markers and crashes.
`NoSilentLoss`: no sync discards progress until some job was blind; after that the code does
discard it (`NoLossAtAll` below). `MarkerMeansEqual`: a job that was not blind itself sets the marker
only to what both sides hold, whatever jobs before it did to the folder. `SavesWholeUntilCut`:
although saves pass from console to console file by file, by syncs, backups and restores, no
console gets a mixture of two, whatever fails, until an upload ends early or a job is blind; an
upload that dies is the hazard this exempts, and the promise about it is the refuted
`SyncWritesWholeSaves` below. A blind job can leave anything behind, so that two of them followed for
three saves are too many states to wait for: under `BlindBound` it is the only mishap and is followed
for two saves. Two mishaps of the other kinds are followed for all three. The theorems have no such
bound.

**`MCCloudFolders`**. Nobody is given another account's save, nobody's upload lands in a
folder another account created, and a backup stays the one its account finds, unless its line
was lost or a lookup of it failed since. Three savedatas are the least with which one can
leave a game that stays shared; four names leave one free to be
renamed to; one mishap makes each of the four lookups fail, or a line be lost, at every place.
`Stay` is 2: savedata is deleted only while the game stays shared. With 0 `OwnSave`
does not hold (below).

**`MCArchive`**. Wherever two failures or losses of power fall, in packing, publication, upload,
download or restore, only a finished container has the archive's name, and a job that failed
leaves the old one. `OneArchiveRemains` is about one of them: two failures, one of which
leaves the archive as `.anterior` and one in the next publication, do lose it. The two
saves of one folder name, of which the second met is passed over, test that two saves are never
mixed. `RestoresOneSave`: what a restore commits is one whole save of one account; where a listing
broke off, in packing or in restoring, it is a part of one (`doubt` 1), and only debris in the
staging folder that could not be cleared makes it a mixture.

**`MCAppUpdate`**. Three files are the first, one in the middle and the last of an exchange; three
releases allow an exchange over the remains of another; two mishaps a rename
that fails with a rollback that fails too, or a death in each of two exchanges. With three
(1,179,912 states) everything holds as well. `NobodyWaits` is liveness: a job
on the screen gets to say how it ended, and an app that leaves goes away. The type
invariants of this module, of `LocalBackup` and of `SyncTitle` are theorems (`TypeCorrect`) and in
no run.

**`MCFtpServer`**. Two slots are enough for one session to end and its slot to be reused in
a turn in which the other has an entry. A file of three units with a buffer of two is sent in
pieces, and pieces in part. One client keeps reading, the other need not:
`ReadersServed` says that the second, stalled in a download or in a listing, does not hold up the
first, `StopEnds` that it does not hold up the screen.

### Disagreements between the code and what is written about it

1. `MCLocalBackupShared`: the app and the background module share `<game>.novo`, and clear
   it before they try to mount. One can empty the other's copy, which is then exchanged for
   the good one, and the save emptied. A comment in `gui/source/main.cpp` holds that the
   mount alone serializes them.
2. `MCSyncTitleProvider`: the marker is not keyed by provider. After a change of provider it
   describes the other provider's folder, and a sync overwrites a cloud save without asking.
3. `MCCloudFoldersDir`: the old backup of a game with one save lies where the new layout has
   the folder of folders. If the save holds exactly one directory, the rescue takes that for
   the account's folder (`core/syncjob.c:457-470`), and a restore writes its contents over the
   savedata, which `core/syncjob.c:303-307` says the content of the folder prevents.

### Stated in the modules, does not hold

Each of these is a sentence of a comment or document that TLC refutes, or a hypothesis without
which a property above fails; no run has it.

- `BackupQueue.PauseSetsNoDeadline`: a pause that is lifted before the worker asks whether
  uploads are paused (`sysmodule/source/main.c:387`) leaves a retry deadline;
  `docs/BACKGROUND-BACKUP.md:143-145` says pausing creates none.
- `BackupQueue.QueueDrains` with `Replaces` FALSE: the second snapshot of a save can never be
  marked, is uploaded again and again without a deadline, and blocks the queue.
- `BackupQueue.RetiredOnlyMirrored`: without the exception of `unread` an entry is retired, and the
  marker written, over a folder that lacks files of the snapshot, or has lost some to the prune
  (`core/cloud.c:201-243`, `261`), against "A real mirror" in the repository's `README.md:96`.
- `CaptureIntents.ExitsDetected`: when an intent cannot be written, `main.c:459` starts over
  without recording the process it just read. If that one has exited before the next poll, its
  exit is never seen, against `docs/BACKGROUND-BACKUP.md:17-18`.
- `LocalBackup.OneCopyRemains`: copying or emptying a save that was emptied before replaces the
  only complete copy by an empty one, against "Em nenhum instante existe zero copia completa no
  cartao" in `core/syncjob.c`.
  After a loss of power between the two renames the next attempt deletes the copy in `.velho`
  before it has another; then the savedata is the only one. What holds is `OneSaveRemains`.
- `LocalBackup.SaveAlwaysWhole` and `ErasesOnlyACopy`: `savemount_copy_tree` leaves its loop on an
  error of `readdir` with `all_ok` still true (`core/savemount.c:163`). A short copy takes the game's
  name and is what the save is emptied against; a short restore is committed. A comment there
  (`core/savemount.c:192-197`) calls the checks of the copy the safety net of "empty this save", and
  one above (`118-124`) says that this error happens. A short snapshot is also mirrored over the
  folder in the cloud (`core/syncjob.c:556-575`).
- `SyncTitle.NoLossAtAll`: one lookup without an answer is enough. `core/syncjob.c:1242-1256` leaves
  `cloud_vazio` true, the sync takes itself for the first one (`1279-1312`), and uploads and prunes
  over a newer save in the cloud without asking.
- `SyncTitle.SyncWritesWholeSaves`: an upload that dies between two files leaves a mixed folder;
  another console whose save equals the marker downloads and writes it. A part is also written when
  the copy into the savedata breaks off. What holds is `SavesWholeUntilCut`.
- `SyncTitle.NoSilentLoss` for four consoles, three versions and two mishaps, where version 2 has
  one file `f1` and the others `f1` and `f2`. A plays version 1. B plays 2 and syncs; C and D sync
  it down, so their markers say 2. B plays 3, and its sync is cut short after `f2`: the folder has
  `f1` of 2 and `f2` of 3. A backs its save up, which is cut short after `f1`: the folder has `f1`
  of 1, `f2` of 3. C restores that mixture (a restore writes no marker). D backs version 2 up, and
  gives up what the folder held. C syncs: the folder equals C's marker, so C's mixture is newer and
  is sent, `f1` first, and session 2 leaves the folder although nobody gave it up. TLC confirms
  each step of this behaviour. All of it needs a mixture in a save that a sync then sends, which is
  the hypothesis `SyncSendsWhole` of the theorem.
- `CloudFolders.OwnSave` with `Stay` 0: when all accounts but one have left a game, the rescue
  gives the one that stays the only folder in the container, whoever's it is.
- `Archive.FinalReadable` with `CutUploads`: half an upload that a provider keeps has a header,
  and a download of it passes `nxsaves_is_box`.
- `AppUpdate.JoinsLiveJob`: `finishOtaUpdate` means to cancel and join a job that is still there
  (`gui/source/ota_update.cpp:193`), but `Application::exit` has destroyed it by then, after
  waiting for the thread without cancelling it.
- `FtpServer.RenameReplaces`: `RNTO` removes its destination before a second try
  (`gui/source/ftpd.c:503`); if the source was deleted since `RNFR`, both are gone.

Further observations, made while translating and not about any property: the version check of
the updater looks at the app's own file only, so a mixed set of files counts as up to date; an
update that fails later on has already deleted the `.bak` of an earlier one (`core/ota.c:223`),
where `docs/OTA.md:72` has only the next successful update replace it; a cancel after the last
file was downloaded still installs; the FTP loop has no idle timeout; a list of savedatas that
breaks off makes a game that several accounts share look unshared, and its backup go to another
folder; a game that is open while the
archive is packed is missing from the new archive; and a folder that another request is creating
is created twice when the lookup after it fails (`core/cloud.c:155-160`).

### Fairness

- `BackupQueue`: weak fairness of the upload worker as a whole (it is a loop in a
  thread of its own), of lifting a pause and an exclusion, of starting the
  module again and of every deadline. The user's part is an assumption, not a fact about the
  code: a queue that stays paused does not drain. The capture worker needs none.
- `CaptureIntents`: weak fairness of the main thread, the worker, of closing a game and of
  starting the module. Strong fairness of `Claim(t)` for every game: a pass of `readdir` over
  `capture/` visits each entry, so an intent that can be claimed again and again is
  eventually claimed, whatever the other entries do.
- `AppUpdate`: weak fairness of the work thread (a request ends, by its answer or by a timeout of
  `http.c`), of the turn of the main loop and of the steps of leaving and of the exchange.
  Nobody has to open a job, press a key or close the app.
- `FtpServer`: weak fairness of the loop, of the screen's join, and of reading by the clients
  that read (`Readers`). Nobody has to connect, to send a command or to leave the screen, and
  no connection has to break.

No fairness is assumed of failures ending: they end because `mishaps` is bounded.

## Proofs

`tlapm` checks every theorem to the last leaf, for any values of the constants that satisfy the
assumption their module names: any sets of saves, files, accounts and providers, any bounds,
any number of mishaps. Hypotheses beyond those are in the last column.

| module | theorems | hypotheses |
|---|---|---|
| `BackupQueueProofs` | `TypeCorrect` (`TypeOK`), `UploaderOwnsHead` (`HeadOwned`), `SnapshotsInOrder` (`CaptureOrder`), `NeverRollsBack` (`NoRollback`), `MarkersAreExact` (`MarkedExact`), `NothingIsDropped` (`RetiredOnlyWhenSafe`), `QueueIsALog` (`ImplementsLog`) | all but the first: `~BlindScan` |
| `CaptureIntentsProofs` | `TypeCorrect`, `SessionsAreRemembered` (`SessionsRemembered`) | |
| `LocalBackupProofs` | `TypeCorrect`, `SaveIsWhole` (`SaveWhole`), `CopyIsWhole` (`CopyWhole`), `OnlyCopiedIsErased` (`ErasesOnlyWhatIsCopied`), `ASaveRemains` (`OneSaveRemains`) | `Alone`: one program on the card |
| `SyncTitleProofs` | `TypeCorrect`, `MarkersMeanEqual` (`MarkerMeansEqual`), `NothingLostSilently` (`NoSilentLoss`), `NothingLostUntilHarm`, `SavesStayWhole` (`SavesWholeUntilCut`) | all but the first: `~Overlap`, consoles take turns; the third: `[]SyncSendsWhole` |
| `CloudFoldersProofs` | `TypeCorrect`, `NobodyGetsAnothers` (`OwnSave`), `NobodyWritesAnothers` (`OwnBackup`), `NoBackupIsOrphaned` (`NotOrphaned`) | the last three: `Stay >= 2`, distinct nicknames |
| `ArchiveProofs` | `TypeCorrect`, `OnlyFinished` (`FinalReadable`), `ArchiveRemains` (`OneArchiveRemains`), `FailuresKeepOld` (`FailureKeepsOld`), `RestoreWritesOneSave` (`RestoresOneSave`) | |
| `AppUpdateProofs` | `TypeCorrect`, `OnlyVerifiedInstalled` (`OnlyVerified`), `UpdatesAllOrNothing` (`AllOrNothing`), `ReleaseStaysAtHand` (`OneReleaseLeft`), `NoAssetIsLost` (`NoAssetLost`), `TruthIsTold` (`TruthTold`), `NothingGoesUnsaid` (`NothingUnsaid`) | |
| `FtpServerProofs` | `TypeCorrect`, `NothingIsLeaked` (`NothingLeaks`), `EntriesForTheirClients` (`EntryForItsClient`), `DownloadsWhole` (`DownloadWhole`) | |

The hypotheses are needed. With a directory that cannot be read (`BlindScan`) `CaptureOrder` is
false; with two programs on the card `ErasesOnlyWhatIsCopied` is (`MCLocalBackupShared`);
with `Stay` 0, or two accounts of one nickname, which share a folder, `OwnSave` is; with two
consoles that change one folder at once (`Overlap`) both properties of `SyncTitle` are. There
the theorem about losses asks for one thing more, `SyncSendsWhole`: a sync that replaces a folder
that is not empty sends a save the game wrote. The run `MCSyncTitle` also reaches states in which
that is not so, and with its two consoles nothing is lost there either; with four it is, see above.
`NothingLostUntilHarm` asks for nothing of the kind: until an upload ends early, or a job is blind,
nothing is lost, because these are the only sources of mixtures.

What the properties except because of errors taken for absence, the theorems except as well: they
show that nothing else makes a promise fail, and that its failing stays with what the error touched.

Few of the properties are inductive. The strengthenings, module by module:

**BackupQueue** has five layers, each on the one before.

1. `TypeInv` = `TypeOK` and that workers have locals only while the module runs, that the capture
   about to be published has ended, and that the uploader's entry is on the card. Without
   the third the rename of a directory without a manifest could not be excluded, and `jobs` would
   leave its type.
2. `FifoInv` = `HeadOwned`, and that the number a capture in progress holds is greater than
   every published one, and that a job being worked on is not waiting. `NumberAhead` is what a
   publication needs in order not to come before the head; it holds because `NextId` looks at
   all three kinds of entries.
3. `OrderInv` = `CaptureOrder`, and that no version on the card or in the cloud exceeds the
   one on the console, that every marker and file in the cloud is at most as new as any unsent
   snapshot of its save, and that the capture about to be published is at least as new as
   every queued one. The lemma that a step `OnlySends` covers most actions: jobs are
   not invented, and cloud and markers only move to the version of the job at the head.
   `NoRollback` follows, as the head is the oldest unsent snapshot of its save.
4. `JournalInv` says that only the head has a journal, and that a file in it is in the folder
   in the head's version or absent. That is why skipping it is sound: nothing but the head can
   have written the folder since. `FolderInv` follows the upload: which part of the tree is
   already equal while sending, which extras are left while pruning, and that the folder is
   an exact mirror when the marker is written and the entry retired (`Delivered`), each but for the
   files in `unread`.
5. The refinement needs no further invariant. `Rank` and `Nth` turn the published numbers into a
   sequence without sorting it by recursion; `NthDefined` shows by a count that each position is
   taken. A publication has the greatest number, so positions stay and one is appended
   (`NthAppended`); only the head is retired and it has the smallest, so all move up by one
   (`NthRemoved`), and it was marked before.

**CaptureIntents**: `MemoryInv` adds to the types that the sample of a poll outlives it only as
`previous` (`Sampled`); that what the worker has copied is what the game last wrote, or
something else stands for a new capture: the game runs, the poll remembers it, or an intent is
pending (`CopyCurrent`); that every account of the game being served was reached, is being
copied or is still to come (`AllAccounts`); and that each save whose copy is stale is covered by
the claimed intent or by one of those (`Covered`). What an error left out (`missed`) is excepted in
the last three (`Stands`). Each action hands a session on from one of these to the next.

**LocalBackup**: `CardInv` says of each place of a program what it can rely on there: that what is
in `.novo` while copying is the part of the savedata already copied, and all of it at
the exchange (`BackingUp`), and the same of `work` in a restore (`Restoring`); the copy is
always absent, empty or whole (`Clean`). Each of these is stated of a tree unless it is in `cut`,
so it has to be shown at every copy and rename that `cut` goes with the tree. `ASaveRemains` follows from it: what empties the savedata
leaves the card alone, where the copy is, and only a copy in progress changes the card.

**SyncTitle**: `CopyInv` says what the copies on the card stand for while one console works: one
job at a time (`OneAtATime`), and of each console what holds in any case (`Clean`) and what holds
unless its job is blind (`Faithful`): `here` is the save (`CopyOfSave`), `there` the part of the
folder fetched so far (`Fetched`), what was sent without a failure is in the folder (`Sent`), and
save and folder equal `mark` when the marker is written (`Equal`). `MarkerMeansEqual` follows.
`LossInv` adds that no tree holds a version not yet written (`VersionsWritten`) and, until some job
was blind, that the sessions of a marker are still behind the save and behind the folder, or given
up (`MarkerKept`: what makes "equal to the marker" mean "older"), and that a sync that has decided
overwrites something older (`DecidedWell`). `WholeInv` says that saves and the folders nobody is
sending to are whole. `UnharmedInv` has all of these while `harm` is empty, where `SyncSendsWhole`
follows from `WholeInv` (`WholeSends`); so the last two theorems need no hypothesis on what is sent.

**CloudFolders**: `OwnInv` says that no two accounts claim the same folder (`Mine`: their name and
the name in their line), that none claims one another account created, and that while only
one account plays everything in the cloud is its own, which is what makes the rescue of
the only folder sound. `HomeInv` says of each account that is not astray that, once it
created a folder, its line names it and its last upload went there. Both need facts on
cardinalities of finite sets, since the code counts savedatas and folders.

**Archive**: `TypeInv` adds where the job may be in each stage; `OldKept` follows the old archive
through the renames, stage by stage; `NamesSound` says that the archive, `.anterior`, the cloud's
copy, and what is about to take the name, are finished containers; `NeverWithout` where a
readable archive is before and after the first mishap; `OneSave` that each folder of these
is as near to one whole save as its doubt says (`Near`), and what part of one has been packed or
taken so far.

**AppUpdate**: `ScreenInv` relates the stages of thread and page (`finished` only when the thread is
done, `ok` is the result once stored, handled exactly when told); `UpdateInv` says that what is
still to be exchanged was verified; `CopiesKept` that each file has a working copy, by
stage of the exchange; `ReleaseKept` that one release `r` is there in full, and where its files
are while file `i` is exchanged or put back (`DuringExchange`).

**FtpServer**: `LoopInv` says that entries wait only within a turn, and that without a thread every
session is closed. `EntryInv` is about slots that change hands: while the listening socket is
pending nothing has happened since the poll, so every other pending entry is of a slot in use,
which `Accept` does not give away; and no pending entry is of a slot given away in this turn. It
needs both the listening socket's place before all others and that an entry of a session that
has ended is passed over. `SessionsInv` says of each session what it holds in which state
(`Tidy`), that what the client has, followed by the piece on its way, is what was read of the
file so far (`Sound`), and that a file being sent is not being written (`Apart`), so that
"read so far" stays true. The steps of a session are summed up in one `Effect`, from
which the rest follows. Lemmas about `SubSeq` join pieces to prefixes of the file.

What is only model-checked is liveness: `QueueDrains`, `IntentsServed`, `NobodyWaits`, `StopEnds`
and `ReadersServed`, which are out of the prover's reach. Every other property of a run
that passes is a theorem, under the hypotheses above.

## Not modelled, and why

- *Providers* (`drive.c`, `webdav.c`, `http.c`): formatting and parsing of requests. Their
  outcomes are alternatives of the actions that call them.
- *Login*: the polling keeps nothing but its deadline. One race is worth knowing of: the module's
  refusal of a refresh token removes a token the app may have just written (`core/oauth.c:329-331`).
- *Relay*: a rate limiter per address in memory, of no consequence for saves.
- *Release parsing, the daily check, path resolution and line assembly of FTP, manifests and JSON*:
  pure functions with unit tests.
- *FTP directories* (`CWD`, `MKD`, `RMD`): `FtpServer` has files at absolute paths.
- *Parental lock, QR view, menus, translations*: no state shared with the rest.
- *Vendored code*: borealis, libtesla, `stb_truetype`, `qrcodegen`; about two thirds of the
  repository's lines of C and C++. This is why the modules stand for a small part of all lines,
  although they cover most of `core/` and of the background module that decides about saves.

## Plan

What is left, in this order:

1. `CaptureIntents` composed with `BackupQueue` and `LocalBackup`: an end-to-end promise from
   the closing of a game to the marker.
2. Two consoles syncing at once (`Overlap` in `SyncTitle`), with the weaker promise that still
   holds; `CloudFolders` composed with the steps of a transfer.
3. Proofs: a weaker promise of `SyncTitle` for what comes after harm (what a sync may lose is at
   most what a mixture, or a blind job, did not show); which part of `OwnSave` survives with `Stay` 0; the promise of
   item 1 once it is stated; the steps of `QueueDrains` that are safety (an attempt either
   leaves the head with more of its tree sent, or costs a mishap).
4. The device flow of `oauth.c` with the race above, directories in `FtpServer`, the backoff of
   the queue as a function of attempts.
