----------------------------- MODULE AppUpdate -----------------------------
(***************************************************************************)
(* The updater (core/ota.c, core/ota_network.c, gui/source/ota_update.cpp) *)
(* among the app's screens (JobPage).                                      *)
(*                                                                         *)
(* A release is N files.  The update job downloads each beside the file it *)
(* will replace (.ota) and checks it; the exchange happens when the app is *)
(* closed, one rename at a time, keeping what it replaces as .bak.         *)
(* Renames and downloads may fail and the console may die at any step;     *)
(* the number of failed renames, deaths and damaged downloads together is  *)
(* bounded by MaxMishaps.                                                  *)
(***************************************************************************)
EXTENDS JobPage

CONSTANTS
    N,          \* OTA_ASSET_COUNT; file 1 is the app itself
    MaxRelease, \* how many releases are published
    MaxMishaps  \* bound on failed renames, console deaths and damaged downloads

ASSUME UpdateAssumption ==
    N \in Nat \ {0} /\ MaxRelease \in Nat \ {0} /\ MaxMishaps \in Nat

Asset == 1..N
\* A file is a release, 0 where there is none, Torn where it is not all there.
Torn == -1
Whole == 1..MaxRelease

VARIABLES
    latest,   \* the release the site offers
    version,  \* APP_VERSION_STRING of the running app
    target, ota, bak,  \* the three files of each asset
    want,     \* the release whose digests are in pendingFiles
    pending,  \* pending: the exchange is to be made on exit
    active,   \* activeJob: "none", "live", or "dead" when its Job was destroyed
    step,     \* where the download or the exchange is
    i,        \* the asset it is at
    existed,  \* OtaFile.existed
    hurt,     \* the exchange was cut short, or a rename that undoes it failed
    again,    \* an exchange began after that
    mishaps

files   == <<target, ota, bak>>
history == <<hurt, again>>
update  == <<want, pending, active, step, i, existed>>
vars    == <<screen, latest, version, files, update, history, mishaps>>

Init ==
    /\ ScreenInit
    /\ latest = 1 /\ version = 1
    /\ target = [f \in Asset |-> 1] /\ ota = [f \in Asset |-> 0] /\ bak = [f \in Asset |-> 0]
    /\ want = 0 /\ pending = FALSE /\ active = "none" /\ step = "idle" /\ i = 1
    /\ existed = {} /\ hurt = FALSE /\ again = FALSE /\ mishaps = 0

Mishap == mishaps < MaxMishaps /\ mishaps' = mishaps + 1

\* The project publishes its next release.
Publish ==
    /\ latest < MaxRelease /\ latest' = latest + 1
    /\ UNCHANGED <<screen, version, files, update, history, mishaps>>

\* The user opens the app; its .nro must be there.
Launch ==
    /\ app = "off" /\ target[1] \in Whole
    /\ app' = "on" /\ ui' = "top" /\ Destroyed
    /\ version' = target[1]
    /\ want' = 0 /\ pending' = FALSE /\ active' = "none" /\ step' = "idle" /\ i' = 1
    /\ existed' = {}
    /\ UNCHANGED <<latest, files, history, mishaps>>

\* What follows changes neither the files nor what the updater holds.
Apart == UNCHANGED <<latest, version, files, update, history, mishaps>>

Screens ==
    /\ \/ OpenJob("login") \/ OpenJob("sync") \/ WorkerEnds
       \/ Back \/ Plus \/ NoKey \/ PumpLogin \/ Leave
    /\ Apart

\* The end of a job; onFinished of an update forgets it.
PumpEnd ==
    /\ PumpFinish
    /\ active' = IF kind = "update" /\ told' # told THEN "none" ELSE active
    /\ UNCHANGED <<latest, version, files, want, pending, step, i, existed, history, mishaps>>

\* The pages go; a job whose end was never handled is still in activeJob.
Cleared ==
    /\ Clear
    /\ active' = IF active = "live" THEN "dead" ELSE active
    /\ UNCHANGED <<latest, version, files, want, pending, step, i, existed, history, mishaps>>
-----------------------------------------------------------------------------
(* checkForUpdates, startUpdate and the update job.                        *)

\* Offered a newer release, the user takes it.  An update that waits for the exit
\* is not downloaded again.
StartUpdate ==
    /\ latest > version /\ ~pending
    /\ OpenJob("update")
    /\ active' = "live" /\ want' = latest /\ step' = "sums" /\ i' = 1
    /\ UNCHANGED <<latest, version, files, pending, existed, history, mishaps>>

Staging(s) == kind = "update" /\ worker = "work" /\ step = s
Returns(r) == WorkerReturns(r) /\ UNCHANGED <<app, ui, pagevars, offers>> /\ step' = "idle"

\* SHA256SUMS comes and names every file once; or not, and nothing is discarded.
Sums ==
    /\ Staging("sums") /\ step' = "fetch"
    /\ UNCHANGED <<screen, latest, version, files, want, pending, active, i, existed, history,
                   mishaps>>
NoSums ==
    /\ Staging("sums") /\ Returns(FALSE)
    /\ UNCHANGED <<latest, version, files, want, pending, active, i, existed, history, mishaps>>

\* download: the .ota is emptied first, then filled.
Fetch ==
    /\ Staging("fetch") /\ i <= N /\ step' = "fill"
    /\ ota' = [ota EXCEPT ![i] = Torn]
    /\ UNCHANGED <<screen, latest, version, target, bak, want, pending, active, i, existed,
                   history, mishaps>>

\* The file is here and its digest is right.
Fetched ==
    /\ Staging("fill") /\ step' = "fetch"
    /\ ota' = [ota EXCEPT ![i] = want] /\ i' = i + 1
    /\ UNCHANGED <<screen, latest, version, target, bak, want, pending, active, existed,
                   history, mishaps>>

\* It did not come, it was cancelled, or its digest is wrong: ota_discard.
FetchFails ==
    /\ Staging("fill")
    /\ ota' = [f \in Asset |-> 0]
    /\ Returns(FALSE)
    /\ UNCHANGED <<latest, version, target, bak, want, pending, active, i, existed, history,
                   mishaps>>

Staged ==
    /\ Staging("fetch") /\ i = N + 1
    /\ pending' = TRUE /\ Returns(TRUE)
    /\ UNCHANGED <<latest, version, files, want, active, i, existed, history, mishaps>>

\* What is staged goes bad before the exit.
Damage(f) ==
    /\ pending /\ app # "closing" /\ ota[f] # 0 /\ Mishap
    /\ ota' = [ota EXCEPT ![f] = Torn]
    /\ UNCHANGED <<screen, latest, version, target, bak, update, history>>
-----------------------------------------------------------------------------
(* finishOtaUpdate and ota_apply.                                          *)

At(s) == app = "closing" /\ step = s
Off == app' = "off" /\ UNCHANGED <<ui, jobvars, pagevars>>
Closing == UNCHANGED screen
Finish(s) == UNCHANGED <<latest, version, want, pending, active>> /\ step' = s

\* activeJob is used and forgotten; used after its job was destroyed, it may as
\* well bring the app down.
Join ==
    /\ At("idle") /\ active # "none"
    /\ \/ active' = "none" /\ Closing
       \/ active = "dead" /\ active' = "none" /\ Off
    /\ UNCHANGED <<latest, version, files, want, pending, step, i, existed, history, mishaps>>

\* Nothing to install; or the module runs, a staged file is missing or is not
\* what was downloaded: the app closes with every file as it was.
Refuse ==
    /\ At("idle") /\ active = "none" /\ Off
    /\ UNCHANGED <<latest, version, files, update, history, mishaps>>

\* The same without looking at what is staged again.
BeginUnverified ==
    /\ At("idle") /\ active = "none" /\ pending
    /\ \A f \in Asset : ota[f] # 0
    /\ existed' = {f \in Asset : target[f] # 0} /\ i' = 1
    /\ again' = hurt
    /\ Finish("drop") /\ Closing
    /\ UNCHANGED <<files, hurt, mishaps>>

\* Every staged file is there and verifies: the exchange begins.
Begin ==
    /\ At("idle") /\ active = "none" /\ pending
    /\ \A f \in Asset : ota[f] = want
    /\ existed' = {f \in Asset : target[f] # 0} /\ i' = 1
    /\ again' = hurt
    /\ Finish("drop") /\ Closing
    /\ UNCHANGED <<files, hurt, mishaps>>

\* remove(backup), of a file there is one to replace.
DropBakAlways ==
    /\ At("drop") /\ i <= N
    /\ bak' = [bak EXCEPT ![i] = 0]
    /\ Finish(IF i \in existed THEN "keep" ELSE "put") /\ Closing
    /\ UNCHANGED <<target, ota, i, existed, history, mishaps>>
DropBak ==
    /\ At("drop") /\ i <= N
    /\ bak' = IF i \in existed THEN [bak EXCEPT ![i] = 0] ELSE bak
    /\ Finish(IF i \in existed THEN "keep" ELSE "put") /\ Closing
    /\ UNCHANGED <<target, ota, i, existed, history, mishaps>>

\* rename(target, backup)
Keep ==
    /\ At("keep")
    /\ bak' = [bak EXCEPT ![i] = target[i]] /\ target' = [target EXCEPT ![i] = 0]
    /\ Finish("put") /\ Closing
    /\ UNCHANGED <<ota, i, existed, history, mishaps>>

\* rename(staged, target), tidying the .bak away as each file lands.
PutTidy ==
    /\ At("put")
    /\ target' = [target EXCEPT ![i] = ota[i]] /\ ota' = [ota EXCEPT ![i] = 0]
    /\ bak' = [bak EXCEPT ![i] = 0]
    /\ i' = i + 1 /\ Finish("drop") /\ Closing
    /\ UNCHANGED <<existed, history, mishaps>>

\* rename(staged, target)
Put ==
    /\ At("put")
    /\ target' = [target EXCEPT ![i] = ota[i]] /\ ota' = [ota EXCEPT ![i] = 0]
    /\ i' = i + 1 /\ Finish("drop") /\ Closing
    /\ UNCHANGED <<bak, existed, history, mishaps>>

\* One of the three fails: the file being replaced is put back by "undo", those
\* before it by "back".
StepFails ==
    /\ \/ At("drop") /\ i <= N /\ i \in existed /\ Finish("back")
       \/ At("keep") /\ Finish("back")
       \/ At("put") /\ Finish(IF i \in existed THEN "undo" ELSE "back")
    /\ Mishap /\ Closing
    /\ UNCHANGED <<files, i, existed, history>>

\* rename(backup, target) of the file that was being replaced.
UndoForgotten == At("undo") /\ Finish("back") /\ Closing
                 /\ UNCHANGED <<files, i, existed, history, mishaps>>
Undo ==
    /\ At("undo")
    /\ target' = [target EXCEPT ![i] = bak[i]] /\ bak' = [bak EXCEPT ![i] = 0]
    /\ Finish("back") /\ Closing
    /\ UNCHANGED <<ota, i, existed, history, mishaps>>

\* rename(target, staged) of a file that had been replaced ...
TakeOut ==
    /\ At("back") /\ i > 1
    /\ ota' = [ota EXCEPT ![i - 1] = target[i - 1]]
    /\ target' = [target EXCEPT ![i - 1] = 0]
    /\ i' = i - 1 /\ Finish(IF i - 1 \in existed THEN "putback" ELSE "back") /\ Closing
    /\ UNCHANGED <<bak, existed, history, mishaps>>

\* ... and rename(backup, target).
PutBack ==
    /\ At("putback")
    /\ target' = [target EXCEPT ![i] = bak[i]] /\ bak' = [bak EXCEPT ![i] = 0]
    /\ Finish("back") /\ Closing
    /\ UNCHANGED <<ota, i, existed, history, mishaps>>

\* A rename of the rollback fails; the others are still tried.
RollbackFails ==
    /\ \/ At("undo") /\ UNCHANGED i
       \/ At("putback") /\ UNCHANGED i
       \/ At("back") /\ i > 1 /\ i' = i - 1
    /\ Finish("back") /\ hurt' = TRUE
    /\ Mishap /\ Closing
    /\ UNCHANGED <<files, existed, again>>

\* The exchange is over, done or undone.
Closed ==
    /\ (At("drop") /\ i = N + 1) \/ (At("back") /\ i = 1)
    /\ Off /\ UNCHANGED <<latest, version, files, update, history, mishaps>>

Exchange ==
    \/ Join \/ Refuse \/ Begin \/ DropBak \/ Keep \/ Put \/ Undo \/ TakeOut \/ PutBack \/ Closed
-----------------------------------------------------------------------------
Busy == app = "closing" /\ step # "idle"

\* The console dies and takes the threads with it: what is on the card stays.
Death ==
    /\ app # "off" /\ Mishap
    /\ app' = "off" /\ ui' = "top" /\ Destroyed /\ step' = "idle"
    /\ hurt' = (hurt \/ Busy)
    /\ UNCHANGED <<latest, version, files, want, pending, active, i, existed, again>>

Download == Sums \/ Fetch \/ Fetched \/ Staged
Next ==
    \/ Publish \/ Launch \/ Screens \/ PumpEnd \/ Cleared \/ StartUpdate
    \/ NoSums \/ Download \/ FetchFails
    \/ (\E f \in Asset : Damage(f))
    \/ Exchange \/ StepFails \/ RollbackFails \/ Death
Spec == Init /\ [][Next]_vars

\* Threads run: the work comes to an end, the interface goes on turning and a
\* close goes through.  Nobody has to open a job, press a key or close the app.
FairSpec ==
    /\ Spec
    /\ WF_vars(WorkerEnds /\ Apart) /\ WF_vars(Download)
    /\ WF_vars((NoKey \/ PumpLogin) /\ Apart) /\ WF_vars(PumpEnd)
    /\ WF_vars(Cleared) /\ WF_vars(Exchange)
-----------------------------------------------------------------------------
(* Properties.                                                             *)

TypeOK ==
    /\ ScreenTypeOK
    /\ latest \in Whole /\ version \in Whole /\ want \in {0} \cup Whole
    /\ target \in [Asset -> {0} \cup Whole]
    /\ ota \in [Asset -> {0, Torn} \cup Whole]
    /\ bak \in [Asset -> {0} \cup Whole]
    /\ step \in {"idle", "sums", "fetch", "fill", "drop", "keep", "put", "undo", "back", "putback"}
    /\ i \in 1..(N + 1) /\ existed \subseteq Asset
    /\ active \in {"none", "live", "dead"}
    /\ mishaps \in 0..MaxMishaps

\* Only what was downloaded whole and verified ever replaces an installed file,
\* also when what was staged has changed since (ota_apply verifies again).
OnlyVerified == \A f \in Asset : target[f] # Torn

\* Without a death in the middle of the exchange or a rollback that fails, an
\* update installs all the files of a release or none (ota_apply's rollback).
AllOrNothing ==
    ~Busy /\ ~hurt => \E r \in Whole : \A f \in Asset : target[f] = r

\* After an exchange that was cut short, docs/OTA.md has the user restore the
\* files of one release by hand: until another exchange begins, each of them is
\* there, installed or as .bak.
OneReleaseLeft ==
    ~again => \E r \in Whole : \A f \in Asset : r \in {target[f], bak[f]}

\* Whatever was interrupted, and however often, no asset is left without a
\* working copy on the card.
NoAssetLost == \A f \in Asset : target[f] \in Whole \/ bak[f] \in Whole

\* Nobody waits for ever: a job that is on the screen gets to say how it ended,
\* and an app that is leaving goes away, though it first waits for a thread nobody
\* told to stop and then makes an exchange in which anything may fail.
NobodyWaits ==
    /\ kind # "none" ~> told # <<>> \/ app # "on"
    /\ app \in {"clearing", "closing"} ~> app = "off"

\* finishOtaUpdate cancels and joins a job that exists ("A system-requested exit
\* can bypass the JobPage buttons. Join before HTTP shutdown.").  Does not hold:
\* by then Application::exit has destroyed the page and its job, so no run has it.
JoinsLiveJob == app = "closing" => active # "dead"
=============================================================================
