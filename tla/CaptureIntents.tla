-------------------------- MODULE CaptureIntents --------------------------
(***************************************************************************)
(* How the background module decides what to back up: the main thread's    *)
(* 1 Hz poll of the process manager, the intent files it leaves in         *)
(* capture/, and the capture worker that turns an intent into one snapshot *)
(* per account (sysmodule/source/main.c).                                  *)
(*                                                                         *)
(* A snapshot is abstracted to the version of the save it holds; what      *)
(* happens to it afterwards is in BackupQueue.                             *)
(*                                                                         *)
(* list_savedata takes an error of the save reader for the end of its list *)
(* and savemount_copy_tree one of readdir for the end of a folder, so that *)
(* an account, or files of a save, may be left out and nobody told.        *)
(***************************************************************************)
EXTENDS Integers, FiniteSets

CONSTANTS
    Titles,         \* the games
    Saves,          \* the savedata, one per (game, account or device)
    TitleOf,        \* TitleOf[s]: the game of save s
    Destinations,   \* where snapshots go: "cloud" (the queue), "local", or both
    MaxVer,         \* bound: versions the games write of one save
    MaxPid,         \* bound: applications launched
    MaxMishaps,     \* bound: failures, crashes, changes of settings, requests
    Torn,           \* a snapshot copied while the game was writing, or that lacks files
    None            \* no application, no game, no file

Versions == 1..MaxVer
App == [title: Titles, pid: 1..MaxPid]
SavesOf(t) == {s \in Saves : TitleOf[s] = t}

ASSUME ConstantsAssumption ==
    /\ MaxVer \in Nat \ {0} /\ MaxPid \in Nat \ {0} /\ MaxMishaps \in Nat
    /\ TitleOf \in [Saves -> Titles]
    /\ Destinations \subseteq {"cloud", "local"} /\ Destinations # {}
    /\ None \notin App \cup Titles \cup Saves
    /\ \A listed \in SUBSET Saves : listed # None
    /\ Torn \notin 0..MaxVer

VARIABLES
    (* The console. *)
    app,        \* the running application, as the process manager knows it
    pids,       \* how many applications were launched
    live,       \* live[s]: version of save s
    wanted,     \* games backed up on close: autosync on, game not excluded
    asked,      \* the request file: a game the overlay asked to back up
    mishaps,    \* how many failures and interventions have happened
    (* Durable state on the SD card. *)
    pending,    \* games with a <title>.pending file
    capturing,  \* capturing[t]: the saves listed in <title>.capturing, if it exists
    captured,   \* captured[<<d, s>>]: version last captured to d, 0 if none
    (* Volatile state of the module. *)
    on,         \* the module's process is alive
    previous,   \* previous_title, previous_pid
    pollPc, sample,                          \* the main thread
    workPc, workTitle, workTodo, workSave, workBase,  \* capture_worker
    (* Ghosts. *)
    read,       \* the process ids some poll has read
    unseen,     \* games with a session whose end the module could not know of
    dropped,    \* games with a session a poll read and then let go of
    missed      \* saves such an error left out of a capture, in part or in whole

consoleVars == <<app, pids, live, wanted>>
cardVars    == <<pending, capturing, captured>>
pollVars    == <<previous, pollPc, sample>>
workVars    == <<workPc, workTitle, workTodo, workSave, workBase>>
ghostVars   == <<read, unseen, dropped, missed>>
vars == <<consoleVars, asked, mishaps, cardVars, on, pollVars, workVars, ghostVars>>

Mishap   == mishaps < MaxMishaps /\ mishaps' = mishaps + 1
NoMishap == UNCHANGED mishaps

\* The saves in F are left out, and nobody notices.
LeftOut(F) == missed' = missed \cup F /\ IF F = {} THEN NoMishap ELSE Mishap

IsOf(a, t) == a # None /\ a.title = t
Runs(t)    == IsOf(app, t)

PollIdle == pollPc' = "idle" /\ sample' = None
WorkIdle == /\ workPc' = "idle" /\ workTitle' = None /\ workTodo' = {}
            /\ workSave' = None /\ workBase' = 0

-----------------------------------------------------------------------------
(* The module is installed on a console whose games were played before. *)

Init ==
    /\ app = None /\ pids = 0
    /\ live = [s \in Saves |-> 1]
    /\ wanted = Titles
    /\ asked = None /\ mishaps = 0
    /\ pending = {}
    /\ capturing = [t \in Titles |-> None]
    /\ captured = [ds \in Destinations \X Saves |-> 0]
    /\ on = FALSE /\ previous = None
    /\ pollPc = "idle" /\ sample = None
    /\ workPc = "idle" /\ workTitle = None /\ workTodo = {}
    /\ workSave = None /\ workBase = 0
    /\ read = {} /\ unseen = Titles /\ dropped = {} /\ missed = {}

-----------------------------------------------------------------------------
(* The console: games run and save, the user changes settings. *)

Launch(t) ==
    /\ app = None /\ pids < MaxPid
    /\ pids' = pids + 1
    /\ app' = [title |-> t, pid |-> pids + 1]
    /\ UNCHANGED <<live, wanted, asked, mishaps, cardVars, on, pollVars, workVars, ghostVars>>

Play(s) ==
    /\ Runs(TitleOf[s]) /\ live[s] < MaxVer
    /\ live' = [live EXCEPT ![s] = @ + 1]
    /\ UNCHANGED <<app, pids, wanted, asked, mishaps, cardVars, on, pollVars, workVars, ghostVars>>

Close ==
    /\ app # None
    /\ app' = None
    /\ LET known == app \in {previous, sample}
       IN  /\ unseen' = IF ~known /\ app.pid \notin read THEN unseen \cup {app.title} ELSE unseen
           /\ dropped' = IF ~known /\ app.pid \in read THEN dropped \cup {app.title} ELSE dropped
    /\ UNCHANGED <<pids, live, wanted, asked, mishaps, cardVars, on, pollVars, workVars, read, missed>>

\* Autosync, or the game's exclusion, is switched.
Toggle(t) ==
    /\ Mishap
    /\ wanted' = IF t \in wanted THEN wanted \ {t} ELSE wanted \cup {t}
    /\ UNCHANGED <<app, pids, live, asked, cardVars, on, pollVars, workVars, ghostVars>>

\* The overlay asks for a backup of one game.
Ask(t) ==
    /\ Mishap
    /\ asked' = t
    /\ UNCHANGED <<consoleVars, cardVars, on, pollVars, workVars, ghostVars>>

-----------------------------------------------------------------------------
(* The main thread. *)

\* running_title; when it fails nothing changes and the loop tries again.
Poll ==
    /\ on /\ pollPc = "idle"
    /\ sample' = app /\ pollPc' = "exit"
    /\ read' = IF app = None THEN read ELSE read \cup {app.pid}
    /\ UNCHANGED <<consoleVars, asked, mishaps, cardVars, on, previous, workVars, unseen, dropped,
                   missed>>

Gone   == previous # None /\ previous # sample
Exited == Gone /\ previous.title \in wanted

\* The process changed: request_capture(previous_title).  When the file cannot be
\* written, or is created but not flushed, the loop starts over; previous keeps
\* the old process, and what this poll read is forgotten.
PollExit ==
    /\ on /\ pollPc = "exit"
    /\ \/ /\ Exited /\ NoMishap
          /\ pending' = pending \cup {previous.title}
          /\ unseen' = unseen \ {previous.title}
          /\ dropped' = dropped \ {previous.title}
          /\ missed' = missed \ SavesOf(previous.title)
          /\ previous' = sample /\ pollPc' = "manual" /\ UNCHANGED sample
       \/ /\ Exited /\ Mishap
          /\ pending' \in {pending, pending \cup {previous.title}}
          /\ dropped' = IF sample \notin {None, app} THEN dropped \cup {sample.title} ELSE dropped
          /\ PollIdle
          /\ UNCHANGED <<previous, unseen, missed>>
       \/ /\ ~Exited /\ NoMishap
          /\ unseen' = IF Gone THEN unseen \cup {previous.title} ELSE unseen
          /\ previous' = sample /\ pollPc' = "manual"
          /\ UNCHANGED <<pending, sample, dropped, missed>>
    /\ UNCHANGED <<consoleVars, asked, capturing, captured, on, workVars, read>>

\* syncstate_take_request reads and removes the request; it is refused while an
\* application runs, and not repeated when its intent cannot be written.
PollManual ==
    /\ on /\ pollPc = "manual"
    /\ asked' = None
    /\ LET granted == asked # None /\ sample = None
       IN  \/ granted /\ pending' = pending \cup {asked} /\ NoMishap
           \/ granted /\ UNCHANGED pending /\ Mishap
           \/ ~granted /\ UNCHANGED pending /\ NoMishap
    /\ PollIdle
    /\ UNCHANGED <<consoleVars, capturing, captured, on, previous, workVars, ghostVars>>

-----------------------------------------------------------------------------
(* The capture worker. *)

\* Mutant: only .pending files are claimed; a .capturing left behind never is.
ClaimPendingOnly(t) ==
    /\ on /\ workPc = "idle" /\ ~Runs(t)
    /\ t \in pending /\ capturing[t] = None
    /\ pending' = pending \ {t}
    /\ capturing' = [capturing EXCEPT ![t] = {}]
    /\ workPc' = "account" /\ workTitle' = t /\ workTodo' = SavesOf(t)
    /\ UNCHANGED <<consoleVars, asked, mishaps, captured, on, pollVars, workSave, workBase,
                   ghostVars>>

\* Mutant: a .pending is worked on under its own name, without the rename.
ClaimUnrenamed(t) ==
    /\ on /\ workPc = "idle" /\ ~Runs(t)
    /\ t \in pending \/ capturing[t] # None
    /\ workPc' = "account" /\ workTitle' = t /\ workTodo' = SavesOf(t)
    /\ UNCHANGED <<consoleVars, asked, mishaps, cardVars, on, pollVars, workSave, workBase,
                   ghostVars>>

\* An intent whose game is not running is claimed: a .capturing as it is, a
\* .pending by renaming it, unless the game has a .capturing already.  Then the
\* accounts of the game are listed; of a list cut short the first are taken.
Claim(t) ==
    /\ on /\ workPc = "idle" /\ ~Runs(t)
    /\ \/ capturing[t] # None /\ UNCHANGED <<pending, capturing>>
       \/ /\ t \in pending /\ capturing[t] = None
          /\ pending' = pending \ {t}
          /\ capturing' = [capturing EXCEPT ![t] = {}]
    /\ workPc' = "account" /\ workTitle' = t
    /\ \E listed \in SUBSET SavesOf(t) :
          /\ listed = {} => SavesOf(t) = {}
          /\ workTodo' = listed /\ LeftOut(SavesOf(t) \ listed)
    /\ UNCHANGED <<consoleVars, asked, captured, on, pollVars, workSave, workBase, read,
                   unseen, dropped>>

\* The intent is left for a later pass: the game is running (seen by the account
\* loop, by the snapshot guard before or after the copy, or as a busy save), it has
\* no save to list, or the process manager, the metadata or the SD card failed.
GiveUp ==
    /\ on /\ workPc # "idle"
    /\ \/ workPc \in {"account", "cloud", "local"} /\ Runs(workTitle) /\ NoMishap
       \/ SavesOf(workTitle) = {} /\ NoMishap
       \/ Mishap
    /\ WorkIdle
    /\ UNCHANGED <<consoleVars, asked, cardVars, on, pollVars, ghostVars>>

\* The next account is skipped if the intent lists it; otherwise its save is
\* mounted and the copy to the queue (or, without a cloud, to the card) begins.
Account(s) ==
    /\ on /\ workPc = "account" /\ s \in workTodo /\ ~Runs(workTitle)
    /\ workTodo' = workTodo \ {s}
    /\ IF s \in capturing[workTitle]
         THEN UNCHANGED <<workPc, workSave, workBase>>
         ELSE /\ workSave' = s /\ workBase' = live[s]
              /\ workPc' = IF "cloud" \in Destinations THEN "cloud" ELSE "localcopy"
    /\ UNCHANGED <<consoleVars, asked, mishaps, cardVars, on, pollVars, workTitle, ghostVars>>

\* What a copy that began at version workBase can hold now.
Copies == {workBase, live[workSave]} \cup (IF workBase = live[workSave] THEN {} ELSE {Torn})

\* The copy to d is made; one that lacks files is as good as any other.
Copied(d, short) ==
    /\ captured' \in {[captured EXCEPT ![<<d, workSave>>] = v] :
                         v \in IF short THEN {Torn} ELSE Copies}
    /\ LeftOut(IF short THEN {workSave} ELSE {})

\* backupqueue_enqueue: the guard is asked again after the copy.
CloudCopied ==
    /\ on /\ workPc = "cloud" /\ ~Runs(workTitle)
    /\ \E short \in BOOLEAN : Copied("cloud", short)
    /\ workPc' = IF "local" \in Destinations THEN "local" ELSE "checkpoint"
    /\ UNCHANGED <<consoleVars, asked, pending, capturing, on, pollVars, workTitle, workTodo,
                   workSave, workBase, read, unseen, dropped>>

\* syncjob_backup_title_local mounts the save again ...
LocalBegin ==
    /\ on /\ workPc = "local" /\ ~Runs(workTitle)
    /\ workBase' = live[workSave] /\ workPc' = "localcopy"
    /\ UNCHANGED <<consoleVars, asked, mishaps, cardVars, on, pollVars, workTitle, workTodo,
                   workSave, ghostVars>>

\* ... and keeps the copy without asking whether the game was started meanwhile.
LocalCopied ==
    /\ on /\ workPc = "localcopy"
    /\ \E short \in BOOLEAN : Copied("local", short)
    /\ workPc' = "checkpoint"
    /\ UNCHANGED <<consoleVars, asked, pending, capturing, on, pollVars, workTitle, workTodo,
                   workSave, workBase, read, unseen, dropped>>

\* The account is listed in the intent.
Checkpoint ==
    /\ on /\ workPc = "checkpoint"
    /\ capturing' = [capturing EXCEPT ![workTitle] = @ \cup {workSave}]
    /\ workPc' = "account" /\ workSave' = None /\ workBase' = 0
    /\ UNCHANGED <<consoleVars, asked, mishaps, pending, captured, on, pollVars, workTitle,
                   workTodo, ghostVars>>

\* Mutant: the finished intent is removed under both of its names.
FinishClearsPending ==
    /\ on /\ workPc = "account" /\ workTodo = {} /\ SavesOf(workTitle) # {}
    /\ capturing' = [capturing EXCEPT ![workTitle] = None]
    /\ pending' = pending \ {workTitle}
    /\ WorkIdle
    /\ UNCHANGED <<consoleVars, asked, mishaps, captured, on, pollVars, ghostVars>>

\* Every account is captured: the intent is removed, if the card lets it.
Finish ==
    /\ on /\ workPc = "account" /\ workTodo = {} /\ SavesOf(workTitle) # {}
    /\ \/ capturing' = [capturing EXCEPT ![workTitle] = None] /\ NoMishap
       \/ UNCHANGED capturing /\ Mishap
    /\ WorkIdle
    /\ UNCHANGED <<consoleVars, asked, pending, captured, on, pollVars, ghostVars>>

-----------------------------------------------------------------------------
(* Process lifetime. *)

\* Sessions whose exit was not yet acted on are lost with the process.
Crash ==
    /\ on /\ Mishap
    /\ on' = FALSE /\ previous' = None
    /\ PollIdle /\ WorkIdle
    /\ unseen' = unseen \cup {a.title : a \in {previous, sample} \ {None, app}}
    /\ UNCHANGED <<consoleVars, asked, cardVars, read, dropped, missed>>

Start ==
    /\ ~on /\ on' = TRUE
    /\ UNCHANGED <<consoleVars, asked, mishaps, cardVars, pollVars, workVars, ghostVars>>

-----------------------------------------------------------------------------

Console ==
    \/ Close
    \/ \E t \in Titles : Launch(t) \/ Toggle(t) \/ Ask(t)
    \/ \E s \in Saves : Play(s)

Main == Poll \/ PollExit \/ PollManual

Worker ==
    \/ GiveUp \/ CloudCopied \/ LocalBegin \/ LocalCopied \/ Checkpoint \/ Finish
    \/ \E t \in Titles : Claim(t)
    \/ \E s \in Saves : Account(s)

Next == Console \/ Main \/ Worker \/ Crash \/ Start

Spec == Init /\ [][Next]_vars

\* Both threads keep running, a pass over capture/ comes to every entry, games are
\* eventually closed, and the user starts the module again.
FairSpec ==
    /\ Spec
    /\ WF_vars(Main) /\ WF_vars(Worker) /\ WF_vars(Close) /\ WF_vars(Start)
    /\ \A t \in Titles : SF_vars(Claim(t))

-----------------------------------------------------------------------------
(* Properties. *)

WorkBusy == workPc # "idle"
Copying  == workPc \in {"cloud", "local", "localcopy", "checkpoint"}

\* Every variable has its type; in particular the intent being worked on is on the
\* card, and is never one of a game without that save.
TypeOK ==
    /\ app \in App \cup {None} /\ pids \in 0..MaxPid
    /\ live \in [Saves -> Versions]
    /\ wanted \subseteq Titles /\ asked \in Titles \cup {None}
    /\ mishaps \in 0..MaxMishaps
    /\ pending \subseteq Titles
    /\ capturing \in [Titles -> {None} \cup SUBSET Saves]
    /\ captured \in [Destinations \X Saves -> Versions \cup {0, Torn}]
    /\ on \in BOOLEAN /\ previous \in App \cup {None}
    /\ pollPc \in {"idle", "exit", "manual"} /\ sample \in App \cup {None}
    /\ workPc \in {"idle", "account", "cloud", "local", "localcopy", "checkpoint"}
    /\ WorkBusy => /\ workTitle \in Titles /\ capturing[workTitle] # None
                   /\ workTodo \subseteq SavesOf(workTitle)
    /\ Copying => workSave \in SavesOf(workTitle) /\ workBase \in Versions
    /\ read \subseteq 1..MaxPid /\ unseen \subseteq Titles /\ dropped \subseteq Titles
    /\ missed \subseteq Saves

\* Something still stands for another capture of save s of game t.
Remembered(t, s) ==
    \/ IsOf(app, t) \/ IsOf(previous, t) \/ IsOf(sample, t)
    \/ t \in pending
    \/ capturing[t] # None /\ s \notin capturing[t]

Stale(s) == \E d \in Destinations : captured[<<d, s>>] # live[s]

\* A save whose last capture is missing, old or torn is never forgotten: its game
\* runs, or the poll will see it gone, or an intent that still covers this account
\* is on the card.  Only sessions the module was blind to are exempt, and saves
\* that an error taken for the end of a list left out.
SessionsRemembered ==
    \A s \in Saves :
        LET t == TitleOf[s]
        IN  Stale(s) => Remembered(t, s) \/ t \in unseen \cup dropped \/ s \in missed

\* docs/BACKGROUND-BACKUP.md: "PID changes detect an exit even when another title
\* starts immediately": a session that a poll has read is never missed.  Does not
\* hold where an intent could not be written (PollExit), so no run has it.
ExitsDetected ==
    \A s \in Saves :
        LET t == TitleOf[s]
        IN  Stale(s) => Remembered(t, s) \/ t \in unseen \/ s \in missed

\* Every intent of a game with saves is eventually served, provided failures are
\* finitely many and games are eventually closed, however the game was restarted
\* meanwhile; the intent of a game without saves, which never is, holds up no other.
IntentsServed ==
    \A t \in {TitleOf[s] : s \in Saves} :
        (t \in pending \/ capturing[t] # None) ~> (t \notin pending /\ capturing[t] = None)
=============================================================================
