------------------------------ MODULE JobPage ------------------------------
(***************************************************************************)
(* A job and its screen (gui/source/job.cpp, job_page.cpp, openJob in      *)
(* main.cpp, the main loop of borealis as the app uses it).                *)
(*                                                                         *)
(* The work runs on a thread of its own and talks to the interface through *)
(* the fields of Job; the interface thread looks at them once per turn of  *)
(* the main loop, in pump.  A turn: leave if asked to, one key, pump.      *)
(* What an update job does is in AppUpdate; here are the others: signing   *)
(* in, which posts an address and a code, and a sync, which may end with   *)
(* choices for the user.                                                   *)
(***************************************************************************)
EXTENDS Integers, Sequences

VARIABLES
    app,       \* "off", "on", "quitting" (quit was called), "clearing", "closing"
    ui,        \* where the interface thread is in its turn: "top", "draw", "pump"
    kind,      \* job on the screen: "none", "login", "sync", "update"
    worker,    \* its thread: "work", "polling", "returned", "stored", "done"
    result,    \* what the work returned
    ok,        \* Job::ok
    finished,  \* Job::finished
    cancel,    \* Job::cancel
    posted,    \* Job::devicePending
    offers,    \* Job::choices is not empty
    qr,        \* the sign-in code is on the screen
    rows,      \* the choices are on the screen
    handled,   \* JobPage::finishedHandled
    told       \* arguments onFinished was called with

jobvars  == <<worker, result, ok, finished, cancel, posted, offers>>
pagevars == <<kind, qr, rows, handled, told>>
screen   == <<app, ui, jobvars, pagevars>>

NoJob ==
    /\ kind = "none" /\ worker = "done" /\ result = FALSE /\ ok = FALSE /\ finished = FALSE
    /\ cancel = FALSE /\ posted = FALSE /\ offers = FALSE
    /\ qr = FALSE /\ rows = FALSE /\ handled = FALSE /\ told = <<>>

ScreenInit == app = "off" /\ ui = "top" /\ NoJob

\* As NoJob, of the next state: the page and its job are destroyed.
Destroyed ==
    /\ kind' = "none" /\ worker' = "done" /\ result' = FALSE /\ ok' = FALSE
    /\ finished' = FALSE /\ cancel' = FALSE /\ posted' = FALSE /\ offers' = FALSE
    /\ qr' = FALSE /\ rows' = FALSE /\ handled' = FALSE /\ told' = <<>>

Cancellable == kind \in {"login", "update"}
-----------------------------------------------------------------------------
(* The work thread.                                                        *)

WorkerReturns(r) ==
    /\ worker' = "returned" /\ result' = r
    /\ UNCHANGED <<ok, finished, cancel, posted>>

\* The relay answered with a code: gui_device_cb.
PostLogin ==
    /\ kind = "login" /\ worker = "work"
    /\ posted' = TRUE /\ worker' = "polling"
    /\ UNCHANGED <<app, ui, pagevars, result, ok, finished, cancel, offers>>

\* The sign-in ends: allowed, denied, expired, without a code, or cancelled.
LoginEnds(r) ==
    /\ kind = "login" /\ worker \in {"work", "polling"}
    /\ r => worker = "polling"
    /\ WorkerReturns(r)
    /\ UNCHANGED <<app, ui, pagevars, offers>>

\* A sync ends; a conflict offers its two ways out and counts as not done.
SyncEnds(r, conflict) ==
    /\ kind = "sync" /\ worker = "work"
    /\ r => ~conflict
    /\ offers' = conflict
    /\ WorkerReturns(r)
    /\ UNCHANGED <<app, ui, pagevars>>

\* As StoreOk, the other way round: finished while the result is not there yet.
StoreOkLate ==
    /\ worker = "returned"
    /\ finished' = TRUE /\ worker' = "stored"
    /\ UNCHANGED <<app, ui, pagevars, result, ok, cancel, posted, offers>>

\* Job::start's lambda: the result, and only then that there is one.
StoreOk ==
    /\ worker = "returned"
    /\ ok' = result /\ worker' = "stored"
    /\ UNCHANGED <<app, ui, pagevars, result, finished, cancel, posted, offers>>
StoreFinishedIfOk ==
    /\ worker = "stored"
    /\ finished' = ok /\ worker' = "done"
    /\ UNCHANGED <<app, ui, pagevars, result, ok, cancel, posted, offers>>
StoreFinished ==
    /\ worker = "stored"
    /\ finished' = TRUE /\ worker' = "done"
    /\ UNCHANGED <<app, ui, pagevars, result, ok, cancel, posted, offers>>
-----------------------------------------------------------------------------
(* The interface thread: one key at the top of a turn, then pump, in which *)
(* the work thread may move between the two looks.                         *)

Awake == app = "on" /\ ui = "top"

\* The page of a new job starts it.
OpenJob(k) ==
    /\ Awake /\ kind = "none"
    /\ kind' = k /\ worker' = "work" /\ ui' = "draw"
    /\ UNCHANGED <<app, result, ok, finished, cancel, posted, offers, qr, rows, handled, told>>

\* onBackPressed asking the work instead of finishedHandled.
BackOnFinished ==
    /\ Awake /\ kind # "none" /\ ui' = "draw"
    /\ IF finished THEN Destroyed
       ELSE /\ cancel' = (cancel \/ Cancellable)
            /\ UNCHANGED <<worker, result, ok, finished, posted, offers, pagevars>>
    /\ UNCHANGED app

\* B, or the button: onBackPressed.
Back ==
    /\ Awake /\ kind # "none" /\ ui' = "draw"
    /\ IF handled THEN Destroyed
       ELSE /\ cancel' = (cancel \/ (Cancellable /\ ~finished))
            /\ UNCHANGED <<worker, result, ok, finished, posted, offers, pagevars>>
    /\ UNCHANGED app

\* +: quits at once on the other screens, and on this one when the work is over.
Plus ==
    /\ Awake /\ ui' = "draw"
    /\ kind # "none" => finished
    /\ app' = "quitting"
    /\ UNCHANGED <<jobvars, pagevars>>

NoKey ==
    /\ Awake /\ kind # "none" /\ ui' = "draw"
    /\ UNCHANGED <<app, jobvars, pagevars>>

\* pump, first look: takeDeviceLogin, taken once.
PumpLogin ==
    /\ ui = "draw" /\ ui' = "pump"
    /\ qr' = (qr \/ posted) /\ posted' = FALSE
    /\ UNCHANGED <<app, kind, rows, handled, told, worker, result, ok, finished, cancel, offers>>

\* pump, second look: the end of the work, once.
PumpFinish ==
    /\ ui = "pump" /\ ui' = "top"
    /\ IF kind # "none" /\ finished /\ ~handled
       THEN /\ handled' = TRUE /\ qr' = FALSE
            /\ rows' = offers /\ offers' = FALSE
            /\ told' = Append(told, ok)
       ELSE UNCHANGED <<handled, qr, rows, offers, told>>
    /\ UNCHANGED <<app, kind, worker, result, ok, finished, cancel, posted>>

\* The main loop is told to leave: by quit, or by the system at any turn.
Leave ==
    /\ ui = "top" /\ app \in {"on", "quitting"}
    /\ app' = "clearing"
    /\ UNCHANGED <<ui, jobvars, pagevars>>

\* Application::exit destroys the pages; ~Job waits for the thread, which nobody
\* has told to stop.
Clear ==
    /\ app = "clearing" /\ worker = "done"
    /\ app' = "closing" /\ Destroyed
    /\ UNCHANGED ui

WorkerEnds ==
    \/ PostLogin \/ (\E r \in BOOLEAN : LoginEnds(r))
    \/ (\E r, c \in BOOLEAN : SyncEnds(r, c)) \/ StoreOk \/ StoreFinished
Turn == PumpLogin \/ PumpFinish
-----------------------------------------------------------------------------
(* Properties.                                                             *)

ScreenTypeOK ==
    /\ app \in {"off", "on", "quitting", "clearing", "closing"}
    /\ ui \in {"top", "draw", "pump"}
    /\ kind \in {"none", "login", "sync", "update"}
    /\ worker \in {"work", "polling", "returned", "stored", "done"}
    /\ result \in BOOLEAN /\ ok \in BOOLEAN /\ finished \in BOOLEAN
    /\ cancel \in BOOLEAN /\ posted \in BOOLEAN /\ offers \in BOOLEAN
    /\ qr \in BOOLEAN /\ rows \in BOOLEAN /\ handled \in BOOLEAN

\* Who opened the job hears of its end at most once, and hears what the work
\* returned (Job::start stores ok before finished; pump's finishedHandled).
TruthTold == told # <<>> => told = <<result>>

\* While the app stays open a page goes away only after its end was told and the
\* choices its work left were on the screen (onBackPressed waits for
\* finishedHandled, not for isFinished).
NothingUnsaid ==
    [][kind # "none" /\ kind' = "none" /\ app = "on" /\ app' = "on" =>
          told # <<>> /\ ~offers]_screen
=============================================================================
