-------------------------- MODULE AppUpdateProofs --------------------------
(***************************************************************************)
(* Proofs about the updater and the screens it runs among, for every       *)
(* number of files, releases and mishaps.                                  *)
(***************************************************************************)
EXTENDS AppUpdate, TLAPS

USE UpdateAssumption

-----------------------------------------------------------------------------
(* Where the threads are.  The work's thread exists only while its page does;
   what it stored is what the work returned; the end was told if and only if the
   page handled it; an update is at work or being exchanged, never both. *)

JobInv ==
    /\ kind = "none" => worker = "done" /\ ~finished /\ ~handled
    /\ finished => worker = "done" /\ kind # "none"
    /\ worker \in {"stored", "done"} => ok = result
    /\ handled => finished /\ told = <<result>> /\ ~offers
    /\ ~handled => told = <<>>

AppInv ==
    /\ app \in {"off", "closing"} => kind = "none"
    /\ app \in {"off", "clearing", "closing"} => ui = "top"

ScreenInv == ScreenTypeOK /\ JobInv /\ AppInv

Loading == {"sums", "fetch", "fill"}
Swapping == {"drop", "keep", "put", "undo", "back", "putback"}

\* What the updater itself keeps, apart from the screens.
UpdateTypeOK ==
    /\ latest \in Whole /\ version \in Whole /\ want \in {0} \cup Whole
    /\ target \in [Asset -> {0} \cup Whole]
    /\ ota \in [Asset -> {0, Torn} \cup Whole]
    /\ bak \in [Asset -> {0} \cup Whole]
    /\ step \in {"idle"} \cup Loading \cup Swapping
    /\ i \in 1..(N + 1) /\ existed \subseteq Asset
    /\ active \in {"none", "live", "dead"}
    /\ mishaps \in 0..MaxMishaps

UpdateInv ==
    /\ step \in Loading => kind = "update" /\ worker = "work" /\ want \in Whole
    /\ step \in Swapping => app \in {"off", "closing"}
    /\ pending => want \in Whole
    /\ step \in {"keep", "put", "undo", "putback", "fill"} => i <= N
    /\ app = "closing" /\ step \in {"drop", "keep", "put"} =>
          want \in Whole /\ \A f \in Asset : f >= i => ota[f] = want

TypeInv == ScreenInv /\ UpdateTypeOK /\ UpdateInv

LEMMA InitTypeInv == Init => TypeInv
<1> SUFFICES ASSUME Init PROVE TypeInv
  OBVIOUS
<1> USE DEF Init, ScreenInit, NoJob
<1>1. ScreenTypeOK
  BY DEF ScreenTypeOK
<1>2. ScreenInv
  BY <1>1 DEF ScreenInv, JobInv, AppInv
<1>3. UpdateTypeOK
  BY DEF UpdateTypeOK, Whole, Asset
<1>4. UpdateInv
  BY DEF UpdateInv, Loading, Swapping
<1>5. QED
  BY <1>2, <1>3, <1>4 DEF TypeInv

\* Nothing of the job and its page changes.
LEMMA JobSame ==
    ASSUME JobInv, UNCHANGED <<kind, worker, result, ok, finished, offers, handled, told>>
    PROVE  JobInv'
  BY Zenon DEF JobInv

\* The page and its job are gone.
LEMMA DestroyedInv ==
    ASSUME Destroyed, app' \in {"off", "on", "quitting", "clearing", "closing"},
           ui' \in {"top", "draw", "pump"}, app' # "on" => ui' = "top"
    PROVE  ScreenInv'
<1>1. ScreenTypeOK'
  BY DEF Destroyed, ScreenTypeOK
<1>2. JobInv' /\ AppInv'
  BY DEF Destroyed, JobInv, AppInv
<1>3. QED
  BY <1>1, <1>2 DEF ScreenInv

\* A step of the screens alone.
LEMMA ScreenStep ==
    ASSUME ScreenInv,
           \/ \E k \in {"login", "sync", "update"} : OpenJob(k)
           \/ WorkerEnds \/ Back \/ Plus \/ NoKey \/ PumpLogin \/ PumpFinish \/ Leave \/ Clear
    PROVE  ScreenInv'
<1> USE DEF ScreenInv, jobvars, pagevars, Awake
<1>1. ASSUME NEW k \in {"login", "sync", "update"}, OpenJob(k) PROVE ScreenInv'
  <2>1. ScreenTypeOK'
    BY <1>1 DEF OpenJob, ScreenTypeOK
  <2>2. JobInv' /\ AppInv'
    BY <1>1 DEF OpenJob, ScreenTypeOK, JobInv, AppInv
  <2>3. QED
    BY <2>1, <2>2
<1>2. CASE PostLogin
  <2>1. ScreenTypeOK'
    BY <1>2 DEF PostLogin, ScreenTypeOK
  <2>2. JobInv' /\ AppInv'
    BY <1>2 DEF PostLogin, ScreenTypeOK, JobInv, AppInv
  <2>3. QED
    BY <2>1, <2>2
<1>3. ASSUME NEW r \in BOOLEAN, LoginEnds(r) PROVE ScreenInv'
  <2>1. ScreenTypeOK'
    BY <1>3 DEF LoginEnds, WorkerReturns, ScreenTypeOK
  <2>2. JobInv' /\ AppInv'
    BY <1>3 DEF LoginEnds, WorkerReturns, ScreenTypeOK, JobInv, AppInv
  <2>3. QED
    BY <2>1, <2>2
<1>4. ASSUME NEW r \in BOOLEAN, NEW c \in BOOLEAN, SyncEnds(r, c) PROVE ScreenInv'
  <2>1. ScreenTypeOK'
    BY <1>4 DEF SyncEnds, WorkerReturns, ScreenTypeOK
  <2>2. JobInv' /\ AppInv'
    BY <1>4 DEF SyncEnds, WorkerReturns, ScreenTypeOK, JobInv, AppInv
  <2>3. QED
    BY <2>1, <2>2
<1>5. CASE StoreOk
  <2>1. ScreenTypeOK'
    BY <1>5 DEF StoreOk, ScreenTypeOK
  <2>2. JobInv' /\ AppInv'
    BY <1>5 DEF StoreOk, ScreenTypeOK, JobInv, AppInv
  <2>3. QED
    BY <2>1, <2>2
<1>6. CASE StoreFinished
  <2>1. ScreenTypeOK'
    BY <1>6 DEF StoreFinished, ScreenTypeOK
  <2>2. JobInv' /\ AppInv'
    BY <1>6 DEF StoreFinished, ScreenTypeOK, JobInv, AppInv
  <2>3. QED
    BY <2>1, <2>2
<1>7. CASE Back
  <2>1. CASE handled
    <3>1. Destroyed /\ app' = "on" /\ ui' = "draw"
      BY <1>7, <2>1 DEF Back
    <3>2. QED
      BY <3>1, DestroyedInv
  <2>2. CASE ~handled
    <3>1. /\ UNCHANGED <<app, kind, worker, result, ok, finished, posted, offers, qr, rows, handled, told>>
          /\ app = "on" /\ ui' = "draw" /\ cancel' = (cancel \/ (Cancellable /\ ~finished))
      BY <1>7, <2>2 DEF Back
    <3>2. cancel' \in BOOLEAN
      BY <3>1
    <3>3. QED
      BY <3>1, <3>2, JobSame DEF ScreenTypeOK, AppInv
  <2>3. QED
    BY <2>1, <2>2
<1>8. CASE Plus \/ NoKey \/ Leave
  <2>1. UNCHANGED <<kind, worker, result, ok, finished, offers, handled, told>>
    BY <1>8 DEF Plus, NoKey, Leave
  <2>2. ScreenTypeOK'
    <3>1. /\ app' \in {"off", "on", "quitting", "clearing", "closing"}
          /\ ui' \in {"top", "draw", "pump"} /\ UNCHANGED <<jobvars, pagevars>>
      BY <1>8 DEF Plus, NoKey, Leave, ScreenTypeOK
    <3>2. QED
      BY <3>1 DEF ScreenTypeOK
  <2>3. AppInv'
    BY <1>8 DEF Plus, NoKey, Leave, AppInv
  <2>4. QED
    BY <2>1, <2>2, <2>3, JobSame
<1>9. CASE PumpLogin
  <2>1. qr' \in BOOLEAN /\ posted' \in BOOLEAN
    BY <1>9 DEF PumpLogin
  <2>2. UNCHANGED <<kind, worker, result, ok, finished, offers, handled, told>>
    BY <1>9 DEF PumpLogin
  <2>3. ScreenTypeOK'
    BY <1>9, <2>1 DEF PumpLogin, ScreenTypeOK
  <2>4. AppInv'
    BY <1>9 DEF PumpLogin, AppInv
  <2>5. QED
    BY <2>2, <2>3, <2>4, JobSame
<1>10. CASE PumpFinish
  <2>1. app' = app /\ kind' = kind /\ ui = "pump" /\ ui' = "top" /\ AppInv'
    BY <1>10 DEF PumpFinish, AppInv
  <2>2. CASE kind # "none" /\ finished /\ ~handled
    <3>1. told' = <<ok>> /\ ok = result
      BY <1>10, <2>2 DEF PumpFinish, JobInv
    <3>2. ScreenTypeOK'
      BY <1>10, <2>2, <3>1 DEF PumpFinish, ScreenTypeOK
    <3>3. JobInv'
      BY <1>10, <2>2, <3>1 DEF PumpFinish, JobInv
    <3>4. QED
      BY <2>1, <3>2, <3>3
  <2>3. CASE ~(kind # "none" /\ finished /\ ~handled)
    <3>1. UNCHANGED <<kind, jobvars, qr, rows, handled, told>>
      BY <1>10, <2>3 DEF PumpFinish
    <3>2. ScreenTypeOK'
      BY <2>1, <3>1 DEF ScreenTypeOK
    <3>3. QED
      BY <2>1, <3>1, <3>2, JobSame
  <2>4. QED
    BY <2>2, <2>3
<1>11. CASE Clear
  BY <1>11, DestroyedInv DEF Clear, AppInv, ScreenTypeOK
<1>12. QED
  BY <1>1, <1>2, <1>3, <1>4, <1>5, <1>6, <1>7, <1>8, <1>9, <1>10, <1>11 DEF WorkerEnds

\* A step that leaves the screens alone, and one that ends an exchange.
LEMMA ScreenSame == ScreenInv /\ UNCHANGED screen => ScreenInv'
<1> SUFFICES ASSUME ScreenInv, UNCHANGED screen PROVE ScreenInv'
  OBVIOUS
<1> USE DEF ScreenInv, screen, jobvars, pagevars
<1>1. ScreenTypeOK'
  BY DEF ScreenTypeOK
<1>2. QED
  BY <1>1, JobSame DEF AppInv

LEMMA ScreenOff == ScreenInv /\ app = "closing" /\ Off => ScreenInv'
<1> SUFFICES ASSUME ScreenInv, app = "closing", Off PROVE ScreenInv'
  OBVIOUS
<1> USE DEF ScreenInv, Off, jobvars, pagevars
<1>1. ScreenTypeOK'
  BY DEF ScreenTypeOK
<1>2. QED
  BY <1>1, JobSame DEF AppInv

\* The work of an update ends.
LEMMA ScreenReturns ==
    ASSUME ScreenInv, kind = "update", worker = "work", NEW r \in BOOLEAN, Returns(r)
    PROVE  ScreenInv'
<1> USE DEF ScreenInv, Returns, WorkerReturns, pagevars
<1>1. ScreenTypeOK'
  BY DEF ScreenTypeOK
<1>2. JobInv' /\ AppInv'
  BY DEF JobInv, AppInv
<1>3. QED
  BY <1>1, <1>2

\* The loading steps of an update belong to its thread.
LEMMA WorkerAlone ==
    ASSUME ScreenInv, WorkerEnds
    PROVE  ~(kind = "update" /\ worker = "work") /\ ~(kind' = "update" /\ worker' = "work")
  BY DEF WorkerEnds, PostLogin, LoginEnds, SyncEnds, WorkerReturns, StoreOk, StoreFinished, pagevars

\* The screens leave the thread of an update alone while it works.
LEMMA UpdateWorks ==
    ASSUME ScreenInv, kind = "update", worker = "work",
           \/ \E k \in {"login", "sync", "update"} : OpenJob(k)
           \/ WorkerEnds \/ Back \/ Plus \/ NoKey \/ PumpLogin \/ PumpFinish \/ Leave \/ Clear
    PROVE  kind' = "update" /\ worker' = "work"
<1>1. ~finished /\ ~handled
  BY DEF ScreenInv, JobInv
<1>2. QED
  BY <1>1, WorkerAlone
  DEF OpenJob, Back, Plus, NoKey, PumpLogin, PumpFinish, Leave, Clear, jobvars, pagevars, Awake

\* Nobody but a death or an exchange leaves the exchange.
LEMMA ScreensAwake ==
    ASSUME ScreenInv,
           \/ \E k \in {"login", "sync", "update"} : OpenJob(k)
           \/ WorkerEnds \/ Back \/ Plus \/ NoKey \/ PumpLogin \/ PumpFinish \/ Leave
    PROVE  app \notin {"off", "closing"} /\ app' \notin {"off", "closing"}
  BY DEF ScreenInv, JobInv, AppInv, OpenJob, Back, Plus, NoKey, PumpLogin, PumpFinish, Leave,
         Awake, WorkerEnds, PostLogin, LoginEnds, SyncEnds, WorkerReturns, StoreOk, StoreFinished

LEMMA TypeInvParts == TypeInv => TypeOK
  BY DEF TypeInv, TypeOK, ScreenInv, UpdateTypeOK, Loading, Swapping

LEMMA NextTypeInv == TypeInv /\ [Next]_vars => TypeInv'
<1> SUFFICES ASSUME ScreenInv, UpdateTypeOK, UpdateInv, [Next]_vars
             PROVE  ScreenInv' /\ UpdateTypeOK' /\ UpdateInv'
  BY DEF TypeInv
<1> USE DEF files, update, history, Apart, Loading, Swapping, Asset, Whole, Torn
<1>t. ScreenInv => app \in {"off", "on", "quitting", "clearing", "closing"}
  BY DEF ScreenInv, ScreenTypeOK
<1>1. CASE UNCHANGED vars
  <2>1. ScreenInv'
    BY <1>1, ScreenSame DEF vars
  <2>2. QED
    BY <1>1, <2>1 DEF vars, screen, jobvars, pagevars, UpdateTypeOK, UpdateInv
<1>2. CASE Publish
  <2>1. ScreenInv'
    BY <1>2, ScreenSame DEF Publish
  <2>2. QED
    BY <1>2, <2>1 DEF Publish, screen, jobvars, pagevars, UpdateTypeOK, UpdateInv
<1>3. CASE Launch
  <2>1. ScreenInv'
    BY <1>3, DestroyedInv DEF Launch
  <2>2. UpdateTypeOK'
    BY <1>3 DEF Launch, UpdateTypeOK
  <2>3. UpdateInv'
    BY <1>3 DEF Launch, UpdateInv
  <2>4. QED
    BY <2>1, <2>2, <2>3
<1>4. CASE Screens
  <2> DEFINE S == \/ \E k \in {"login", "sync", "update"} : OpenJob(k)
                  \/ WorkerEnds \/ Back \/ Plus \/ NoKey \/ PumpLogin \/ PumpFinish \/ Leave
  <2>1. S
    BY <1>4 DEF Screens
  <2>2. ScreenInv' /\ app \notin {"off", "closing"} /\ app' \notin {"off", "closing"}
    BY <2>1, ScreenStep, ScreensAwake
  <2>3. kind = "update" /\ worker = "work" => kind' = "update" /\ worker' = "work"
    BY <2>1, UpdateWorks
  <2> HIDE DEF S
  <2>4. QED
    BY <1>4, <2>2, <2>3 DEF Screens, UpdateTypeOK, UpdateInv
<1>5. CASE PumpEnd
  <2>1. ScreenInv' /\ app \notin {"off", "closing"} /\ app' \notin {"off", "closing"}
    BY <1>5, ScreenStep, ScreensAwake DEF PumpEnd
  <2>2. kind = "update" /\ worker = "work" => kind' = "update" /\ worker' = "work"
    BY <1>5, UpdateWorks DEF PumpEnd
  <2>3. active' \in {"none", "live", "dead"}
    BY <1>5 DEF PumpEnd, UpdateTypeOK
  <2>4. QED
    BY <1>5, <2>1, <2>2, <2>3 DEF PumpEnd, UpdateTypeOK, UpdateInv
<1>6. CASE Cleared
  <2>1. ScreenInv'
    BY <1>6, ScreenStep DEF Cleared
  <2>2. app = "clearing" /\ worker = "done"
    BY <1>6 DEF Cleared, Clear
  <2>3. step = "idle"
    BY <2>2 DEF UpdateTypeOK, UpdateInv
  <2>4. active' \in {"none", "live", "dead"}
    BY <1>6 DEF Cleared, UpdateTypeOK
  <2>5. QED
    BY <1>6, <2>1, <2>3, <2>4 DEF Cleared, UpdateTypeOK, UpdateInv
<1>7. CASE StartUpdate
  <2>1. ScreenInv'
    BY <1>7, ScreenStep DEF StartUpdate
  <2>2. app = "on" /\ app' = "on" /\ kind' = "update" /\ worker' = "work"
    BY <1>7 DEF StartUpdate, OpenJob, Awake
  <2>3. QED
    BY <1>7, <2>1, <2>2 DEF StartUpdate, UpdateTypeOK, UpdateInv
<1>8. CASE Sums
  <2>1. ScreenInv'
    BY <1>8, ScreenSame DEF Sums
  <2>2. QED
    BY <1>8, <2>1 DEF Sums, Staging, screen, jobvars, pagevars, UpdateTypeOK, UpdateInv
<1>9. CASE NoSums
  <2>1. ScreenInv'
    BY <1>9, ScreenReturns DEF NoSums, Staging
  <2>2. QED
    BY <1>9, <2>1 DEF NoSums, Returns, UpdateTypeOK, UpdateInv
<1>10. CASE Fetch
  <2>1. ScreenInv' /\ app \notin {"off", "closing"} /\ UNCHANGED app
    BY <1>10, <1>t, ScreenSame DEF Fetch, Staging, ScreenInv, AppInv, JobInv, screen
  <2>2. QED
    BY <1>10, <2>1 DEF Fetch, Staging, screen, jobvars, pagevars, UpdateTypeOK, UpdateInv
<1>11. CASE Fetched
  <2>1. ScreenInv' /\ app \notin {"off", "closing"} /\ UNCHANGED app
    BY <1>11, ScreenSame DEF Fetched, Staging, ScreenInv, AppInv, JobInv, screen
  <2>2. i <= N
    BY <1>11 DEF Fetched, Staging, UpdateInv
  <2>3. UpdateTypeOK'
    BY <1>11, <2>2 DEF Fetched, Staging, UpdateTypeOK, UpdateInv
  <2>4. UpdateInv'
    BY <1>11, <2>1 DEF Fetched, Staging, screen, jobvars, pagevars, UpdateInv
  <2>5. QED
    BY <2>1, <2>3, <2>4
<1>12. CASE FetchFails
  <2>1. ScreenInv'
    BY <1>12, ScreenReturns DEF FetchFails, Staging
  <2>2. QED
    BY <1>12, <2>1 DEF FetchFails, Staging, Returns, UpdateTypeOK, UpdateInv
<1>13. CASE Staged
  <2>1. ScreenInv'
    BY <1>13, ScreenReturns DEF Staged, Staging
  <2>2. QED
    BY <1>13, <2>1 DEF Staged, Staging, Returns, UpdateTypeOK, UpdateInv
<1>14. ASSUME NEW f \in Asset, Damage(f) PROVE ScreenInv' /\ UpdateTypeOK' /\ UpdateInv'
  <2>1. ScreenInv'
    BY <1>14, ScreenSame DEF Damage
  <2>2. QED
    BY <1>14, <2>1 DEF Damage, Mishap, screen, jobvars, pagevars, UpdateTypeOK, UpdateInv
<1>15. CASE Join
  <2>1. ScreenInv'
    BY <1>15, ScreenSame, ScreenOff DEF Join, At, Closing
  <2>2. QED
    BY <1>15, <2>1 DEF Join, At, UpdateTypeOK, UpdateInv
<1>16. CASE Refuse \/ Closed
  <2>1. ScreenInv' /\ app' = "off" /\ UNCHANGED <<kind, worker>>
    BY <1>16, ScreenOff DEF Refuse, Closed, At, Off, jobvars, pagevars
  <2>2. UNCHANGED <<latest, version, files, update, mishaps>>
    BY <1>16 DEF Refuse, Closed
  <2>3. UpdateTypeOK'
    BY <2>2 DEF UpdateTypeOK
  <2>4. UpdateInv'
    BY <2>1, <2>2 DEF UpdateInv
  <2>5. QED
    BY <2>1, <2>3, <2>4
<1>17. CASE Begin
  <2>1. ScreenInv'
    BY <1>17, ScreenSame DEF Begin, Closing
  <2>2. QED
    BY <1>17, <2>1 DEF Begin, Closing, At, Finish, screen, UpdateTypeOK, UpdateInv
<1>18. CASE DropBak
  <2>1. ScreenInv' /\ app' = app /\ app = "closing"
    BY <1>18, ScreenSame DEF DropBak, Closing, At, screen
  <2>2. UpdateTypeOK'
    BY <1>18 DEF DropBak, Finish, UpdateTypeOK
  <2>3. UpdateInv'
    BY <1>18, <2>1 DEF DropBak, At, Finish, UpdateInv
  <2>4. QED
    BY <2>1, <2>2, <2>3
<1>19. CASE Keep
  <2>1. ScreenInv' /\ app' = app /\ app = "closing"
    BY <1>19, ScreenSame DEF Keep, Closing, At, screen
  <2>2. UpdateTypeOK'
    BY <1>19 DEF Keep, At, Finish, UpdateTypeOK, UpdateInv
  <2>3. UpdateInv'
    BY <1>19, <2>1 DEF Keep, At, Finish, UpdateInv
  <2>4. QED
    BY <2>1, <2>2, <2>3
<1>20. CASE Put
  <2>1. ScreenInv' /\ app' = app /\ app = "closing"
    BY <1>20, ScreenSame DEF Put, Closing, At, screen
  <2>2. i \in Asset /\ ota[i] = want /\ want \in Whole
    BY <1>20 DEF Put, At, UpdateInv, UpdateTypeOK
  <2>3. UpdateTypeOK'
    BY <1>20, <2>2 DEF Put, Finish, UpdateTypeOK
  <2>4. UpdateInv'
    BY <1>20, <2>1, <2>2 DEF Put, At, Finish, UpdateInv, UpdateTypeOK
  <2>5. QED
    BY <2>1, <2>3, <2>4
<1>21. CASE StepFails
  <2>1. ScreenInv' /\ app' = app /\ app = "closing"
    BY <1>21, ScreenSame DEF StepFails, Closing, At, screen
  <2>2. QED
    BY <1>21, <2>1 DEF StepFails, At, Finish, Mishap, UpdateInv, UpdateTypeOK
<1>22. CASE Undo
  <2>1. ScreenInv' /\ app' = app /\ app = "closing"
    BY <1>22, ScreenSame DEF Undo, Closing, At, screen
  <2>2. QED
    BY <1>22, <2>1 DEF Undo, At, Finish, UpdateInv, UpdateTypeOK
<1>23. CASE TakeOut
  <2>1. ScreenInv' /\ app' = app /\ app = "closing"
    BY <1>23, ScreenSame DEF TakeOut, Closing, At, screen
  <2>2. UpdateTypeOK'
    BY <1>23 DEF TakeOut, At, Finish, UpdateTypeOK
  <2>3. UpdateInv'
    BY <1>23, <2>1 DEF TakeOut, At, Finish, UpdateInv, UpdateTypeOK
  <2>4. QED
    BY <2>1, <2>2, <2>3
<1>24. CASE PutBack
  <2>1. ScreenInv' /\ app' = app /\ app = "closing"
    BY <1>24, ScreenSame DEF PutBack, Closing, At, screen
  <2>2. QED
    BY <1>24, <2>1 DEF PutBack, At, Finish, UpdateInv, UpdateTypeOK
<1>25. CASE RollbackFails
  <2>1. ScreenInv' /\ app' = app /\ app = "closing"
    BY <1>25, ScreenSame DEF RollbackFails, Closing, At, screen
  <2>2. QED
    BY <1>25, <2>1 DEF RollbackFails, At, Finish, Mishap, UpdateInv, UpdateTypeOK
<1>26. CASE Death
  <2>1. ScreenInv'
    BY <1>26, DestroyedInv DEF Death
  <2>2. QED
    BY <1>26, <2>1 DEF Death, Mishap, UpdateInv, UpdateTypeOK
<1>27. QED
  BY <1>1, <1>2, <1>3, <1>4, <1>5, <1>6, <1>7, <1>8, <1>9, <1>10, <1>11, <1>12, <1>13, <1>14,
     <1>15, <1>16, <1>17, <1>18, <1>19, <1>20, <1>21, <1>22, <1>23, <1>24, <1>25, <1>26
  DEF Next, Download, Exchange

LEMMA TypeInvariant == Spec => []TypeInv
<1>1. TypeInv /\ [Next]_vars => TypeInv'
  BY NextTypeInv
<1>2. QED
  BY InitTypeInv, <1>1, PTL DEF Spec

\* Every variable of the updater and of its screen always has its type.
THEOREM TypeCorrect == Spec => []TypeOK
<1>1. TypeInv => TypeOK
  BY TypeInvParts
<1>2. QED
  BY TypeInvariant, <1>1, PTL

\* What was damaged or half downloaded never becomes an installed file.
THEOREM OnlyVerifiedInstalled == Spec => []OnlyVerified
<1>1. TypeInv => OnlyVerified
  BY DEF TypeInv, UpdateTypeOK, OnlyVerified, Whole, Torn
<1>2. QED
  BY TypeInvariant, <1>1, PTL

\* Whoever opened a job hears what its work returned, and hears it once.
THEOREM TruthIsTold == Spec => []TruthTold
<1>1. TypeInv => TruthTold
  BY DEF TypeInv, ScreenInv, ScreenTypeOK, JobInv, TruthTold
<1>2. QED
  BY TypeInvariant, <1>1, PTL

\* While the app stays open no page goes away before it said how its work ended.
THEOREM NothingGoesUnsaid == Spec => NothingUnsaid
<1>1. TypeInv /\ [Next]_vars =>
        [kind # "none" /\ kind' = "none" /\ app = "on" /\ app' = "on" =>
            told # <<>> /\ ~offers]_screen
  <2> SUFFICES ASSUME TypeInv, [Next]_vars,
                      kind # "none", kind' = "none", app = "on", app' = "on"
               PROVE  told # <<>> /\ ~offers
    OBVIOUS
  <2>1. Back /\ handled
    BY DEF Next, vars, screen, jobvars, pagevars, Apart, Publish, Launch, Screens, PumpEnd, Cleared,
           StartUpdate, Sums, NoSums, Fetch, Fetched, FetchFails, Staged, Damage, Download, Exchange,
           Join, Refuse, Begin, DropBak, Keep, Put, Undo, TakeOut, PutBack, Closed, StepFails,
           RollbackFails, Death, At, Off, Closing, Staging, Returns, WorkerReturns, OpenJob,
           WorkerEnds, PostLogin, LoginEnds, SyncEnds, StoreOk, StoreFinished, Back, Plus, NoKey,
           PumpLogin, PumpFinish, Leave, Clear, Awake
  <2>2. QED
    BY <2>1 DEF TypeInv, ScreenInv, JobInv
<1>2. QED
  BY TypeInvariant, <1>1, PTL DEF Spec, NothingUnsaid
-----------------------------------------------------------------------------
(* No file is left without a working copy.  The exchange drops the .bak of a
   file only while the file itself is there; from then on the .bak it makes stays
   until the file is put back. *)

CopiesKept ==
    /\ NoAssetLost
    /\ app = "closing" /\ step \in Swapping =>
         /\ \A f \in Asset : f < i => bak[f] \in Whole
         /\ step \in {"put", "undo", "putback"} => bak[i] \in Whole
         /\ step \in {"drop", "keep"} => \A f \in Asset : f >= i => (f \in existed <=> target[f] \in Whole)
         /\ step = "put" => \A f \in Asset : f > i => (f \in existed <=> target[f] \in Whole)
         /\ step = "keep" => i \in existed

\* A step that touches no file of the card but the staged ones, away from the exchange.
LEMMA CopiesSame ==
    ASSUME CopiesKept, UNCHANGED <<target, bak>>,
           \/ app' # "closing" \/ step' \notin Swapping
           \/ UNCHANGED <<app, step, i, existed>>
    PROVE  CopiesKept'
  BY DEF CopiesKept, NoAssetLost

LEMMA NextCopiesKept == TypeInv /\ CopiesKept /\ [Next]_vars => CopiesKept'
<1> SUFFICES ASSUME TypeInv, CopiesKept, [Next]_vars PROVE CopiesKept'
  OBVIOUS
<1> USE DEF files, update, history, Apart, Asset, Swapping
<1>0. ScreenInv /\ UpdateTypeOK /\ UpdateInv
  BY DEF TypeInv
<1>1. CASE UNCHANGED vars \/ Publish \/ Launch \/ NoSums \/ Sums \/ Fetch \/ Fetched \/ FetchFails
           \/ Staged \/ (\E f \in Asset : Damage(f)) \/ Death \/ Refuse \/ Closed
           \/ StartUpdate \/ Join
  BY <1>1, CopiesSame
  DEF vars, Publish, Launch, NoSums, Sums, Fetch, Fetched, FetchFails, Staged, Damage, Death, Refuse,
      Closed, StartUpdate, Join, At, Off, Returns, Staging, screen, OpenJob, Awake
<1>2. CASE Screens
  <2>1. app' # "closing"
    BY <1>0, <1>2, ScreensAwake DEF Screens
  <2>2. QED
    BY <1>2, <2>1, CopiesSame DEF Screens
<1>3. CASE PumpEnd
  BY <1>3, CopiesSame DEF PumpEnd, PumpFinish
<1>4. CASE Cleared
  <2>1. step = "idle" /\ UNCHANGED <<step, target, bak>>
    BY <1>0, <1>4 DEF Cleared, Clear, UpdateTypeOK, UpdateInv, Loading
  <2>2. QED
    BY <2>1, CopiesSame
<1>5. CASE Begin
  <2>1. /\ step' = "drop" /\ i' = 1 /\ existed' = {f \in Asset : target[f] # 0}
        /\ UNCHANGED <<target, bak>>
    BY <1>5 DEF Begin, Finish
  <2>2. \A f \in Asset : target[f] # 0 <=> target[f] \in Whole
    BY <1>0 DEF UpdateTypeOK, Whole
  <2>3. QED
    BY <2>1, <2>2 DEF CopiesKept, NoAssetLost
<1>6. CASE DropBak
  <2>1. /\ app = "closing" /\ step = "drop" /\ i \in Asset /\ UNCHANGED <<target, i, existed>>
        /\ step' = (IF i \in existed THEN "keep" ELSE "put")
        /\ bak' = IF i \in existed THEN [bak EXCEPT ![i] = 0] ELSE bak
    BY <1>0, <1>6 DEF DropBak, At, Finish, UpdateTypeOK
  <2>2. i \in existed <=> target[i] \in Whole
    BY <2>1 DEF CopiesKept
  <2>3. NoAssetLost'
    BY <1>0, <2>1, <2>2 DEF CopiesKept, NoAssetLost, UpdateTypeOK
  <2>4. \A f \in Asset : f < i => bak'[f] \in Whole
    BY <1>0, <2>1 DEF CopiesKept, UpdateTypeOK
  <2>5. i \notin existed => bak'[i] \in Whole
    BY <2>1, <2>2 DEF CopiesKept, NoAssetLost
  <2>6. QED
    BY <1>0, <2>1, <2>3, <2>4, <2>5 DEF CopiesKept, UpdateTypeOK
<1>7. CASE Keep
  <2>1. /\ app = "closing" /\ step = "keep" /\ i \in Asset /\ UNCHANGED <<i, existed>> /\ step' = "put"
        /\ bak' = [bak EXCEPT ![i] = target[i]] /\ target' = [target EXCEPT ![i] = 0]
    BY <1>0, <1>7 DEF Keep, At, Finish, UpdateInv, UpdateTypeOK
  <2>2. target[i] \in Whole
    BY <1>0, <2>1 DEF CopiesKept, UpdateTypeOK
  <2>3. QED
    BY <1>0, <2>1, <2>2 DEF CopiesKept, NoAssetLost, UpdateTypeOK
<1>8. CASE Put
  <2>1. /\ app = "closing" /\ step = "put" /\ i \in Asset /\ UNCHANGED <<bak, existed>>
        /\ step' = "drop" /\ i' = i + 1 /\ target' = [target EXCEPT ![i] = ota[i]]
    BY <1>0, <1>8 DEF Put, At, Finish, UpdateInv, UpdateTypeOK
  <2>2. ota[i] \in Whole
    BY <1>0, <2>1 DEF UpdateInv
  <2>3. QED
    BY <1>0, <2>1, <2>2 DEF CopiesKept, NoAssetLost, UpdateTypeOK
<1>9. CASE StepFails
  <2>1. /\ app = "closing" /\ i \in Asset /\ step \in Swapping
        /\ UNCHANGED <<target, bak, i, existed>>
        /\ step' \in {"undo", "back"} /\ (step' = "undo" => step = "put")
    BY <1>0, <1>9 DEF StepFails, At, Finish, UpdateInv, UpdateTypeOK
  <2>2. QED
    BY <2>1 DEF CopiesKept, NoAssetLost
<1>10. CASE Undo \/ PutBack
  <2>1. /\ app = "closing" /\ step \in {"undo", "putback"} /\ i \in Asset /\ UNCHANGED <<i, existed>>
        /\ step' = "back" /\ target' = [target EXCEPT ![i] = bak[i]]
        /\ bak' = [bak EXCEPT ![i] = 0]
    BY <1>0, <1>10 DEF Undo, PutBack, At, Finish, UpdateInv, UpdateTypeOK
  <2>2. QED
    BY <1>0, <2>1 DEF CopiesKept, NoAssetLost, UpdateTypeOK
<1>11. CASE TakeOut
  <2>1. /\ app = "closing" /\ step = "back" /\ i \in 1..(N + 1) /\ i > 1 /\ i' = i - 1
        /\ step' \in {"back", "putback"} /\ UNCHANGED <<bak, existed>>
        /\ target' = [target EXCEPT ![i - 1] = 0]
    BY <1>0, <1>11 DEF TakeOut, At, Finish, UpdateTypeOK
  <2>2. i - 1 \in Asset /\ bak[i - 1] \in Whole
    BY <2>1 DEF CopiesKept
  <2>3. QED
    BY <1>0, <2>1, <2>2 DEF CopiesKept, NoAssetLost, UpdateTypeOK
<1>12. CASE RollbackFails
  <2>1. /\ app = "closing" /\ step \in Swapping /\ i \in Nat /\ i' \in {i, i - 1} /\ step' = "back"
        /\ UNCHANGED <<target, bak, existed>>
    BY <1>0, <1>12 DEF RollbackFails, At, Finish, UpdateTypeOK
  <2>2. QED
    BY <2>1 DEF CopiesKept, NoAssetLost
<1>13. QED
  BY <1>1, <1>2, <1>3, <1>4, <1>5, <1>6, <1>7, <1>8, <1>9, <1>10, <1>11, <1>12
  DEF Next, Download, Exchange

\* Whatever failed, and however often the console died, each file of the app is
\* installed whole or there whole as .bak.
THEOREM NoAssetIsLost == Spec => []NoAssetLost
<1>1. Init => CopiesKept
  <2>1. 1 \in Whole
    BY DEF Whole
  <2>2. QED
    BY <2>1 DEF Init, ScreenInit, CopiesKept, NoAssetLost
<1>2. TypeInv /\ CopiesKept /\ [Next]_vars => CopiesKept'
  BY NextCopiesKept
<1>3. CopiesKept => NoAssetLost
  BY DEF CopiesKept
<1>4. QED
  BY TypeInvariant, <1>1, <1>2, <1>3, PTL DEF Spec
-----------------------------------------------------------------------------
(* All or nothing.  Until an exchange begins over the remains of another, one
   release r can be put together from what is installed and the .bak files; as
   long as nothing went wrong in the exchange itself it is at every step one of r
   being replaced by the new release, or put back. *)

\* Where the files of r are while file i is being exchanged.
DuringExchange(r) ==
    /\ existed = Asset
    /\ \A f \in Asset : f < i => bak[f] = r
    /\ step \in {"put", "undo", "putback"} => bak[i] = r
    /\ step \in {"drop", "keep"} => target[i] = r \/ i = N + 1
    /\ step \in {"drop", "keep", "put"} => ~hurt
    /\ ~hurt =>
         /\ \A f \in Asset : f < i => target[f] = want
         /\ \A f \in Asset : f > i => target[f] = r
         /\ step = "back" => target[i] = r \/ i = N + 1

Of(r) ==
    /\ \A f \in Asset : r \in {target[f], bak[f]}
    /\ ~hurt /\ ~Busy => \A f \in Asset : target[f] = r
    /\ Busy => DuringExchange(r)

ReleaseKept == (again => hurt) /\ (~again => \E r \in Whole : Of(r))

\* A step that leaves the exchange alone.
LEMMA OfSame ==
    ASSUME NEW r, Of(r), UNCHANGED <<target, bak, hurt>>,
           (~Busy /\ ~Busy') \/ UNCHANGED <<app, step, i, existed, want>>
    PROVE  Of(r)'
  BY DEF Of, Busy, DuringExchange

LEMMA NextReleaseKept == TypeInv /\ ReleaseKept /\ [Next]_vars => ReleaseKept'
<1> SUFFICES ASSUME TypeInv, ReleaseKept, [Next]_vars PROVE ReleaseKept'
  OBVIOUS
<1> USE DEF files, update, history, Apart, Asset
<1>0. ScreenInv /\ UpdateTypeOK /\ UpdateInv
  BY DEF TypeInv
<1>b. Busy => step \in Swapping
  BY <1>0 DEF Busy, UpdateTypeOK, UpdateInv, ScreenInv, AppInv
\* Steps that keep the history keep r.
<1>k. ASSUME UNCHANGED again, hurt => hurt', \A r \in Whole : ~again /\ Of(r) => Of(r)'
      PROVE  ReleaseKept'
  <2>1. CASE again
    BY <1>k, <2>1 DEF ReleaseKept
  <2>2. CASE ~again
    <3>1. PICK r \in Whole : Of(r)
      BY <2>2 DEF ReleaseKept
    <3>2. Of(r)'
      BY <1>k, <2>2, <3>1
    <3>3. \E q \in Whole : Of(q)'
      BY <3>2
    <3>4. QED
      BY <1>k, <2>2, <3>3 DEF ReleaseKept
  <2>3. QED
    BY <2>1, <2>2
<1>1. CASE \/ UNCHANGED vars \/ Publish \/ Launch \/ NoSums \/ Sums \/ Fetch \/ Fetched \/ FetchFails
           \/ Staged \/ (\E f \in Asset : Damage(f)) \/ Refuse \/ StartUpdate \/ Join
           \/ Screens \/ PumpEnd \/ Cleared
  <2>1. UNCHANGED <<target, bak, history>>
    BY <1>1
    DEF vars, Publish, Launch, NoSums, Sums, Fetch, Fetched, FetchFails, Staged, Damage, Refuse,
        StartUpdate, Join, Screens, PumpEnd, Cleared
  <2>2. CASE \/ UNCHANGED vars \/ Publish \/ (\E f \in Asset : Damage(f))
    <3>1. UNCHANGED <<app, step, i, existed, want>>
      BY <2>2 DEF vars, screen, Publish, Damage
    <3>2. QED
      BY <2>1, <3>1, <1>k, OfSame
  <2>3. CASE \/ Launch \/ NoSums \/ Sums \/ Fetch \/ Fetched \/ FetchFails \/ Staged \/ Refuse \/ Join
    <3>1. ~Busy /\ ~Busy'
      <4>1. kind = "update" => app # "closing"
        BY <1>0 DEF ScreenInv, AppInv
      <4>2. QED
        BY <2>3, <4>1
        DEF Busy, Launch, NoSums, Sums, Fetch, Fetched, FetchFails, Staged, Refuse, Join, At, Off,
            Closing, Staging, Returns, screen
    <3>2. QED
      BY <2>1, <3>1, <1>k, OfSame
  <2>4. CASE StartUpdate \/ Screens \/ PumpEnd
    <3>1. app # "closing" /\ app' # "closing"
      BY <1>0, <2>4, ScreensAwake DEF StartUpdate, Screens, PumpEnd
    <3>2. QED
      BY <2>1, <3>1, <1>k, OfSame DEF Busy
  <2>5. CASE Cleared
    <3>1. app = "clearing" /\ worker = "done" /\ UNCHANGED step
      BY <2>5 DEF Cleared, Clear
    <3>2. step = "idle"
      BY <1>0, <3>1 DEF UpdateTypeOK, UpdateInv, Loading, Swapping
    <3>3. QED
      BY <2>1, <3>1, <3>2, <1>k, OfSame DEF Busy
  <2>6. QED
    BY <1>1, <2>2, <2>3, <2>4, <2>5
<1>2. CASE Death
  <2>1. UNCHANGED <<target, bak, again>> /\ hurt' = (hurt \/ Busy) /\ ~Busy'
    BY <1>2 DEF Death, Busy
  <2>2. ASSUME NEW r \in Whole, Of(r) PROVE Of(r)'
    BY <2>1, <2>2 DEF Of
  <2>3. QED
    BY <2>1, <2>2, <1>k
<1>3. CASE Begin
  <2>1. /\ app = "closing" /\ app' = "closing" /\ step = "idle" /\ step' = "drop" /\ i' = 1
        /\ existed' = {f \in Asset : target[f] # 0} /\ again' = hurt
        /\ UNCHANGED <<target, bak, hurt, want>>
    BY <1>3 DEF Begin, At, Finish, Closing, screen
  <2>2. CASE hurt
    BY <2>1, <2>2 DEF ReleaseKept
  <2>3. CASE ~hurt
    <3>1. PICK r \in Whole : Of(r)
      BY <2>3 DEF ReleaseKept
    <3>2. \A f \in Asset : target[f] = r
      BY <2>1, <2>3, <3>1 DEF Of, Busy
    <3>3. r # 0
      BY DEF Whole
    <3>4. Of(r)'
      BY <2>1, <2>3, <3>2, <3>3 DEF Of, Busy, DuringExchange
    <3>5. \E q \in Whole : Of(q)'
      BY <3>4
    <3>6. QED
      BY <2>1, <2>3, <3>5 DEF ReleaseKept
  <2>4. QED
    BY <2>2, <2>3
<1>4. CASE DropBak
  <2>1. /\ app = "closing" /\ app' = app /\ step = "drop" /\ i \in Asset
        /\ UNCHANGED <<target, i, existed, want, hurt, again>>
        /\ step' = (IF i \in existed THEN "keep" ELSE "put")
        /\ bak' = IF i \in existed THEN [bak EXCEPT ![i] = 0] ELSE bak
    BY <1>0, <1>4 DEF DropBak, At, Finish, UpdateTypeOK, Closing, screen
  <2>2. ASSUME NEW r \in Whole, Of(r) PROVE Of(r)'
    <3>1. DuringExchange(r)
      BY <2>1, <2>2 DEF Of, Busy
    <3>2. QED
      BY <1>0, <2>1, <2>2, <3>1 DEF Of, Busy, DuringExchange, UpdateTypeOK
  <2>3. QED
    BY <2>1, <2>2, <1>k
<1>5. CASE Keep
  <2>1. /\ app = "closing" /\ app' = app /\ step = "keep" /\ i \in Asset /\ step' = "put"
        /\ UNCHANGED <<i, existed, want, hurt, again>>
        /\ bak' = [bak EXCEPT ![i] = target[i]] /\ target' = [target EXCEPT ![i] = 0]
    BY <1>0, <1>5 DEF Keep, At, Finish, UpdateInv, UpdateTypeOK, Closing, screen
  <2>2. ASSUME NEW r \in Whole, Of(r) PROVE Of(r)'
    <3>1. DuringExchange(r)
      BY <2>1, <2>2 DEF Of, Busy
    <3>2. QED
      BY <1>0, <2>1, <2>2, <3>1 DEF Of, Busy, DuringExchange, UpdateTypeOK
  <2>3. QED
    BY <2>1, <2>2, <1>k
<1>6. CASE Put
  <2>1. /\ app = "closing" /\ app' = app /\ step = "put" /\ i \in Asset /\ step' = "drop" /\ i' = i + 1
        /\ UNCHANGED <<bak, existed, want, hurt, again>>
        /\ target' = [target EXCEPT ![i] = ota[i]]
    BY <1>0, <1>6 DEF Put, At, Finish, UpdateInv, UpdateTypeOK, Closing, screen
  <2>2. ota[i] = want
    BY <1>0, <2>1 DEF UpdateInv
  <2>3. ASSUME NEW r \in Whole, Of(r) PROVE Of(r)'
    <3>1. DuringExchange(r)
      BY <2>1, <2>3 DEF Of, Busy
    <3>2. QED
      BY <1>0, <2>1, <2>2, <2>3, <3>1 DEF Of, Busy, DuringExchange, UpdateTypeOK
  <2>4. QED
    BY <2>1, <2>3, <1>k
<1>7. CASE StepFails
  <2>1. /\ app = "closing" /\ app' = app /\ i \in Asset
        /\ UNCHANGED <<target, bak, i, existed, want, hurt, again>>
        /\ \/ step \in {"drop", "keep"} /\ step' = "back"
           \/ step = "put" /\ step' = (IF i \in existed THEN "undo" ELSE "back")
    BY <1>0, <1>7 DEF StepFails, At, Finish, UpdateInv, UpdateTypeOK, Closing, screen
  <2>2. ASSUME NEW r \in Whole, Of(r) PROVE Of(r)'
    <3>1. DuringExchange(r)
      BY <2>1, <2>2 DEF Of, Busy
    <3>2. QED
      BY <1>0, <2>1, <2>2, <3>1 DEF Of, Busy, DuringExchange
  <2>3. QED
    BY <2>1, <2>2, <1>k
<1>8. CASE Undo \/ PutBack
  <2>1. /\ app = "closing" /\ app' = app /\ step \in {"undo", "putback"} /\ i \in Asset /\ step' = "back"
        /\ UNCHANGED <<i, existed, want, hurt, again>>
        /\ target' = [target EXCEPT ![i] = bak[i]] /\ bak' = [bak EXCEPT ![i] = 0]
    BY <1>0, <1>8 DEF Undo, PutBack, At, Finish, UpdateInv, UpdateTypeOK, Closing, screen
  <2>2. ASSUME NEW r \in Whole, Of(r) PROVE Of(r)'
    <3>1. DuringExchange(r)
      BY <2>1, <2>2 DEF Of, Busy
    <3>2. QED
      BY <1>0, <2>1, <2>2, <3>1 DEF Of, Busy, DuringExchange, UpdateTypeOK
  <2>3. QED
    BY <2>1, <2>2, <1>k
<1>9. CASE TakeOut
  <2>1. /\ app = "closing" /\ app' = app /\ step = "back" /\ i \in 1..(N + 1) /\ i > 1 /\ i' = i - 1
        /\ step' = (IF i - 1 \in existed THEN "putback" ELSE "back")
        /\ UNCHANGED <<bak, existed, want, hurt, again>>
        /\ target' = [target EXCEPT ![i - 1] = 0]
    BY <1>0, <1>9 DEF TakeOut, At, Finish, UpdateTypeOK, Closing, screen
  <2>2. ASSUME NEW r \in Whole, Of(r) PROVE Of(r)'
    <3>1. DuringExchange(r) /\ i - 1 \in Asset
      BY <2>1, <2>2 DEF Of, Busy
    <3>2. bak[i - 1] = r /\ step' = "putback"
      BY <2>1, <3>1 DEF DuringExchange
    <3>3. QED
      BY <1>0, <2>1, <2>2, <3>1, <3>2 DEF Of, Busy, DuringExchange, UpdateTypeOK
  <2>3. QED
    BY <2>1, <2>2, <1>k
<1>10. CASE RollbackFails
  <2>1. /\ app = "closing" /\ app' = app /\ i \in Nat /\ i' \in {i, i - 1} /\ step' = "back" /\ hurt'
        /\ step # "idle" /\ UNCHANGED <<target, bak, existed, again>>
    BY <1>0, <1>10 DEF RollbackFails, At, Finish, UpdateTypeOK, Closing, screen
  <2>2. ASSUME NEW r \in Whole, Of(r) PROVE Of(r)'
    <3>1. DuringExchange(r)
      BY <2>1, <2>2 DEF Of, Busy
    <3>2. QED
      BY <2>1, <2>2, <3>1 DEF Of, Busy, DuringExchange
  <2>3. QED
    BY <2>1, <2>2, <1>k
<1>11. CASE Closed
  <2>1. /\ app = "closing" /\ app' = "off" /\ UNCHANGED <<target, bak, hurt, again>>
        /\ \/ step = "drop" /\ i = N + 1
           \/ step = "back" /\ i = 1
    BY <1>11 DEF Closed, At, Off
  <2>2. CASE step = "back" /\ i = 1
    <3>1. ASSUME NEW r \in Whole, Of(r) PROVE Of(r)'
      BY <2>1, <2>2, <3>1 DEF Of, Busy, DuringExchange
    <3>2. QED
      BY <2>1, <3>1, <1>k
  <2>3. CASE step = "drop" /\ i = N + 1 /\ ~again
    <3>1. PICK r \in Whole : Of(r)
      BY <2>3 DEF ReleaseKept
    <3>2. ~hurt /\ \A f \in Asset : target[f] = want
      BY <2>1, <2>3, <3>1 DEF Of, Busy, DuringExchange
    <3>3. want \in Whole
      BY <1>0, <2>1, <2>3 DEF UpdateInv
    <3>4. \A f \in Asset : target'[f] = want
      BY <2>1, <3>2
    <3>5. \E q \in Whole : Of(q)'
      <4>1. \E q \in Whole : \A f \in Asset : target'[f] = q
        BY <3>3, <3>4
      <4>2. ~Busy'
        BY <2>1 DEF Busy
      <4>3. QED
        BY <4>1, <4>2 DEF Of
    <3>6. QED
      BY <2>1, <2>3, <3>5 DEF ReleaseKept
  <2>4. CASE again
    BY <2>1, <2>4 DEF ReleaseKept
  <2>5. QED
    BY <2>1, <2>2, <2>3, <2>4
<1>12. QED
  BY <1>1, <1>2, <1>3, <1>4, <1>5, <1>6, <1>7, <1>8, <1>9, <1>10, <1>11
  DEF Next, Download, Exchange

LEMMA ReleaseKeptInvariant == Spec => []ReleaseKept
<1>1. Init => ReleaseKept
  <2>1. 1 \in Whole
    BY DEF Whole
  <2>2. Init => Of(1)
    BY DEF Init, ScreenInit, Of, Busy
  <2>3. QED
    BY <2>1, <2>2 DEF Init, ReleaseKept
<1>2. TypeInv /\ ReleaseKept /\ [Next]_vars => ReleaseKept'
  BY NextReleaseKept
<1>3. QED
  BY TypeInvariant, <1>1, <1>2, PTL DEF Spec

\* Without a death in the exchange and without a rollback that fails, the files
\* of the app are those of one release, however many there are.
THEOREM UpdatesAllOrNothing == Spec => []AllOrNothing
<1>1. ReleaseKept => AllOrNothing
  BY DEF ReleaseKept, Of, AllOrNothing
<1>2. QED
  BY ReleaseKeptInvariant, <1>1, PTL

\* After an exchange that was cut short one release can be put together by hand.
THEOREM ReleaseStaysAtHand == Spec => []OneReleaseLeft
<1>1. ReleaseKept => OneReleaseLeft
  BY DEF ReleaseKept, Of, OneReleaseLeft
<1>2. QED
  BY ReleaseKeptInvariant, <1>1, PTL
=============================================================================
