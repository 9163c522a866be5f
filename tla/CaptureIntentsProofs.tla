------------------------ MODULE CaptureIntentsProofs ------------------------
(***************************************************************************)
(* Proofs about the poll and the capture worker, for every number of games *)
(* and saves, launches, versions and mishaps.                              *)
(***************************************************************************)
EXTENDS CaptureIntents, TLAPS

USE ConstantsAssumption
USE DEF consoleVars, cardVars, pollVars, workVars, ghostVars, Mishap, NoMishap,
        WorkBusy, Copying, Versions, SavesOf

-----------------------------------------------------------------------------
(* Type correctness: TypeOK is inductive. *)

ConsoleTypeOK ==
    /\ app \in App \cup {None} /\ pids \in 0..MaxPid
    /\ live \in [Saves -> Versions]
    /\ wanted \subseteq Titles /\ asked \in Titles \cup {None}
    /\ mishaps \in 0..MaxMishaps
CardTypeOK ==
    /\ pending \subseteq Titles
    /\ capturing \in [Titles -> {None} \cup SUBSET Saves]
    /\ captured \in [Destinations \X Saves -> Versions \cup {0, Torn}]
PollTypeOK ==
    /\ on \in BOOLEAN /\ previous \in App \cup {None}
    /\ pollPc \in {"idle", "exit", "manual"} /\ sample \in App \cup {None}
    /\ read \subseteq 1..MaxPid /\ unseen \subseteq Titles /\ dropped \subseteq Titles
    /\ missed \subseteq Saves
WorkTypeOK ==
    /\ workPc \in {"idle", "account", "cloud", "local", "localcopy", "checkpoint"}
    /\ WorkBusy => /\ workTitle \in Titles /\ capturing[workTitle] # None
                   /\ workTodo \subseteq SavesOf(workTitle)
    /\ Copying => workSave \in SavesOf(workTitle) /\ workBase \in Versions

\* A copy goes to a destination there is.
WorkPlace ==
    /\ workPc = "cloud" => "cloud" \in Destinations
    /\ workPc \in {"local", "localcopy"} => "local" \in Destinations

TypeInv == ConsoleTypeOK /\ CardTypeOK /\ PollTypeOK /\ WorkTypeOK /\ WorkPlace

LEMMA TypeInvIsTypeOK == TypeInv => TypeOK
  BY DEF TypeInv, TypeOK, ConsoleTypeOK, CardTypeOK, PollTypeOK, WorkTypeOK

\* The title and the process id of an application.
LEMMA AppParts ==
    ASSUME NEW a \in App PROVE a.title \in Titles /\ a.pid \in 1..MaxPid /\ a # None
  BY DEF App

LEMMA InitTypeInv == Init => TypeInv
<1> SUFFICES ASSUME Init PROVE TypeInv
  OBVIOUS
<1>1. ConsoleTypeOK
  BY DEF Init, ConsoleTypeOK
<1>2. CardTypeOK /\ PollTypeOK
  BY DEF Init, CardTypeOK, PollTypeOK
<1>3. WorkTypeOK /\ WorkPlace
  BY DEF Init, WorkTypeOK, WorkPlace
<1>4. QED
  BY <1>1, <1>2, <1>3 DEF TypeInv

LEMMA NextTypeInv == TypeInv /\ [Next]_vars => TypeInv'
<1> SUFFICES ASSUME TypeInv, [Next]_vars PROVE TypeInv'
  OBVIOUS
<1> USE DEF TypeInv
<1>1. CASE UNCHANGED vars
  BY <1>1 DEF vars, ConsoleTypeOK, CardTypeOK, PollTypeOK, WorkTypeOK, WorkPlace
<1>2. CASE Console
  <2>1. UNCHANGED <<cardVars, on, pollVars, workVars, read>>
    BY <1>2 DEF Console, Close, Launch, Toggle, Ask, Play
  <2>2. ConsoleTypeOK'
    <3>1. ASSUME NEW t \in Titles, Launch(t) PROVE ConsoleTypeOK'
      BY <3>1 DEF Launch, ConsoleTypeOK, App
    <3>2. ASSUME NEW t \in Titles, Toggle(t) \/ Ask(t) PROVE ConsoleTypeOK'
      BY <3>2 DEF Toggle, Ask, ConsoleTypeOK
    <3>3. ASSUME NEW s \in Saves, Play(s) PROVE ConsoleTypeOK'
      BY <3>3 DEF Play, ConsoleTypeOK
    <3>4. CASE Close
      BY <3>4 DEF Close, ConsoleTypeOK
    <3>5. QED
      BY <1>2, <3>1, <3>2, <3>3, <3>4 DEF Console
  <2>3. unseen' \subseteq Titles /\ dropped' \subseteq Titles /\ missed' \subseteq Saves
    BY <1>2, AppParts DEF Console, Close, Launch, Toggle, Ask, Play, ConsoleTypeOK, PollTypeOK
  <2>4. QED
    BY <2>1, <2>2, <2>3 DEF CardTypeOK, PollTypeOK, WorkTypeOK, WorkPlace
<1>3. CASE Poll
  <2>1. read' \subseteq 1..MaxPid
    BY <1>3, AppParts DEF Poll, ConsoleTypeOK, PollTypeOK
  <2>2. QED
    BY <1>3, <2>1 DEF Poll, ConsoleTypeOK, CardTypeOK, PollTypeOK, WorkTypeOK, WorkPlace
<1>4. CASE PollExit
  <2>1. UNCHANGED <<consoleVars, asked, capturing, captured, on, workVars, read>>
    BY <1>4 DEF PollExit
  <2>2. mishaps' \in 0..MaxMishaps
    BY <1>4 DEF PollExit, ConsoleTypeOK
  <2>3. Gone => previous.title \in Titles
    BY AppParts DEF Gone, PollTypeOK
  <2>4. sample # None => sample.title \in Titles
    BY AppParts DEF PollTypeOK
  <2>5. pending' \subseteq Titles
    BY <1>4, <2>3 DEF PollExit, Exited, CardTypeOK
  <2>6. unseen' \subseteq Titles /\ dropped' \subseteq Titles /\ missed' \subseteq Saves
    BY <1>4, <2>3, <2>4 DEF PollExit, PollTypeOK
  <2>7. previous' \in App \cup {None} /\ sample' \in App \cup {None} /\ pollPc' \in {"idle", "manual"}
    BY <1>4 DEF PollExit, PollIdle, PollTypeOK
  <2>8. QED
    BY <2>1, <2>2, <2>5, <2>6, <2>7 DEF ConsoleTypeOK, CardTypeOK, PollTypeOK, WorkTypeOK, WorkPlace
<1>5. CASE PollManual
  BY <1>5 DEF PollManual, PollIdle, ConsoleTypeOK, CardTypeOK, PollTypeOK, WorkTypeOK, WorkPlace
<1>6. ASSUME NEW t \in Titles, Claim(t) PROVE TypeInv'
  <2>1. capturing' \in [Titles -> {None} \cup SUBSET Saves] /\ capturing'[t] # None
    BY <1>6 DEF Claim, CardTypeOK
  <2>2. mishaps' \in 0..MaxMishaps /\ missed' \subseteq Saves /\ workTodo' \subseteq SavesOf(t)
    BY <1>6 DEF Claim, LeftOut, ConsoleTypeOK, PollTypeOK
  <2>3. QED
    BY <1>6, <2>1, <2>2 DEF Claim, ConsoleTypeOK, CardTypeOK, PollTypeOK, WorkTypeOK, WorkPlace
<1>7. CASE GiveUp
  BY <1>7 DEF GiveUp, WorkIdle, ConsoleTypeOK, CardTypeOK, PollTypeOK, WorkTypeOK, WorkPlace
<1>8. ASSUME NEW s \in Saves, Account(s) PROVE TypeInv'
  <2>1. ConsoleTypeOK' /\ CardTypeOK' /\ PollTypeOK'
    BY <1>8 DEF Account, ConsoleTypeOK, CardTypeOK, PollTypeOK
  <2>2. /\ workPc' \in {"account", "cloud", "localcopy"} /\ workTitle' \in Titles
        /\ capturing'[workTitle'] # None /\ workTodo' \subseteq SavesOf(workTitle')
    BY <1>8 DEF Account, WorkTypeOK
  <2>3. workPc' # "account" => workSave' \in SavesOf(workTitle') /\ workBase' \in Versions
    BY <1>8 DEF Account, WorkTypeOK, ConsoleTypeOK
  <2>4. WorkPlace'
    BY <1>8 DEF Account, WorkPlace
  <2>5. QED
    BY <2>1, <2>2, <2>3, <2>4 DEF WorkTypeOK
<1>9. CASE CloudCopied
  <2>1. Copies \subseteq Versions \cup {Torn} /\ workSave \in Saves /\ "cloud" \in Destinations
    BY <1>9 DEF CloudCopied, Copies, ConsoleTypeOK, WorkTypeOK, WorkPlace
  <2>2. captured' \in [Destinations \X Saves -> Versions \cup {0, Torn}]
    <3>1. PICK v \in Versions \cup {Torn} : captured' = [captured EXCEPT ![<<"cloud", workSave>>] = v]
      BY <1>9, <2>1 DEF CloudCopied, Copied
    <3>2. QED
      BY <2>1, <3>1 DEF CardTypeOK
  <2>3. mishaps' \in 0..MaxMishaps /\ missed' \subseteq Saves
    BY <1>9, <2>1 DEF CloudCopied, Copied, LeftOut, ConsoleTypeOK, PollTypeOK
  <2>4. QED
    BY <1>9, <2>2, <2>3 DEF CloudCopied, ConsoleTypeOK, CardTypeOK, PollTypeOK, WorkTypeOK, WorkPlace
<1>10. CASE LocalBegin
  BY <1>10 DEF LocalBegin, ConsoleTypeOK, CardTypeOK, PollTypeOK, WorkTypeOK, WorkPlace
<1>11. CASE LocalCopied
  <2>1. Copies \subseteq Versions \cup {Torn} /\ workSave \in Saves /\ "local" \in Destinations
    BY <1>11 DEF LocalCopied, Copies, ConsoleTypeOK, WorkTypeOK, WorkPlace
  <2>2. captured' \in [Destinations \X Saves -> Versions \cup {0, Torn}]
    <3>1. PICK v \in Versions \cup {Torn} : captured' = [captured EXCEPT ![<<"local", workSave>>] = v]
      BY <1>11, <2>1 DEF LocalCopied, Copied
    <3>2. QED
      BY <2>1, <3>1 DEF CardTypeOK
  <2>3. mishaps' \in 0..MaxMishaps /\ missed' \subseteq Saves
    BY <1>11, <2>1 DEF LocalCopied, Copied, LeftOut, ConsoleTypeOK, PollTypeOK
  <2>4. QED
    BY <1>11, <2>2, <2>3 DEF LocalCopied, ConsoleTypeOK, CardTypeOK, PollTypeOK, WorkTypeOK, WorkPlace
<1>12. CASE Checkpoint
  <2>1. /\ workTitle \in Titles /\ capturing[workTitle] \in SUBSET Saves /\ workSave \in Saves
        /\ capturing' = [capturing EXCEPT ![workTitle] = @ \cup {workSave}]
    BY <1>12 DEF Checkpoint, CardTypeOK, WorkTypeOK
  <2>2. capturing' \in [Titles -> {None} \cup SUBSET Saves] /\ capturing'[workTitle] # None
    BY <2>1 DEF CardTypeOK
  <2>3. QED
    BY <1>12, <2>2 DEF Checkpoint, ConsoleTypeOK, CardTypeOK, PollTypeOK, WorkTypeOK, WorkPlace
<1>13. CASE Finish
  BY <1>13 DEF Finish, WorkIdle, ConsoleTypeOK, CardTypeOK, PollTypeOK, WorkTypeOK, WorkPlace
<1>14. CASE Crash
  <2>1. unseen' \subseteq Titles
    BY <1>14, AppParts DEF Crash, PollTypeOK
  <2>2. ConsoleTypeOK' /\ CardTypeOK'
    BY <1>14 DEF Crash, ConsoleTypeOK, CardTypeOK
  <2>3. PollTypeOK'
    BY <1>14, <2>1 DEF Crash, PollIdle, PollTypeOK
  <2>4. WorkTypeOK' /\ WorkPlace'
    BY <1>14 DEF Crash, WorkIdle, WorkTypeOK, WorkPlace
  <2>5. QED
    BY <2>2, <2>3, <2>4
<1>15. CASE Start
  BY <1>15 DEF Start, ConsoleTypeOK, CardTypeOK, PollTypeOK, WorkTypeOK, WorkPlace
<1>16. QED
  BY <1>1, <1>2, <1>3, <1>4, <1>5, <1>6, <1>7, <1>8, <1>9, <1>10, <1>11, <1>12, <1>13, <1>14, <1>15
  DEF Next, Main, Worker

LEMMA TypeInvariant == Spec => []TypeInv
<1>1. TypeInv /\ [Next]_vars => TypeInv'
  BY NextTypeInv
<1>2. QED
  BY InitTypeInv, <1>1, PTL DEF Spec

\* Every variable of the module always has its type; in particular the intent
\* being worked on is on the card.
THEOREM TypeCorrect == Spec => []TypeOK
  BY TypeInvariant, TypeInvIsTypeOK, PTL
-----------------------------------------------------------------------------
(* No session is forgotten.  A save whose capture is not what the game last wrote
   is covered by the intent being worked on, or by something that stands for its
   game apart from that intent, unless an error left it out; and that something
   only goes when another such takes its place, or when the worker claims the
   intent anew. *)

\* Something besides the .capturing file stands for another capture of game t.
Else(t) ==
    \/ IsOf(app, t) \/ IsOf(previous, t) \/ IsOf(sample, t)
    \/ t \in pending \/ t \in unseen \cup dropped

\* ... or of save s, if an error did not leave it out of the last one.
Stands(s) == Else(TitleOf[s]) \/ s \in missed

\* Between two polls the last one's sample is gone; once it was acted on it is previous.
Sampled ==
    /\ pollPc = "idle" => sample = None
    /\ pollPc = "manual" => previous = sample
    /\ ~on => previous = None /\ pollPc = "idle" /\ workPc = "idle"

\* What the worker has copied of its save is what the game last wrote, or the game
\* ran since.
CopyCurrent ==
    /\ Copying => capturing[workTitle] # None /\ workSave \notin capturing[workTitle]
    /\ workPc \in {"cloud", "localcopy"} => workBase = live[workSave] \/ Stands(workSave)
    /\ workPc \in {"local", "localcopy"} =>
          \A d \in Destinations \ {"local"} : captured[<<d, workSave>>] = live[workSave] \/ Stands(workSave)
    /\ workPc = "checkpoint" =>
          \A d \in Destinations : captured[<<d, workSave>>] = live[workSave] \/ Stands(workSave)

\* Every account of the game was reached, is being copied, is still to come, or
\* is none this capture must cover.
AllAccounts ==
    WorkBusy =>
      \A s \in SavesOf(workTitle) :
         \/ s \in workTodo \/ s \in capturing[workTitle]
         \/ Copying /\ s = workSave
         \/ Stands(s)

Covered ==
    \A s \in Saves :
       Stale(s) => \/ capturing[TitleOf[s]] # None /\ s \notin capturing[TitleOf[s]]
                  \/ Stands(s)

MemoryInv == Sampled /\ CopyCurrent /\ AllAccounts /\ Covered

\* A step that may only add to what stands for the games, and leaves the copies,
\* the saves and the worker alone.
LEMMA MemoryKept ==
    ASSUME MemoryInv, Sampled', UNCHANGED <<live, capturing, captured>>,
           UNCHANGED workVars, \A s \in Saves : Stands(s) => Stands(s)',
           Copying => workSave \in Saves
    PROVE  MemoryInv'
<1>2. Covered'
  BY DEF MemoryInv, Covered, Stale
<1>3. CopyCurrent'
  BY DEF MemoryInv, CopyCurrent
<1>4. AllAccounts'
  BY DEF MemoryInv, AllAccounts
<1>5. QED
  BY <1>2, <1>3, <1>4 DEF MemoryInv

LEMMA NextMemoryInv == TypeInv /\ MemoryInv /\ [Next]_vars => MemoryInv'
<1> SUFFICES ASSUME TypeInv, MemoryInv, [Next]_vars PROVE MemoryInv'
  OBVIOUS
<1>0. ConsoleTypeOK /\ CardTypeOK /\ PollTypeOK /\ WorkTypeOK /\ WorkPlace
  BY DEF TypeInv
<1>w. Copying => workSave \in Saves
  BY <1>0 DEF WorkTypeOK
<1>t. \A s \in Saves : TitleOf[s] \in Titles
  OBVIOUS
\* What stands for the games, and is not forgotten, stands for the saves.
<1>m. ASSUME \A t \in Titles : Else(t) => Else(t)', missed \subseteq missed'
      PROVE  \A s \in Saves : Stands(s) => Stands(s)'
  BY <1>m, <1>t DEF Stands
<1>1. CASE UNCHANGED vars
  <2>1. Sampled' /\ \A t \in Titles : Else(t) => Else(t)'
    BY <1>1 DEF vars, MemoryInv, Sampled, Else, IsOf
  <2>2. UNCHANGED <<live, capturing, captured, missed>> /\ UNCHANGED workVars
    BY <1>1 DEF vars
  <2>3. QED
    BY <1>w, <1>m, <2>1, <2>2, MemoryKept
<1>2. ASSUME NEW t \in Titles, Launch(t) \/ Toggle(t) \/ Ask(t) PROVE MemoryInv'
  <2>1. Sampled' /\ \A u \in Titles : Else(u) => Else(u)'
    BY <1>2 DEF Launch, Toggle, Ask, MemoryInv, Sampled, Else, IsOf
  <2>2. UNCHANGED <<live, capturing, captured, missed>> /\ UNCHANGED workVars
    BY <1>2 DEF Launch, Toggle, Ask
  <2>3. QED
    BY <1>w, <1>m, <2>1, <2>2, MemoryKept
<1>3. CASE Close
  <2>1. Sampled'
    BY <1>3 DEF Close, MemoryInv, Sampled
  <2>2. ASSUME NEW u \in Titles, Else(u) PROVE Else(u)'
    <3>1. CASE app \in {previous, sample}
      BY <1>3, <2>2, <3>1 DEF Close, Else, IsOf
    <3>2. CASE app \notin {previous, sample} /\ app.pid \notin read
      BY <1>3, <2>2, <3>2 DEF Close, Else, IsOf
    <3>3. CASE app \notin {previous, sample} /\ app.pid \in read
      BY <1>3, <2>2, <3>3 DEF Close, Else, IsOf
    <3>4. QED
      BY <3>1, <3>2, <3>3
  <2>3. UNCHANGED <<live, capturing, captured, missed>> /\ UNCHANGED workVars
    BY <1>3 DEF Close
  <2>4. QED
    BY <1>w, <1>m, <2>1, <2>2, <2>3, MemoryKept
<1>4. ASSUME NEW s \in Saves, Play(s) PROVE MemoryInv'
  <2>1. /\ Else(TitleOf[s]) /\ live' = [live EXCEPT ![s] = @ + 1]
        /\ UNCHANGED <<app, cardVars, on, pollVars, workVars, ghostVars>>
    BY <1>4 DEF Play, Runs, Else
  <2>2. \A q : Stands(q)' <=> Stands(q)
    BY <2>1 DEF Stands, Else, IsOf
  <2>3. \A q \in Saves : live'[q] # live[q] => Stands(q)
    BY <1>0, <2>1 DEF ConsoleTypeOK, Stands
  <2>4. Covered'
    BY <2>1, <2>2, <2>3 DEF MemoryInv, Covered, Stale
  <2>6. CopyCurrent'
    BY <2>1, <2>2, <2>3, <1>w DEF MemoryInv, CopyCurrent
  <2>7. Sampled' /\ AllAccounts'
    BY <2>1, <2>2 DEF MemoryInv, Sampled, AllAccounts
  <2>8. QED
    BY <2>4, <2>6, <2>7 DEF MemoryInv
<1>5. CASE Poll
  <2>1. Sampled'
    BY <1>5 DEF Poll, MemoryInv, Sampled
  <2>2. ASSUME NEW u \in Titles, Else(u) PROVE Else(u)'
    BY <1>5, <2>2 DEF Poll, Else, IsOf, MemoryInv, Sampled
  <2>3. UNCHANGED <<live, capturing, captured, missed>> /\ UNCHANGED workVars
    BY <1>5 DEF Poll
  <2>4. QED
    BY <1>w, <1>m, <2>1, <2>2, <2>3, MemoryKept
<1>6. CASE PollExit
  <2>1. Sampled'
    BY <1>6 DEF PollExit, PollIdle, MemoryInv, Sampled
  <2>2. ASSUME NEW u \in Titles, Else(u) PROVE Else(u)'
    <3>1. CASE /\ Exited /\ pending' = pending \cup {previous.title}
               /\ unseen' = unseen \ {previous.title} /\ dropped' = dropped \ {previous.title}
               /\ previous' = sample /\ UNCHANGED sample
      BY <1>6, <2>2, <3>1 DEF PollExit, Else, IsOf
    <3>2. CASE /\ Exited /\ pending' \in {pending, pending \cup {previous.title}}
               /\ dropped' = IF sample \notin {None, app} THEN dropped \cup {sample.title} ELSE dropped
               /\ UNCHANGED <<previous, unseen>>
      <4>1. CASE sample \in {None, app}
        BY <1>6, <2>2, <3>2, <4>1 DEF PollExit, Else, IsOf
      <4>2. CASE sample \notin {None, app}
        BY <1>6, <2>2, <3>2, <4>2 DEF PollExit, Else, IsOf
      <4>3. QED
        BY <4>1, <4>2
    <3>3. CASE /\ ~Exited /\ unseen' = (IF Gone THEN unseen \cup {previous.title} ELSE unseen)
               /\ previous' = sample /\ UNCHANGED <<pending, sample, dropped>>
      <4>1. CASE Gone
        BY <1>6, <2>2, <3>3, <4>1 DEF PollExit, Else, IsOf
      <4>2. CASE ~Gone
        BY <1>6, <2>2, <3>3, <4>2 DEF PollExit, Else, IsOf, Gone
      <4>3. QED
        BY <4>1, <4>2
    <3>4. QED
      BY <1>6, <3>1, <3>2, <3>3 DEF PollExit
  <2>3. UNCHANGED <<live, capturing, captured>> /\ UNCHANGED workVars
    BY <1>6 DEF PollExit
  <2>4. \A s \in Saves : s \in missed => Stands(s)'
    BY <1>6 DEF PollExit, Stands, Else
  <2>5. \A s \in Saves : Stands(s) => Stands(s)'
    BY <2>2, <2>4, <1>t DEF Stands
  <2>6. QED
    BY <1>w, <2>1, <2>3, <2>5, MemoryKept
<1>7. CASE PollManual
  <2>1. Sampled' /\ previous = sample /\ UNCHANGED <<app, previous, unseen, dropped>>
        /\ pending \subseteq pending'
    BY <1>7 DEF PollManual, PollIdle, MemoryInv, Sampled
  <2>2. ASSUME NEW u \in Titles, Else(u) PROVE Else(u)'
    BY <2>1, <2>2 DEF Else, IsOf
  <2>3. UNCHANGED <<live, capturing, captured, missed>> /\ UNCHANGED workVars
    BY <1>7 DEF PollManual
  <2>4. QED
    BY <1>w, <1>m, <2>1, <2>2, <2>3, MemoryKept
<1>8. ASSUME NEW t \in Titles, Claim(t) PROVE MemoryInv'
  <2>1. /\ workPc = "idle" /\ workPc' = "account" /\ workTitle' = t /\ on
        /\ missed' = missed \cup (SavesOf(t) \ workTodo')
        /\ UNCHANGED <<live, captured, app, on, pollVars, unseen, dropped>>
    BY <1>8 DEF Claim, LeftOut
  <2>2. \A u \in Titles \ {t} : capturing'[u] = capturing[u] /\ (u \in pending => u \in pending')
    BY <1>0, <1>8 DEF Claim, CardTypeOK
  <2>3. \/ UNCHANGED <<pending, capturing>>
        \/ capturing'[t] = {}
    BY <1>0, <1>8 DEF Claim, CardTypeOK
  <2>4. \A q \in Saves : TitleOf[q] # t /\ Stands(q) => Stands(q)'
    BY <2>1, <2>2, <1>t DEF Stands, Else, IsOf
  <2>5. ASSUME NEW q \in Saves, Stale(q)'
        PROVE  \/ capturing'[TitleOf[q]] # None /\ q \notin capturing'[TitleOf[q]]
               \/ Stands(q)'
    <3>1. Stale(q) /\ TitleOf[q] \in Titles
      BY <2>1, <2>5 DEF Stale
    <3>2. CASE TitleOf[q] # t
      BY <2>2, <2>4, <3>1, <3>2 DEF MemoryInv, Covered
    <3>3. CASE TitleOf[q] = t /\ capturing'[t] = {}
      <4>1. {} # None
        OBVIOUS
      <4>2. QED
        BY <3>3, <4>1
    <3>4. CASE UNCHANGED <<pending, capturing>>
      <4>1. Stands(q) => Stands(q)'
        BY <2>1, <3>4 DEF Stands, Else, IsOf
      <4>2. QED
        BY <3>1, <3>4, <4>1 DEF MemoryInv, Covered
    <3>5. QED
      BY <2>3, <3>2, <3>3, <3>4
  <2>6. Covered'
    BY <2>5 DEF Covered
  <2>7. Sampled' /\ CopyCurrent' /\ AllAccounts'
    BY <2>1 DEF MemoryInv, Sampled, CopyCurrent, AllAccounts, Stands
  <2>8. QED
    BY <2>6, <2>7 DEF MemoryInv
\* Steps of the worker alone leave what else stands for the games.
<1>e. ASSUME UNCHANGED <<app, previous, sample, pending, unseen, dropped, missed>>
      PROVE  \A q : Stands(q)' <=> Stands(q)
  BY <1>e DEF Stands, Else, IsOf
\* A copy does so too, or leaves its own save out as well.
<1>f. ASSUME UNCHANGED <<app, previous, sample, pending, unseen, dropped>>, missed \subseteq missed'
      PROVE  \A q : Stands(q) => Stands(q)'
  BY <1>f DEF Stands, Else, IsOf
<1>9. CASE GiveUp
  <2>1. /\ workPc' = "idle"
        /\ UNCHANGED <<live, capturing, captured, app, on, pollPc, previous, sample, pending, unseen, dropped,
                       missed>>
    BY <1>9 DEF GiveUp, WorkIdle
  <2>2. QED
    BY <2>1, <1>e DEF MemoryInv, Sampled, CopyCurrent, AllAccounts, Covered, Stale
<1>10. ASSUME NEW s \in Saves, Account(s) PROVE MemoryInv'
  <2>1. /\ workPc = "account" /\ workTodo' = workTodo \ {s} /\ s \in SavesOf(workTitle) /\ on
        /\ workTitle \in Titles /\ capturing[workTitle] # None
        /\ UNCHANGED <<live, capturing, captured, app, on, pollPc, previous, sample, pending, unseen,
                       dropped, missed, workTitle>>
    BY <1>0, <1>10 DEF Account, WorkTypeOK
  <2>2. Sampled' /\ Covered'
    BY <2>1, <1>e DEF MemoryInv, Sampled, Covered, Stale
  <2>3. CASE s \in capturing[workTitle]
    <3>1. UNCHANGED <<workPc, workSave, workBase>>
      BY <1>10, <2>3 DEF Account
    <3>2. CopyCurrent'
      BY <2>1, <3>1 DEF CopyCurrent
    <3>3. AllAccounts'
      <4>1. SUFFICES ASSUME NEW q \in SavesOf(workTitle)
                     PROVE  q \in workTodo' \/ q \in capturing[workTitle] \/ Stands(q)
        BY <2>1, <3>1, <1>e DEF AllAccounts
      <4>2. q \in workTodo \/ q \in capturing[workTitle] \/ Stands(q)
        BY <2>1, <4>1 DEF MemoryInv, AllAccounts
      <4>3. QED
        BY <2>1, <2>3, <4>2
    <3>4. QED
      BY <2>2, <3>2, <3>3 DEF MemoryInv
  <2>4. CASE s \notin capturing[workTitle]
    <3>1. /\ workSave' = s /\ workBase' = live[s]
          /\ workPc' = IF "cloud" \in Destinations THEN "cloud" ELSE "localcopy"
      BY <1>10, <2>4 DEF Account
    <3>2. workPc' = "localcopy" => Destinations \ {"local"} = {}
      BY <3>1
    <3>3. CopyCurrent'
      BY <2>1, <2>4, <3>1, <3>2 DEF CopyCurrent
    <3>4. AllAccounts'
      BY <2>1, <3>1, <1>e DEF MemoryInv, AllAccounts
    <3>5. QED
      BY <2>2, <3>3, <3>4 DEF MemoryInv
  <2>5. QED
    BY <2>3, <2>4
\* What was copied since the copy began.
<1>c. workPc \in {"cloud", "localcopy"} =>
        \A v \in Copies : v = live[workSave] \/ Stands(workSave)
  BY DEF MemoryInv, CopyCurrent, Copies
<1>s. Copying => workSave \in Saves /\ TitleOf[workSave] = workTitle /\ workTitle \in Titles
  BY <1>0 DEF WorkTypeOK
<1>11. ASSUME NEW d \in Destinations, NEW v, v \in Copies \/ v = Torn, Copying,
              captured' = [captured EXCEPT ![<<d, workSave>>] = v],
              UNCHANGED <<live, capturing, app, previous, sample, pending, unseen, dropped>>,
              missed \subseteq missed'
       PROVE  /\ captured'[<<d, workSave>>] = v
              /\ \A e \in Destinations \ {d} : captured'[<<e, workSave>>] = captured[<<e, workSave>>]
              /\ Covered'
  <2>1. /\ captured'[<<d, workSave>>] = v
        /\ \A e \in Destinations \ {d} : captured'[<<e, workSave>>] = captured[<<e, workSave>>]
        /\ \A q \in Saves \ {workSave} : \A e \in Destinations : captured'[<<e, q>>] = captured[<<e, q>>]
    BY <1>0, <1>11, <1>s DEF CardTypeOK
  <2>2. \A q \in Saves \ {workSave} : Stale(q)' => Stale(q)
    BY <1>11, <2>1 DEF Stale
  <2>3. capturing[workTitle] # None /\ workSave \notin capturing[workTitle]
    BY <1>11 DEF MemoryInv, CopyCurrent
  <2>4. Covered'
    BY <1>11, <2>2, <2>3, <1>s, <1>f DEF MemoryInv, Covered
  <2>5. QED
    BY <2>1, <2>4
<1>12. CASE CloudCopied
  <2>1. PICK short \in BOOLEAN : Copied("cloud", short)
    BY <1>12 DEF CloudCopied
  <2>c. PICK v \in IF short THEN {Torn} ELSE Copies :
             captured' = [captured EXCEPT ![<<"cloud", workSave>>] = v]
    BY <2>1 DEF Copied
  <2>m. missed \subseteq missed' /\ (short => workSave \in missed')
    BY <2>1 DEF Copied, LeftOut
  <2>2. /\ workPc = "cloud" /\ Copying /\ "cloud" \in Destinations /\ on
        /\ workPc' = (IF "local" \in Destinations THEN "local" ELSE "checkpoint")
        /\ UNCHANGED <<live, capturing, app, on, pollPc, previous, sample, pending, unseen, dropped,
                       workTitle, workTodo, workSave, workBase>>
    BY <1>0, <1>12 DEF CloudCopied, WorkPlace
  <2>3. captured'[<<"cloud", workSave>>] = v /\ Covered'
    BY <2>c, <2>m, <2>2, <1>11
  <2>4. v = live[workSave] \/ Stands(workSave)'
    BY <2>c, <2>m, <2>2, <1>c, <1>f DEF Stands
  <2>5. CopyCurrent'
    <3>1. capturing[workTitle] # None /\ workSave \notin capturing[workTitle]
      BY <2>2 DEF MemoryInv, CopyCurrent
    <3>2. Destinations \ {"local"} \subseteq {"cloud"}
      OBVIOUS
    <3>3. QED
      BY <2>2, <2>3, <2>4, <3>1, <3>2 DEF CopyCurrent
  <2>6. Sampled' /\ AllAccounts'
    BY <2>2, <2>m, <1>f DEF MemoryInv, Sampled, AllAccounts
  <2>7. QED
    BY <2>3, <2>5, <2>6 DEF MemoryInv
<1>13. CASE LocalBegin
  <2>1. /\ workPc = "local" /\ workPc' = "localcopy" /\ workBase' = live[workSave]
        /\ UNCHANGED <<live, capturing, captured, app, on, pollPc, previous, sample, pending, unseen,
                       dropped, missed, workTitle, workTodo, workSave>>
    BY <1>13 DEF LocalBegin
  <2>2. CopyCurrent'
    BY <2>1, <1>e DEF MemoryInv, CopyCurrent
  <2>3. Covered'
    BY <2>1, <1>e DEF MemoryInv, Covered, Stale
  <2>4. Sampled' /\ AllAccounts'
    BY <2>1, <1>e DEF MemoryInv, Sampled, AllAccounts
  <2>5. QED
    BY <2>2, <2>3, <2>4 DEF MemoryInv
<1>14. CASE LocalCopied
  <2>1. PICK short \in BOOLEAN : Copied("local", short)
    BY <1>14 DEF LocalCopied
  <2>c. PICK v \in IF short THEN {Torn} ELSE Copies :
             captured' = [captured EXCEPT ![<<"local", workSave>>] = v]
    BY <2>1 DEF Copied
  <2>m. missed \subseteq missed' /\ (short => workSave \in missed')
    BY <2>1 DEF Copied, LeftOut
  <2>2. /\ workPc = "localcopy" /\ Copying /\ "local" \in Destinations /\ workPc' = "checkpoint"
        /\ UNCHANGED <<live, capturing, app, on, pollPc, previous, sample, pending, unseen, dropped,
                       workTitle, workTodo, workSave, workBase>>
    BY <1>0, <1>14 DEF LocalCopied, WorkPlace
  <2>3. /\ captured'[<<"local", workSave>>] = v /\ Covered'
        /\ \A e \in Destinations \ {"local"} : captured'[<<e, workSave>>] = captured[<<e, workSave>>]
    BY <2>c, <2>m, <2>2, <1>11
  <2>4. v = live[workSave] \/ Stands(workSave)'
    BY <2>c, <2>m, <2>2, <1>c, <1>f DEF Stands
  <2>5. CopyCurrent'
    <3>1. capturing[workTitle] # None /\ workSave \notin capturing[workTitle]
      BY <2>2 DEF MemoryInv, CopyCurrent
    <3>2. \A e \in Destinations \ {"local"} : captured[<<e, workSave>>] = live[workSave] \/ Stands(workSave)
      BY <2>2 DEF MemoryInv, CopyCurrent
    <3>3. QED
      BY <2>2, <2>3, <2>4, <2>m, <3>1, <3>2, <1>f DEF CopyCurrent
  <2>6. Sampled' /\ AllAccounts'
    BY <2>2, <2>m, <1>f DEF MemoryInv, Sampled, AllAccounts
  <2>7. QED
    BY <2>3, <2>5, <2>6 DEF MemoryInv
<1>15. CASE Checkpoint
  <2>1. /\ workPc = "checkpoint" /\ Copying /\ workPc' = "account" /\ on
        /\ capturing' = [capturing EXCEPT ![workTitle] = @ \cup {workSave}]
        /\ UNCHANGED <<live, captured, app, on, pollPc, previous, sample, pending, unseen, dropped,
                       missed, workTitle, workTodo>>
    BY <1>15 DEF Checkpoint
  <2>2. /\ capturing[workTitle] \in SUBSET Saves /\ capturing'[workTitle] = capturing[workTitle] \cup {workSave}
        /\ \A u \in Titles \ {workTitle} : capturing'[u] = capturing[u]
        /\ capturing'[workTitle] # None
    BY <1>0, <2>1, <1>s DEF MemoryInv, CopyCurrent, CardTypeOK
  <2>3. Stale(workSave) => Stands(workSave)
    BY <2>1 DEF MemoryInv, CopyCurrent, Stale
  <2>4. Covered'
    BY <2>1, <2>2, <2>3, <1>s, <1>e DEF MemoryInv, Covered, Stale
  <2>5. AllAccounts'
    BY <2>1, <2>2, <1>e DEF MemoryInv, AllAccounts
  <2>6. Sampled' /\ CopyCurrent'
    BY <2>1 DEF MemoryInv, Sampled, CopyCurrent
  <2>7. QED
    BY <2>4, <2>5, <2>6 DEF MemoryInv
<1>16. CASE Finish
  <2>1. /\ workPc = "account" /\ workTodo = {} /\ workPc' = "idle" /\ on
        /\ capturing' \in {capturing, [capturing EXCEPT ![workTitle] = None]}
        /\ UNCHANGED <<live, captured, app, on, pollPc, previous, sample, pending, unseen, dropped,
                       missed>>
    BY <1>16 DEF Finish, WorkIdle
  <2>2. workTitle \in Titles /\ \A s \in SavesOf(workTitle) : s \in capturing[workTitle] \/ Stands(s)
    BY <1>0, <2>1 DEF MemoryInv, AllAccounts, WorkTypeOK
  <2>3. \A u \in Titles \ {workTitle} : capturing'[u] = capturing[u]
    BY <1>0, <2>1 DEF CardTypeOK
  <2>4. Covered'
    BY <2>1, <2>2, <2>3, <1>e DEF MemoryInv, Covered, Stale
  <2>5. Sampled' /\ CopyCurrent' /\ AllAccounts'
    BY <2>1 DEF MemoryInv, Sampled, CopyCurrent, AllAccounts
  <2>6. QED
    BY <2>4, <2>5 DEF MemoryInv
<1>17. CASE Crash
  <2>1. /\ workPc' = "idle" /\ previous' = None /\ sample' = None /\ pollPc' = "idle" /\ on' = FALSE
        /\ unseen' = unseen \cup {a.title : a \in {previous, sample} \ {None, app}}
        /\ UNCHANGED <<live, cardVars, app, dropped, missed>>
    BY <1>17 DEF Crash, PollIdle, WorkIdle
  <2>2. ASSUME NEW u \in Titles, Else(u) PROVE Else(u)'
    BY <2>1, <2>2 DEF Else, IsOf
  <2>3. Covered'
    BY <2>1, <2>2, <1>m DEF MemoryInv, Covered, Stale
  <2>4. Sampled' /\ CopyCurrent' /\ AllAccounts'
    BY <2>1 DEF Sampled, CopyCurrent, AllAccounts
  <2>5. QED
    BY <2>3, <2>4 DEF MemoryInv
<1>18. CASE Start
  <2>1. Sampled' /\ \A u \in Titles : Else(u) => Else(u)'
    BY <1>18 DEF Start, MemoryInv, Sampled, Else, IsOf
  <2>2. UNCHANGED <<live, capturing, captured, missed>> /\ UNCHANGED workVars
    BY <1>18 DEF Start
  <2>3. QED
    BY <1>w, <1>m, <2>1, <2>2, MemoryKept
<1>19. QED
  BY <1>1, <1>2, <1>3, <1>4, <1>5, <1>6, <1>7, <1>8, <1>9, <1>10, <1>12, <1>13, <1>14, <1>15, <1>16,
     <1>17, <1>18
  DEF Next, Console, Main, Worker

\* A save whose last capture is missing, old or torn is never forgotten, however
\* many games there are and however they are started, closed and captured, unless
\* an error taken for the end of a list left it out.
THEOREM SessionsAreRemembered == Spec => []SessionsRemembered
<1>1. Init => MemoryInv
  <2> SUFFICES ASSUME Init PROVE MemoryInv
    OBVIOUS
  <2>1. \A t \in Titles : Else(t)
    BY DEF Init, Else
  <2>2. QED
    BY <2>1 DEF Init, MemoryInv, Sampled, CopyCurrent, AllAccounts, Covered, Stands
<1>2. TypeInv /\ MemoryInv /\ [Next]_vars => MemoryInv'
  BY NextMemoryInv
<1>3. MemoryInv => SessionsRemembered
  BY DEF MemoryInv, Covered, SessionsRemembered, Remembered, Stands, Else
<1>4. QED
  BY TypeInvariant, <1>1, <1>2, <1>3, PTL DEF Spec
=============================================================================
