--------------------------- MODULE SyncTitleProofs ---------------------------
(***************************************************************************)
(* Proofs about the one-click sync, for every number of consoles, files,   *)
(* saves and mishaps: what a marker means, what a sync never loses, and    *)
(* how long saves stay whole.  Where two consoles could change the cloud   *)
(* folder together none of it holds, so all assume that they take turns    *)
(* (~Overlap).  What a blind job does is excepted, and only that.          *)
(***************************************************************************)
EXTENDS SyncTitle, TLAPS

-----------------------------------------------------------------------------
(* Types. *)

LEMMA TreeTypes ==
    /\ Empty \in Trees
    /\ \A v \in Versions : Tree(v) \in Trees
    /\ \A t \in Trees : In(t) \subseteq Files
    /\ \A t \in Trees, f \in Files, v \in 0..MaxVer : [t EXCEPT ![f] = v] \in Trees
BY SyncAssumption DEF Empty, Trees, Versions, Tree, In

\* One file of one console's download, or of one folder, is replaced.
LEMMA FileWrite ==
    ASSUME NEW S, NEW g \in [S -> Trees], NEW s \in S, NEW f \in Files, NEW v \in 0..MaxVer
    PROVE  [g EXCEPT ![s][f] = v] \in [S -> Trees]
<1>1. [g[s] EXCEPT ![f] = v] \in Trees
  BY TreeTypes
<1>2. QED
  BY <1>1

LEMMA ProgressType ==
    ASSUME hist \in [Versions -> SUBSET Versions], NEW t \in Trees
    PROVE  Progress(t) \subseteq Versions
<1>1. \A f \in In(t) : t[f] \in Versions
  BY DEF In, Trees, Versions
<1>2. QED
  BY <1>1 DEF Progress

\* What is taken for a tree is a tree, and the right look is one of the looks.
LEMMA LooksTypes ==
    ASSUME NEW t \in Trees, NEW l \in Looks(t)
    PROVE  /\ l.print \in Parts(t) /\ l.print \in Trees
           /\ l.none \in BOOLEAN /\ (~l.none => t # Empty)
           /\ l = Right(t) => l.print = t /\ (l.none <=> t = Empty)
<1>1. l.print \in Parts(t) /\ l.none \in {t = Empty, TRUE}
  BY DEF Looks
<1>2. Right(t).print = t /\ Right(t).none = (t = Empty)
  BY DEF Right
<1>3. QED
  BY <1>1, <1>2 DEF Parts

LEMMA PrunedType ==
    ASSUME NEW c \in Consoles, cloud[active[c]] \in Trees, NEW unseen, NEW kept
    PROVE  Pruned(c, unseen, kept) \in Trees
BY SyncAssumption DEF Pruned, Trees

\* A job that returns leaves well-typed locals.
LocalTypes ==
    /\ job \in [Consoles -> {"none", "sync", "restore", "backup"}]
    /\ pc \in [Consoles -> {"idle", "find", "fetch", "upload", "prune", "write", "mark"}]
    /\ here \in [Consoles -> Trees] /\ there \in [Consoles -> Trees]
    /\ mark \in [Consoles -> Trees]
    /\ todo \in [Consoles -> SUBSET Files] /\ good \in [Consoles -> BOOLEAN]
    /\ \A c \in Consoles : pc[c] = "write" => there[c] # Empty

DataTypes ==
    /\ save \in [Consoles -> Trees] /\ marker \in [Consoles -> Trees \cup {NoMark}]
    /\ active \in [Consoles -> Backends] /\ cloud \in [Backends -> Trees]
    /\ played \in 0..MaxVer /\ hist \in [Versions -> SUBSET Versions]
    /\ given \subseteq Versions

\* ... and whoever is blind has done harm.
FaultTypes ==
    /\ mishaps \in 0..MaxMishaps /\ blind \subseteq Consoles /\ harm \subseteq {"blind", "cut"}
    /\ blind # {} => "blind" \in harm

Types == DataTypes /\ LocalTypes /\ FaultTypes

LEMMA TypesOK == Types => TypeOK
BY DEF TypeOK, Types, DataTypes, LocalTypes, FaultTypes

LEMMA ReturnTypes ==
    ASSUME LocalTypes, NEW c \in Consoles, Return(c) PROVE LocalTypes'
BY TreeTypes DEF LocalTypes, Return

LEMMA GoTypes ==
    ASSUME LocalTypes, NEW c \in Consoles, NEW t \in SUBSET Files, NEW m \in Trees,
           NEW l \in {"fetch", "upload", "prune", "write", "mark"},
           Go(c, l, t, m), l = "write" => there[c] # Empty
    PROVE  LocalTypes'
BY DEF LocalTypes, Go

LEMMA MishapTypes ==
    ASSUME FaultTypes, Mishap \/ NoMishap PROVE mishaps' \in 0..MaxMishaps
BY SyncAssumption DEF FaultTypes, Mishap, NoMishap

LEMMA SeesTypes ==
    ASSUME FaultTypes, NEW c \in Consoles, NEW right, Sees(c, right) PROVE FaultTypes'
<1>1. CASE right
  BY <1>1 DEF Sees, faults, FaultTypes
<1>2. CASE ~right
  BY <1>2, MishapTypes DEF Sees, FaultTypes
<1>3. QED
  BY <1>1, <1>2

LEMMA StopsTypes ==
    ASSUME FaultTypes, NEW c \in Consoles, Mishap \/ NoMishap, Stops(c) PROVE FaultTypes'
BY MishapTypes DEF Stops, FaultTypes

\* What is decided from the three trees.
LEMMA VerdictCases ==
    ASSUME NEW l, NEW r, NEW m, l.none \in BOOLEAN, r.none \in BOOLEAN
    PROVE  /\ Verdict(l, r, m) \in {"nothing", "conflict", "equal", "write", "upload"}
           /\ Verdict(l, r, m) = "equal" => l.print = r.print
           /\ Verdict(l, r, m) = "write" =>
                  ~r.none /\ (l.none \/ (m # NoMark /\ l.print = m))
           /\ Verdict(l, r, m) = "upload" =>
                  ~l.none /\ (r.none \/ (m # NoMark /\ r.print = m))
<1>2. CASE l.none /\ r.none
  BY <1>2 DEF Verdict
<1>3. CASE ~l.none /\ r.none
  BY <1>3 DEF Verdict
<1>4. CASE l.none /\ ~r.none
  BY <1>4 DEF Verdict
<1>5. CASE ~l.none /\ ~r.none /\ l.print = r.print
  BY <1>5 DEF Verdict
<1>6. CASE ~l.none /\ ~r.none /\ l.print # r.print
  <2>1. Verdict(l, r, m) = IF m = NoMark \/ (l.print # m /\ r.print # m) THEN "conflict"
                           ELSE IF r.print # m THEN "write" ELSE "upload"
    BY <1>6 DEF Verdict
  <2>2. QED
    BY <1>6, <2>1
<1>7. QED
  BY <1>2, <1>3, <1>4, <1>5, <1>6

\* The ways a sync goes on once it has looked at both trees.
Decided(c, l, r) ==
    \/ Return(c)
    \/ l.print = r.print /\ Go(c, "mark", {}, l.print)
    \/ /\ ~r.none /\ (l.none \/ (marker[c] # NoMark /\ l.print = marker[c]))
       /\ Go(c, "write", {}, r.print)
    \/ /\ ~l.none /\ (r.none \/ (marker[c] # NoMark /\ r.print = marker[c]))
       /\ Go(c, "upload", In(here[c]), l.print)

LEMMA DecideCases ==
    ASSUME LocalTypes, NEW c \in Consoles, Decide(c)
    PROVE  \E l \in Looks(here[c]), r \in Looks(there[c]) :
              /\ Sees(c, l = Right(here[c]) /\ r = Right(there[c]))
              /\ Decided(c, l, r)
<1>1. PICK l \in Looks(here[c]), r \in Looks(there[c]) :
         /\ Sees(c, l = Right(here[c]) /\ r = Right(there[c]))
         /\ LET v == Verdict(l, r, marker[c])
            IN  CASE v \in {"nothing", "conflict"} -> Return(c)
                  [] v = "equal"  -> Go(c, "mark", {}, l.print)
                  [] v = "write"  -> Go(c, "write", {}, r.print)
                  [] v = "upload" -> Go(c, "upload", In(here[c]), l.print)
  BY DEF Decide
<1> DEFINE v == Verdict(l, r, marker[c])
<1>2. l.none \in BOOLEAN /\ r.none \in BOOLEAN
  BY LooksTypes DEF LocalTypes
<1>3. /\ v \in {"nothing", "conflict", "equal", "write", "upload"}
      /\ v = "equal" => l.print = r.print
      /\ v = "write" => ~r.none /\ (l.none \/ (marker[c] # NoMark /\ l.print = marker[c]))
      /\ v = "upload" => ~l.none /\ (r.none \/ (marker[c] # NoMark /\ r.print = marker[c]))
  BY <1>2, VerdictCases
<1> HIDE DEF v
<1>4. CASE v \in {"nothing", "conflict"}
  BY <1>1, <1>4 DEF v, Decided
<1>5. CASE v = "equal"
  BY <1>1, <1>3, <1>5 DEF v, Decided
<1>6. CASE v = "write"
  BY <1>1, <1>3, <1>6 DEF v, Decided
<1>7. CASE v = "upload"
  BY <1>1, <1>3, <1>7 DEF v, Decided
<1>8. QED
  BY <1>3, <1>4, <1>5, <1>6, <1>7

LEMMA InitTypes == Init => Types
<1> SUFFICES ASSUME Init PROVE Types
  OBVIOUS
<1> USE SyncAssumption, TreeTypes DEF Init
<1>1. DataTypes
  <2>1. 0 \in 0..MaxVer
    OBVIOUS
  <2>2. QED
    BY <2>1 DEF DataTypes
<1>2. LocalTypes
  BY DEF LocalTypes
<1>3. FaultTypes
  BY DEF FaultTypes
<1>4. QED
  BY <1>1, <1>2, <1>3 DEF Types

\* The steps of one console.
Steps(c) ==
    \/ Play(c)
    \/ \E j \in {"sync", "restore", "backup"} : Begin(c, j)
    \/ Find(c) \/ FetchFile(c) \/ FetchFails(c) \/ Decide(c) \/ DecideRestore(c)
    \/ UploadFile(c) \/ UploadEnds(c) \/ Prune(c)
    \/ Write(c) \/ WriteFails(c) \/ Mark(c) \/ Crash(c)

LEMMA NextSteps == Next <=> \E c \in Consoles : Steps(c)
BY DEF Next, Steps

LEMMA NextTypes == ASSUME Types, [Next]_vars PROVE Types'
<1> USE DEF data, ghosts, local
<1>0. DataTypes /\ LocalTypes /\ FaultTypes
  BY DEF Types
<1>1. CASE UNCHANGED vars
  BY <1>0, <1>1 DEF vars, faults, Types, DataTypes, LocalTypes, FaultTypes
<1> SUFFICES ASSUME NEW c \in Consoles, Steps(c) PROVE DataTypes' /\ LocalTypes' /\ FaultTypes'
  BY <1>1, NextSteps DEF Types
<1>a. UNCHANGED faults => FaultTypes'
  BY <1>0 DEF faults, FaultTypes
<1>b. UNCHANGED <<data, ghosts>> => DataTypes'
  BY <1>0 DEF DataTypes
<1>c. /\ save[c] \in Trees /\ here[c] \in Trees /\ there[c] \in Trees /\ mark[c] \in Trees
      /\ active[c] \in Backends /\ cloud[active[c]] \in Trees
      /\ In(save[c]) \subseteq Files /\ In(here[c]) \subseteq Files
      /\ In(cloud[active[c]]) \subseteq Files
  BY <1>0, TreeTypes DEF DataTypes, LocalTypes
<1>2. CASE Play(c)
  <2>1. UNCHANGED <<local, marker, active, cloud, given, faults>>
        /\ played' = played + 1 /\ played < MaxVer
        /\ save' = [save EXCEPT ![c] = Tree(played + 1)]
        /\ hist' = [hist EXCEPT ![played + 1] = Progress(save[c]) \cup {played + 1}]
    BY <1>2 DEF Play
  <2>2. played + 1 \in 0..MaxVer /\ played + 1 \in Versions
    BY <1>0, <2>1, SyncAssumption DEF DataTypes, Versions
  <2>3. Tree(played + 1) \in Trees /\ Progress(save[c]) \subseteq Versions
    BY <1>0, <2>2, TreeTypes, ProgressType DEF DataTypes
  <2>4. save' \in [Consoles -> Trees] /\ hist' \in [Versions -> SUBSET Versions]
    BY <1>0, <2>1, <2>2, <2>3 DEF DataTypes
  <2>5. QED
    BY <1>0, <1>a, <2>1, <2>2, <2>4 DEF DataTypes, LocalTypes
<1>3. ASSUME NEW j \in {"sync", "restore", "backup"}, Begin(c, j)
      PROVE  DataTypes' /\ LocalTypes' /\ FaultTypes'
  <2>1. PICK t \in IF j = "restore" THEN {save[c]} ELSE Mixed :
          /\ here' = [here EXCEPT ![c] = t]
          /\ todo' = [todo EXCEPT ![c] = IF j = "backup" THEN In(t) ELSE {}]
          /\ IF t = save[c]
               THEN blind' = blind \ {c} /\ UNCHANGED <<mishaps, harm>>
               ELSE Sees(c, FALSE)
    BY <1>3 DEF Begin
  <2>2. t \in Trees /\ In(t) \subseteq Files
    BY <1>c, <2>1, TreeTypes DEF Mixed
  <2>3. FaultTypes'
    BY <1>0, <2>1, SeesTypes DEF FaultTypes
  <2>4. LocalTypes'
    BY <1>0, <1>3, <2>1, <2>2 DEF Begin, LocalTypes
  <2>5. QED
    BY <1>b, <1>3, <2>3, <2>4 DEF Begin
<1>4. CASE Find(c)
  <2>1. /\ FaultTypes'
        /\ \/ \E t \in Mixed : there' = [there EXCEPT ![c] = t]
           \/ UNCHANGED there
        /\ \/ todo' = [todo EXCEPT ![c] = In(cloud[active[c]])]
           \/ UNCHANGED todo
    BY <1>0, <1>4, SeesTypes DEF Find
  <2>2. there' \in [Consoles -> Trees] /\ todo' \in [Consoles -> SUBSET Files]
    BY <1>0, <1>c, <2>1 DEF Mixed, LocalTypes
  <2>3. \A d \in Consoles : pc'[d] = "write" => pc[d] = "write" /\ there'[d] = there[d]
    BY <1>0, <1>4, <2>1 DEF Find, LocalTypes
  <2>4. LocalTypes'
    BY <1>0, <1>4, <2>2, <2>3 DEF Find, LocalTypes
  <2>5. QED
    BY <1>b, <1>4, <2>1, <2>4 DEF Find
<1>5. CASE FetchFile(c)
  <2>1. PICK f \in todo[c] :
          /\ todo' = [todo EXCEPT ![c] = @ \ {f}]
          /\ there' = [there EXCEPT ![c][f] = cloud[active[c]][f]]
    BY <1>5 DEF FetchFile
  <2>2. f \in Files /\ cloud[active[c]][f] \in 0..MaxVer
    BY <1>0, <1>c DEF LocalTypes, Trees
  <2>3. there' \in [Consoles -> Trees]
    <3>1. \A n \in 0..MaxVer : [there EXCEPT ![c][f] = n] \in [Consoles -> Trees]
      BY <1>0, <2>2, FileWrite DEF LocalTypes
    <3>2. QED
      BY <2>1, <2>2, <3>1
  <2>4. UNCHANGED <<job, pc, here, mark, good>> /\ pc[c] = "fetch"
    BY <1>5 DEF FetchFile
  <2>5. \A d \in Consoles : d # c => there'[d] = there[d]
    BY <1>0, <2>1 DEF LocalTypes
  <2>6. LocalTypes'
    BY <1>0, <2>1, <2>3, <2>4, <2>5 DEF LocalTypes
  <2>7. QED
    BY <1>a, <1>b, <1>5, <2>6 DEF FetchFile
<1>6. CASE FetchFails(c) \/ WriteFails(c)
  BY <1>0, <1>a, <1>b, <1>6, ReturnTypes DEF FetchFails, WriteFails
<1>7. CASE Decide(c)
  <2>1. PICK l \in Looks(here[c]), r \in Looks(there[c]) :
              /\ Sees(c, l = Right(here[c]) /\ r = Right(there[c]))
              /\ Decided(c, l, r)
    BY <1>0, <1>7, DecideCases
  <2>2. l.print \in Trees /\ r.print \in Trees /\ (~r.none => there[c] # Empty)
    BY <1>c, LooksTypes
  <2>3. LocalTypes'
    BY <1>0, <1>c, <2>1, <2>2, ReturnTypes, GoTypes DEF Decided
  <2>4. QED
    BY <1>0, <1>b, <1>7, <2>1, <2>3, SeesTypes DEF Decide
<1>8. CASE DecideRestore(c)
  <2>1. PICK r \in Looks(there[c]) :
          /\ Sees(c, r = Right(there[c]))
          /\ \/ Return(c)
             \/ Go(c, "mark", {}, save[c])
             \/ ~r.none /\ Go(c, "write", {}, Empty)
    BY <1>8 DEF DecideRestore
  <2>2. ~r.none => there[c] # Empty
    BY <1>c, LooksTypes
  <2>3. LocalTypes'
    BY <1>0, <1>c, <2>1, <2>2, ReturnTypes, GoTypes, TreeTypes
  <2>4. QED
    BY <1>0, <1>b, <1>8, <2>1, <2>3, SeesTypes DEF DecideRestore
<1>9. CASE UploadFile(c)
  <2>1. PICK f \in todo[c] :
          /\ todo' = [todo EXCEPT ![c] = @ \ {f}]
          /\ \/ /\ SendTo(c, [cloud[active[c]] EXCEPT ![f] = here[c][f]])
                /\ UNCHANGED good /\ NoMishap
             \/ /\ good' = [good EXCEPT ![c] = FALSE] /\ Mishap
                /\ UNCHANGED <<cloud, given>>
    BY <1>9 DEF UploadFile
  <2>2. f \in Files /\ here[c][f] \in 0..MaxVer /\ Progress(cloud[active[c]]) \subseteq Versions
    BY <1>0, <1>c, ProgressType DEF DataTypes, LocalTypes, Trees
  <2>3. cloud' \in [Backends -> Trees] /\ given' \subseteq Versions
    <3>1. [cloud[active[c]] EXCEPT ![f] = here[c][f]] \in Trees
      BY <1>c, <2>2, TreeTypes
    <3>2. QED
      BY <1>0, <2>1, <2>2, <3>1 DEF SendTo, DataTypes
  <2>4. UNCHANGED <<save, marker, active, played, hist, job, pc, here, there, mark, blind, harm>>
    BY <1>9 DEF UploadFile
  <2>5. FaultTypes'
    BY <1>0, <2>1, <2>4, MishapTypes DEF FaultTypes
  <2>6. DataTypes'
    BY <1>0, <2>3, <2>4 DEF DataTypes
  <2>7. LocalTypes'
    BY <1>0, <2>1, <2>4 DEF LocalTypes
  <2>8. QED
    BY <2>5, <2>6, <2>7
<1>10. CASE UploadEnds(c)
  <2>1. \/ Go(c, "prune", {}, mark[c]) /\ Sees(c, todo[c] = {})
        \/ Return(c) /\ NoMishap /\ Stops(c)
    BY <1>10 DEF UploadEnds
  <2>2. LocalTypes'
    BY <1>0, <1>c, <2>1, ReturnTypes, GoTypes
  <2>3. FaultTypes'
    BY <1>0, <2>1, SeesTypes, StopsTypes
  <2>4. QED
    BY <1>b, <1>10, <2>2, <2>3 DEF UploadEnds
<1>11. CASE Prune(c)
  <2>1. PICK unseen \in SUBSET In(here[c]), kept \in SUBSET (In(cloud[active[c]]) \ In(here[c])) :
          /\ SendTo(c, Pruned(c, unseen, kept))
          /\ Go(c, "mark", {}, mark[c]) \/ Return(c)
          /\ PruneFaults(c, unseen, kept)
    BY <1>11 DEF Prune
  <2>2. cloud' \in [Backends -> Trees] /\ given' \subseteq Versions
    BY <1>0, <1>c, <2>1, PrunedType, ProgressType DEF SendTo, DataTypes
  <2>3. DataTypes'
    BY <1>0, <1>11, <2>2 DEF Prune, DataTypes
  <2>4. FaultTypes'
    BY <1>0, <2>1, MishapTypes DEF PruneFaults, FaultTypes
  <2>5. LocalTypes'
    BY <1>0, <1>c, <2>1, ReturnTypes, GoTypes
  <2>6. QED
    BY <2>3, <2>4, <2>5
<1>12. CASE Write(c)
  <2>1. PICK got \in Parts(there[c]) :
          /\ save' = [save EXCEPT ![c] = got]
          /\ given' = IF job[c] = "sync" THEN given
                      ELSE given \cup (Progress(save[c]) \ Progress(got))
          /\ Sees(c, got = there[c])
    BY <1>12 DEF Write
  <2>2. got \in Trees /\ Progress(save[c]) \subseteq Versions
    BY <1>0, <1>c, ProgressType DEF Parts, DataTypes
  <2>3. DataTypes'
    BY <1>0, <1>12, <2>1, <2>2 DEF Write, DataTypes
  <2>4. LocalTypes'
    BY <1>0, <1>c, <1>12, ReturnTypes, GoTypes DEF Write
  <2>5. QED
    BY <1>0, <2>1, <2>3, <2>4, SeesTypes
<1>13. CASE Mark(c)
  <2>1. FaultTypes'
    BY <1>0, <1>13, MishapTypes DEF Mark, FaultTypes
  <2>2. DataTypes'
    BY <1>0, <1>c, <1>13 DEF Mark, DataTypes
  <2>3. QED
    BY <1>0, <1>13, <2>1, <2>2, ReturnTypes DEF Mark
<1>14. CASE Crash(c)
  BY <1>0, <1>b, <1>14, ReturnTypes, StopsTypes DEF Crash
<1>15. QED
  BY <1>2, <1>3, <1>4, <1>5, <1>6, <1>7, <1>8, <1>9, <1>10, <1>11, <1>12, <1>13, <1>14 DEF Steps

\* Every variable keeps its type, and a job that is about to write over a save
\* has something to write ("nada" is never written over a save).
THEOREM TypeCorrect == Spec => []TypeOK
<1>1. Init => Types
  BY InitTypes
<1>2. Types /\ [Next]_vars => Types'
  BY NextTypes
<1>3. Types => TypeOK
  BY TypesOK
<1>4. QED
  BY <1>1, <1>2, <1>3, PTL DEF Spec

-----------------------------------------------------------------------------
(* What the copies on the card stand for.  While one console works, nobody else
   touches its folder or its save: unless its job is blind, its copy of the save is
   the save, what it has downloaded is the folder, what it has sent without a
   failure is there, and what it is to record is what both sides will hold. *)

Folder(c) == cloud[active[c]]

OneAtATime == \A c, d \in Consoles : ~Idle(c) /\ ~Idle(d) => c = d

\* The copies are cleared before they are used.
Clean(c) == (pc[c] \in {"idle", "find"} => there[c] = Empty) /\ (pc[c] # "upload" => good[c])

CopyOfSave(c) == pc[c] \in {"find", "fetch", "upload", "prune"} => here[c] = save[c]
Fetched(c) ==
    /\ pc[c] = "fetch" => \A f \in Files \ todo[c] : there[c][f] = Folder(c)[f]
    /\ pc[c] = "write" => there[c] = Folder(c)
Sent(c) ==
    /\ pc[c] = "upload" => todo[c] \subseteq In(here[c])
    /\ pc[c] = "upload" /\ good[c]
          => \A f \in In(here[c]) \ todo[c] : Folder(c)[f] = here[c][f]
    /\ pc[c] = "prune" => \A f \in In(here[c]) : Folder(c)[f] = here[c][f]
SendsSave(c) == pc[c] = "upload" /\ job[c] = "sync" => here[c] # Empty
Equal(c) ==
    /\ pc[c] \in {"upload", "prune"} /\ job[c] = "sync" => mark[c] = here[c]
    /\ pc[c] = "write" /\ job[c] = "sync" => mark[c] = there[c]
    /\ pc[c] = "mark" => mark[c] = save[c] /\ mark[c] = Folder(c)

Faithful(c) == CopyOfSave(c) /\ Fetched(c) /\ Sent(c) /\ SendsSave(c) /\ Equal(c)
Copies(c) == Clean(c) /\ (c \notin blind => Faithful(c))
CopyInv == OneAtATime /\ \A c \in Consoles : Copies(c)

\* A job that is not blind after a look was not before, and looked right.
LEMMA SeesRight ==
    ASSUME NEW c \in Consoles, NEW right, Sees(c, right), c \notin blind'
    PROVE  right /\ c \notin blind
BY DEF Sees, faults

\* A step of one console while the others rest.
LEMMA OthersRest ==
    ASSUME NEW c \in Consoles, CopyInv, \A d \in Consoles \ {c} : Idle(d),
           \A d \in Consoles \ {c} : pc'[d] = pc[d] /\ there'[d] = there[d] /\ good'[d] = good[d],
           Copies(c)'
    PROVE  CopyInv'
<1>1. ASSUME NEW d \in Consoles \ {c} PROVE Idle(d)' /\ Copies(d)'
  <2>1. Idle(d) /\ Idle(d)' /\ there[d] = Empty /\ good[d] /\ there'[d] = Empty /\ good'[d]
    BY DEF CopyInv, Copies, Clean, Idle
  <2>2. QED
    BY <2>1 DEF Copies, Clean, Faithful, CopyOfSave, Fetched, Sent, SendsSave, Equal, Idle
<1>2. OneAtATime'
  BY <1>1 DEF OneAtATime
<1>3. QED
  BY <1>1, <1>2 DEF CopyInv

LEMMA OthersIdle ==
    ASSUME CopyInv, NEW c \in Consoles, ~Idle(c) PROVE \A d \in Consoles \ {c} : Idle(d)
BY DEF CopyInv, OneAtATime

LEMMA ReturnCopies ==
    ASSUME NEW c \in Consoles, CopyInv, LocalTypes, ~Idle(c), Return(c) PROVE CopyInv'
<1>1. pc'[c] = "idle" /\ there'[c] = Empty /\ good'[c]
  BY DEF Return, LocalTypes
<1>2. Copies(c)'
  BY <1>1 DEF Copies, Clean, Faithful, CopyOfSave, Fetched, Sent, SendsSave, Equal
<1>3. \A d \in Consoles \ {c} : pc'[d] = pc[d] /\ there'[d] = there[d] /\ good'[d] = good[d]
  BY DEF Return, LocalTypes
<1>4. QED
  BY <1>2, <1>3, OthersRest, OthersIdle

LEMMA GoFrame ==
    ASSUME NEW c \in Consoles, LocalTypes, NEW l, NEW t, NEW m, Go(c, l, t, m)
    PROVE  /\ \A d \in Consoles \ {c} : pc'[d] = pc[d] /\ there'[d] = there[d] /\ good'[d] = good[d]
           /\ pc'[c] = l /\ todo'[c] = t /\ mark'[c] = m
           /\ UNCHANGED <<job, here, there, good>>
BY DEF Go, LocalTypes

\* A job that goes on need only be faithful if it is not blind.
LEMMA GoCopies ==
    ASSUME NEW c \in Consoles, CopyInv, LocalTypes, ~Idle(c), NEW l, NEW t, NEW m,
           Go(c, l, t, m), l \notin {"idle", "find"}, good[c],
           c \notin blind' => Faithful(c)'
    PROVE  CopyInv'
<1>1. Copies(c)'
  BY GoFrame DEF Copies, Clean
<1>2. QED
  BY <1>1, GoFrame, OthersRest, OthersIdle

\* Two trees that agree on every file are the same.
LEMMA SameTree ==
    ASSUME NEW t \in Trees, NEW u \in Trees, \A f \in Files : t[f] = u[f] PROVE t = u
BY DEF Trees

\* A job that has taken all it was shown, and is not blind, has the folder.
LEMMA HasFolder ==
    ASSUME DataTypes, LocalTypes, NEW c \in Consoles, Faithful(c),
           pc[c] = "fetch", todo[c] = {}
    PROVE  there[c] = Folder(c) /\ here[c] = save[c]
BY SameTree DEF Faithful, CopyOfSave, Fetched, DataTypes, LocalTypes, Folder

\* What is left in the folder once all that is to go is gone.
LEMMA PrunedAll ==
    ASSUME LocalTypes, NEW c \in Consoles, Faithful(c), pc[c] = "prune"
    PROVE  Pruned(c, {}, {}) = here[c]
<1>1. here[c] \in Trees
  BY DEF LocalTypes
<1>2. \A f \in Files : (IF f \in In(here[c]) THEN cloud[active[c]][f] ELSE 0) = here[c][f]
  BY <1>1 DEF Faithful, Sent, Folder, In
<1>3. Pruned(c, {}, {}) = [f \in Files |-> IF f \in In(here[c]) THEN cloud[active[c]][f] ELSE 0]
  BY DEF Pruned
<1>4. QED
  BY <1>1, <1>2, <1>3 DEF Trees

LEMMA InitCopies == Init => CopyInv
BY DEF Init, CopyInv, OneAtATime, Copies, Clean, Faithful, CopyOfSave, Fetched, Sent, SendsSave,
   Equal, Idle

LEMMA BeginCopies ==
    ASSUME ~Overlap, LocalTypes, CopyInv, NEW c \in Consoles,
           NEW j \in {"sync", "restore", "backup"}, Begin(c, j)
    PROVE  CopyInv'
<1> USE DEF data, ghosts, local
<1>1. PICK t \in IF j = "restore" THEN {save[c]} ELSE Mixed :
        /\ here' = [here EXCEPT ![c] = t]
        /\ todo' = [todo EXCEPT ![c] = IF j = "backup" THEN In(t) ELSE {}]
        /\ IF t = save[c]
             THEN blind' = blind \ {c} /\ UNCHANGED <<mishaps, harm>>
             ELSE Sees(c, FALSE)
  BY DEF Begin
<1>2. /\ \A d \in Consoles : Idle(d)
      /\ pc' = [pc EXCEPT ![c] = IF j = "backup" THEN "upload" ELSE "find"]
      /\ job' = [job EXCEPT ![c] = j]
      /\ UNCHANGED <<save, active, cloud, there, good>>
  BY DEF Begin
<1>3. there'[c] = Empty /\ good'[c] /\ here'[c] = t
  BY <1>1, <1>2 DEF CopyInv, Copies, Clean, Idle, LocalTypes
<1>4. c \notin blind' => t = save[c]
  BY <1>1, SeesRight
<1>5. CASE j = "backup"
  <2>1. pc'[c] = "upload" /\ job'[c] # "sync" /\ todo'[c] = In(here'[c])
    BY <1>1, <1>2, <1>3, <1>5 DEF LocalTypes
  <2>2. Copies(c)'
    BY <1>2, <1>3, <1>4, <2>1
       DEF Copies, Clean, Faithful, CopyOfSave, Fetched, Sent, SendsSave, Equal, In
  <2>3. QED
    BY <1>2, <2>2, OthersRest DEF LocalTypes
<1>6. CASE j # "backup"
  <2>1. pc'[c] = "find"
    BY <1>2, <1>6 DEF LocalTypes
  <2>2. Copies(c)'
    BY <1>2, <1>3, <1>4, <2>1
       DEF Copies, Clean, Faithful, CopyOfSave, Fetched, Sent, SendsSave, Equal
  <2>3. QED
    BY <1>2, <2>2, OthersRest DEF LocalTypes
<1>7. QED
  BY <1>5, <1>6

LEMMA FindCopies ==
    ASSUME LocalTypes, CopyInv, NEW c \in Consoles, Find(c) PROVE CopyInv'
<1> USE DEF data, ghosts, local
<1>1. /\ pc[c] = "find" /\ pc' = [pc EXCEPT ![c] = "fetch"]
      /\ UNCHANGED <<save, active, cloud, job, here, mark, good>>
      /\ \A d \in Consoles \ {c} : there'[d] = there[d]
  BY DEF Find, LocalTypes
<1>2. pc'[c] = "fetch" /\ good'[c] /\ there[c] = Empty
  BY <1>1 DEF CopyInv, Copies, Clean, LocalTypes
<1>3. ASSUME c \notin blind'
      PROVE  /\ c \notin blind
             /\ \A f \in Files \ todo'[c] : there'[c][f] = cloud[active[c]][f]
  <2>1. ASSUME NEW t \in Mixed, there' = [there EXCEPT ![c] = t],
               todo' = [todo EXCEPT ![c] = In(cloud[active[c]])], Sees(c, t = Empty)
        PROVE  /\ c \notin blind
               /\ \A f \in Files \ todo'[c] : there'[c][f] = cloud[active[c]][f]
    <3>1. c \notin blind /\ t = Empty
      BY <1>3, <2>1, SeesRight
    <3>2. there'[c] = Empty /\ todo'[c] = In(cloud[active[c]])
      BY <2>1, <3>1 DEF LocalTypes
    <3>3. \A f \in Files \ In(cloud[active[c]]) : Empty[f] = cloud[active[c]][f]
      BY DEF In, Empty
    <3>4. QED
      BY <3>1, <3>2, <3>3
  <2>2. ASSUME UNCHANGED there, Sees(c, cloud[active[c]] = Empty)
        PROVE  /\ c \notin blind
               /\ \A f \in Files \ todo'[c] : there'[c][f] = cloud[active[c]][f]
    BY <1>2, <1>3, <2>2, SeesRight
  <2>3. QED
    BY <2>1, <2>2 DEF Find
<1>4. Copies(c)'
  BY <1>1, <1>2, <1>3
     DEF CopyInv, Copies, Clean, Faithful, CopyOfSave, Fetched, Sent, SendsSave, Equal, Folder
<1>5. QED
  BY <1>1, <1>4, OthersRest, OthersIdle DEF Idle, LocalTypes

LEMMA FetchCopies ==
    ASSUME DataTypes, LocalTypes, CopyInv, NEW c \in Consoles, FetchFile(c) PROVE CopyInv'
<1> USE DEF data, ghosts, local, Folder
<1>1. PICK f \in todo[c] :
        /\ todo' = [todo EXCEPT ![c] = @ \ {f}]
        /\ there' = [there EXCEPT ![c][f] = cloud[active[c]][f]]
  BY DEF FetchFile
<1>2. pc[c] = "fetch" /\ UNCHANGED <<save, active, cloud, pc, job, here, mark, good, blind>>
  BY DEF FetchFile, faults
<1>3. /\ todo'[c] = todo[c] \ {f} /\ there'[c] = [there[c] EXCEPT ![f] = Folder(c)[f]]
      /\ there[c] \in Trees /\ \A d \in Consoles \ {c} : there'[d] = there[d]
  BY <1>1 DEF LocalTypes
<1>4. c \notin blind => \A g \in Files \ todo'[c] : there'[c][g] = Folder(c)[g]
  BY <1>2, <1>3 DEF CopyInv, Copies, Faithful, Fetched, Trees
<1>5. Copies(c)'
  BY <1>2, <1>4
     DEF CopyInv, Copies, Clean, Faithful, CopyOfSave, Fetched, Sent, SendsSave, Equal
<1>6. QED
  BY <1>2, <1>3, <1>5, OthersRest, OthersIdle DEF Idle

LEMMA DecideCopies ==
    ASSUME DataTypes, LocalTypes, CopyInv, NEW c \in Consoles, Decide(c) PROVE CopyInv'
<1> USE DEF data, ghosts, Folder
<1>1. PICK l \in Looks(here[c]), r \in Looks(there[c]) :
          /\ Sees(c, l = Right(here[c]) /\ r = Right(there[c]))
          /\ Decided(c, l, r)
  BY DecideCases
<1>2. /\ pc[c] = "fetch" /\ todo[c] = {} /\ job[c] = "sync" /\ ~Idle(c) /\ good[c]
      /\ UNCHANGED <<save, active, cloud>>
  BY DEF Decide, Idle, CopyInv, Copies, Clean
<1>3. ASSUME c \notin blind'
      PROVE  /\ there[c] = Folder(c) /\ here[c] = save[c]
             /\ l.print = here[c] /\ (l.none <=> here[c] = Empty) /\ r.print = there[c]
  <2>1. c \notin blind /\ l = Right(here[c]) /\ r = Right(there[c])
    BY <1>1, <1>3, SeesRight
  <2>2. Faithful(c)
    BY <2>1 DEF CopyInv, Copies
  <2>3. QED
    BY <1>2, <2>1, <2>2, HasFolder, LooksTypes DEF LocalTypes
<1>4. ASSUME NEW p, NEW t, NEW m, Go(c, p, t, m), p \in {"mark", "write", "upload"},
             c \notin blind' =>
                /\ p = "mark" => l.print = r.print /\ m = l.print
                /\ p = "write" => m = r.print
                /\ p = "upload" => ~l.none /\ t = In(here[c]) /\ m = l.print
      PROVE  CopyInv'
  <2>1. c \notin blind' => Faithful(c)'
    BY <1>2, <1>3, <1>4, GoFrame
       DEF Faithful, CopyOfSave, Fetched, Sent, SendsSave, Equal, Empty, In
  <2>2. QED
    BY <1>2, <1>4, <2>1, GoCopies
<1>5. QED
  BY <1>1, <1>2, <1>4, ReturnCopies DEF Decided

LEMMA DecideRestoreCopies ==
    ASSUME DataTypes, LocalTypes, CopyInv, NEW c \in Consoles, DecideRestore(c) PROVE CopyInv'
<1> USE DEF data, ghosts, Folder
<1>1. PICK r \in Looks(there[c]) :
          /\ Sees(c, r = Right(there[c]))
          /\ \/ r.none /\ Return(c)
             \/ ~r.none /\ r.print = save[c] /\ Go(c, "mark", {}, save[c])
             \/ ~r.none /\ Go(c, "write", {}, Empty)
  BY DEF DecideRestore
<1>2. /\ pc[c] = "fetch" /\ todo[c] = {} /\ job[c] # "sync" /\ ~Idle(c) /\ good[c]
      /\ UNCHANGED <<save, active, cloud>>
  BY DEF DecideRestore, Idle, CopyInv, Copies, Clean
<1>3. c \notin blind' => there[c] = Folder(c) /\ r.print = there[c]
  BY <1>1, <1>2, SeesRight, HasFolder, LooksTypes DEF CopyInv, Copies, LocalTypes
<1>4. CASE Return(c)
  BY <1>2, <1>4, ReturnCopies
<1>5. CASE r.print = save[c] /\ Go(c, "mark", {}, save[c])
  <2>1. c \notin blind' => Faithful(c)'
    BY <1>2, <1>3, <1>5, GoFrame
       DEF Faithful, CopyOfSave, Fetched, Sent, SendsSave, Equal
  <2>2. QED
    BY <1>2, <1>5, <2>1, GoCopies
<1>6. CASE Go(c, "write", {}, Empty)
  <2>1. c \notin blind' => Faithful(c)'
    BY <1>2, <1>3, <1>6, GoFrame
       DEF Faithful, CopyOfSave, Fetched, Sent, SendsSave, Equal
  <2>2. QED
    BY <1>2, <1>6, <2>1, GoCopies
<1>7. QED
  BY <1>1, <1>4, <1>5, <1>6

LEMMA UploadCopies ==
    ASSUME DataTypes, LocalTypes, CopyInv, NEW c \in Consoles, UploadFile(c) PROVE CopyInv'
<1> USE DEF Folder
<1>1. PICK f \in todo[c] :
        /\ todo' = [todo EXCEPT ![c] = @ \ {f}]
        /\ \/ /\ cloud' = [cloud EXCEPT ![active[c]] = [cloud[active[c]] EXCEPT ![f] = here[c][f]]]
              /\ UNCHANGED good
           \/ /\ good' = [good EXCEPT ![c] = FALSE]
              /\ UNCHANGED cloud
  BY DEF UploadFile, SendTo
<1>2. pc[c] = "upload" /\ UNCHANGED <<save, active, job, pc, here, there, mark, blind>>
  BY DEF UploadFile
<1>3. /\ todo'[c] = todo[c] \ {f} /\ f \in Files
      /\ \A d \in Consoles \ {c} : good'[d] = good[d]
      /\ \/ Folder(c)' = [Folder(c) EXCEPT ![f] = here[c][f]] /\ good'[c] = good[c]
         \/ good'[c] = FALSE
  BY <1>1, <1>2 DEF LocalTypes, DataTypes
<1>4. ASSUME c \notin blind, good'[c], NEW g \in In(here[c]) \ todo'[c]
      PROVE  Folder(c)'[g] = here[c][g]
  <2>1. Folder(c)' = [Folder(c) EXCEPT ![f] = here[c][f]] /\ good[c]
    BY <1>3, <1>4
  <2>2. g # f => Folder(c)[g] = here[c][g]
    BY <1>2, <1>3, <1>4, <2>1 DEF CopyInv, Copies, Faithful, Sent
  <2>3. DOMAIN Folder(c) = Files /\ g \in Files
    BY <1>4 DEF DataTypes, Trees, In
  <2> HIDE DEF Folder
  <2>4. QED
    BY <2>1, <2>2, <2>3
<1>5. Copies(c)'
  BY <1>2, <1>3, <1>4
     DEF CopyInv, Copies, Clean, Faithful, CopyOfSave, Fetched, Sent, SendsSave, Equal
<1>6. QED
  BY <1>2, <1>3, <1>5, OthersRest, OthersIdle DEF Idle

LEMMA UploadEndsCopies ==
    ASSUME DataTypes, LocalTypes, CopyInv, NEW c \in Consoles, UploadEnds(c) PROVE CopyInv'
<1> USE DEF data, ghosts, Folder
<1>1. pc[c] = "upload" /\ ~Idle(c) /\ UNCHANGED <<save, active, cloud>>
  BY DEF UploadEnds, Idle
<1>2. CASE Return(c)
  BY <1>1, <1>2, ReturnCopies
<1>3. CASE good[c] /\ Go(c, "prune", {}, mark[c]) /\ Sees(c, todo[c] = {})
  <2>1. c \notin blind' => c \notin blind /\ todo[c] = {}
    BY <1>3, SeesRight
  <2>2. c \notin blind' => Faithful(c)'
    BY <1>1, <1>3, <2>1, GoFrame
       DEF CopyInv, Copies, Faithful, CopyOfSave, Fetched, Sent, SendsSave, Equal
  <2>3. QED
    BY <1>1, <1>3, <2>2, GoCopies
<1>4. QED
  BY <1>2, <1>3 DEF UploadEnds

LEMMA PruneCopies ==
    ASSUME DataTypes, LocalTypes, CopyInv, NEW c \in Consoles, Prune(c) PROVE CopyInv'
<1> USE DEF Folder
<1>1. PICK unseen \in SUBSET In(here[c]), kept \in SUBSET (In(cloud[active[c]]) \ In(here[c])) :
        /\ SendTo(c, Pruned(c, unseen, kept))
        /\ IF kept = {} /\ job[c] = "sync" THEN Go(c, "mark", {}, mark[c]) ELSE Return(c)
        /\ PruneFaults(c, unseen, kept)
  BY DEF Prune
<1>2. /\ pc[c] = "prune" /\ ~Idle(c) /\ good[c] /\ UNCHANGED <<save, active>>
      /\ active[c] \in Backends
  BY DEF Prune, Idle, CopyInv, Copies, Clean, DataTypes
<1>3. CASE kept = {} /\ job[c] = "sync"
  <2>1. Go(c, "mark", {}, mark[c])
    BY <1>1, <1>3
  <2>2. ASSUME c \notin blind' PROVE Faithful(c)'
    <3>1. unseen = {} /\ c \notin blind
      BY <1>1, <2>2 DEF PruneFaults
    <3>2. Faithful(c)
      BY <3>1 DEF CopyInv, Copies
    <3>3. cloud' = [cloud EXCEPT ![active[c]] = Pruned(c, {}, {})]
      BY <1>1, <1>3, <3>1 DEF SendTo
    <3>4. Folder(c)' = here[c]
      BY <1>2, <3>2, <3>3, PrunedAll DEF DataTypes
    <3>5. mark[c] = here[c] /\ here[c] = save[c]
      BY <1>2, <1>3, <3>2 DEF Faithful, Equal, CopyOfSave
    <3>6. pc'[c] = "mark" /\ mark'[c] = mark[c] /\ UNCHANGED here
      BY <2>1, GoFrame
    <3>7. QED
      BY <1>2, <3>4, <3>5, <3>6 DEF Faithful, CopyOfSave, Fetched, Sent, SendsSave, Equal
  <2>3. QED
    BY <1>2, <2>1, <2>2, GoCopies
<1>4. CASE ~(kept = {} /\ job[c] = "sync")
  BY <1>1, <1>2, <1>4, ReturnCopies
<1>5. QED
  BY <1>3, <1>4

LEMMA WriteCopies ==
    ASSUME DataTypes, LocalTypes, CopyInv, NEW c \in Consoles, Write(c) PROVE CopyInv'
<1> USE DEF Folder
<1>1. PICK got \in Parts(there[c]) :
        save' = [save EXCEPT ![c] = got] /\ Sees(c, got = there[c])
  BY DEF Write
<1>2. pc[c] = "write" /\ ~Idle(c) /\ good[c] /\ UNCHANGED <<active, cloud>>
  BY DEF Write, Idle, CopyInv, Copies, Clean
<1>3. CASE job[c] = "sync"
  <2>1. Go(c, "mark", {}, mark[c])
    BY <1>3 DEF Write
  <2>2. ASSUME c \notin blind' PROVE Faithful(c)'
    <3>1. got = there[c] /\ c \notin blind
      BY <1>1, <2>2, SeesRight
    <3>2. there[c] = Folder(c) /\ mark[c] = there[c]
      BY <1>2, <1>3, <3>1 DEF CopyInv, Copies, Faithful, Fetched, Equal
    <3>3. save'[c] = there[c] /\ pc'[c] = "mark" /\ mark'[c] = mark[c]
      BY <1>1, <2>1, <3>1, GoFrame DEF DataTypes
    <3>4. QED
      BY <1>2, <3>2, <3>3 DEF Faithful, CopyOfSave, Fetched, Sent, SendsSave, Equal
  <2>3. QED
    BY <1>2, <2>1, <2>2, GoCopies
<1>4. CASE job[c] # "sync"
  BY <1>2, <1>4, ReturnCopies DEF Write
<1>5. QED
  BY <1>3, <1>4

LEMMA NextCopies == ASSUME ~Overlap, Types, CopyInv, [Next]_vars PROVE CopyInv'
<1>0. DataTypes /\ LocalTypes
  BY DEF Types
<1>1. CASE UNCHANGED vars
  BY <1>1 DEF vars, data, ghosts, local, faults, CopyInv, OneAtATime, Copies, Clean, Faithful,
     CopyOfSave, Fetched, Sent, SendsSave, Equal, Idle, Folder
<1> SUFFICES ASSUME NEW c \in Consoles, Steps(c) PROVE CopyInv'
  BY <1>1, NextSteps
<1>2. CASE Play(c)
  <2>1. Idle(c) /\ UNCHANGED <<local, cloud, active, faults>>
        /\ \A d \in Consoles \ {c} : save'[d] = save[d]
    BY <1>0, <1>2 DEF Play, DataTypes
  <2>2. ASSUME NEW d \in Consoles PROVE Copies(d)'
    <3>1. Copies(d)
      BY DEF CopyInv
    <3>2. CASE d = c
      BY <2>1, <3>1, <3>2 DEF local, faults, Idle, Copies, Clean, Faithful, CopyOfSave, Fetched,
         Sent, SendsSave, Equal
    <3>3. CASE d # c
      BY <2>1, <3>1, <3>3 DEF local, faults, Copies, Clean, Faithful, CopyOfSave, Fetched, Sent,
         SendsSave, Equal, Folder
    <3>4. QED
      BY <3>2, <3>3
  <2>3. OneAtATime'
    BY <2>1 DEF local, CopyInv, OneAtATime, Idle
  <2>4. QED
    BY <2>2, <2>3 DEF CopyInv
<1>3. CASE FetchFails(c) \/ WriteFails(c) \/ Mark(c) \/ Crash(c)
  BY <1>0, <1>3, ReturnCopies DEF FetchFails, WriteFails, Mark, Crash, Idle
<1>4. QED
  BY <1>0, <1>2, <1>3, BeginCopies, FindCopies, FetchCopies, DecideCopies, DecideRestoreCopies,
     UploadCopies, UploadEndsCopies, PruneCopies, WriteCopies DEF Steps

\* What MarkerMeansEqual asserts of a step.
MarksEqual ==
    \A c \in Consoles : marker'[c] # marker[c] /\ c \notin blind =>
        marker'[c] = save[c] /\ marker'[c] = cloud[active[c]]

\* Only Mark writes a marker.
LEMMA MarksOnly ==
    ASSUME NEW c \in Consoles, Steps(c), ~Mark(c) PROVE UNCHANGED marker
BY DEF Steps, Play, Begin, Find, FetchFile, FetchFails, Decide, DecideRestore, UploadFile,
       UploadEnds, Prune, Write, WriteFails, Crash, data

LEMMA StepMarksEqual == ASSUME DataTypes, CopyInv, Next PROVE MarksEqual
<1> SUFFICES ASSUME NEW c \in Consoles, Mark(c) PROVE MarksEqual
  BY NextSteps, MarksOnly DEF MarksEqual
<1>1. c \notin blind => mark[c] = save[c] /\ mark[c] = cloud[active[c]]
  BY DEF CopyInv, Copies, Faithful, Equal, Folder, Mark
<1>2. marker' = marker \/ marker' = [marker EXCEPT ![c] = mark[c]]
  BY DEF Mark
<1>3. QED
  BY <1>1, <1>2 DEF MarksEqual, DataTypes

\* While consoles take turns at a game's folder, a marker is only ever written
\* when the console and the folder both hold that very tree, whatever failed, was
\* refused or was cut short before, in that job or in others: unless that very job
\* was blind, having taken an error for something that was not there.
THEOREM MarkersMeanEqual == ASSUME ~Overlap PROVE Spec => MarkerMeansEqual
<1> DEFINE IInv == Types /\ CopyInv
<1>1. Init => IInv
  BY InitTypes, InitCopies
<1>2. IInv /\ [Next]_vars => IInv'
  BY NextTypes, NextCopies
<1>3. IInv /\ [Next]_vars => [MarksEqual]_vars
  BY StepMarksEqual DEF Types
<1>4. QED
  BY <1>1, <1>2, <1>3, PTL DEF Spec, MarkerMeansEqual, MarksEqual

-----------------------------------------------------------------------------
(* The sessions behind a tree. *)

\* Progress, with the history as a parameter: Progress(t) is Led(hist, t).
Led(h, t) == UNION {h[t[f]] : f \in In(t)}

LEMMA LedOfEmpty == \A h : Led(h, Empty) = {}
BY DEF Led, In, Empty

\* A save the game wrote stands for the sessions that led to it.
LEMMA LedOfWhole ==
    ASSUME NEW h, NEW v \in Versions PROVE Led(h, Tree(v)) = h[v]
<1>1. FilesOf[v] \in (SUBSET Files) \ {{}} /\ v \in Nat \ {0}
  BY SyncAssumption DEF Versions
<1>2. In(Tree(v)) = FilesOf[v] /\ \A f \in FilesOf[v] : Tree(v)[f] = v
  BY <1>1 DEF In, Tree
<1>3. QED
  BY <1>1, <1>2 DEF Led

LEMMA LedOfFile ==
    ASSUME NEW h, NEW t \in Trees, NEW f \in In(t) PROVE h[t[f]] \subseteq Led(h, t)
BY DEF Led

\* A tree with the files of another, and perhaps more, stands for as much.
LEMMA LedGrows ==
    ASSUME NEW h, NEW t \in Trees, NEW u \in Trees, \A f \in In(t) : u[f] = t[f]
    PROVE  Led(h, t) \subseteq Led(h, u)
<1>1. \A f \in In(t) : f \in In(u)
  BY DEF In
<1>2. QED
  BY <1>1 DEF Led

LEMMA LedOfWrite ==
    ASSUME NEW h, NEW t \in Trees, NEW u \in Trees, NEW f \in Files
    PROVE  Led(h, [t EXCEPT ![f] = u[f]]) \subseteq Led(h, t) \cup Led(h, u)
<1> DEFINE w == [t EXCEPT ![f] = u[f]]
<1>1. ASSUME NEW g \in In(w) PROVE h[w[g]] \subseteq Led(h, t) \cup Led(h, u)
  <2>1. CASE g = f
    <3>1. w[g] = u[f] /\ f \in In(u)
      BY <1>1, <2>1 DEF In, Trees
    <3>2. QED
      BY <3>1, LedOfFile
  <2>2. CASE g # f
    <3>1. w[g] = t[g] /\ g \in In(t)
      BY <1>1, <2>2 DEF In, Trees
    <3>2. QED
      BY <3>1, LedOfFile
  <2>3. QED
    BY <2>1, <2>2
<1>2. QED
  BY <1>1 DEF Led

InUse(n, t) == \A f \in Files : t[f] <= n

\* Writing a new save changes nothing about the ones there are.
LEMMA LedStill ==
    ASSUME NEW h \in [Versions -> SUBSET Versions], NEW n \in 0..MaxVer, NEW S,
           NEW t \in Trees, InUse(n, t)
    PROVE  Led([h EXCEPT ![n + 1] = S], t) = Led(h, t)
<1>1. \A f \in In(t) : t[f] \in Versions /\ t[f] # n + 1
  BY SyncAssumption DEF In, Trees, Versions, InUse
<1>2. \A f \in In(t) : [h EXCEPT ![n + 1] = S][t[f]] = h[t[f]]
  BY <1>1
<1>3. QED
  BY <1>2 DEF Led

\* What is copied of a tree is no newer than the tree.
LEMMA PartsInUse ==
    ASSUME NEW n \in Nat, NEW t \in Trees, InUse(n, t), NEW u \in Parts(t)
    PROVE  InUse(n, u)
<1>1. \A f \in Files : u[f] = t[f] \/ u[f] = 0
  BY DEF Parts, In
<1>2. QED
  BY <1>1 DEF InUse

LEMMA MixedInUse ==
    ASSUME NEW t \in Mixed, played \in Nat PROVE t \in Trees /\ InUse(played, t)
<1>1. \A f \in Files : t[f] = 0 \/ t[f] <= played
  BY DEF Mixed, In
<1>2. QED
  BY <1>1 DEF Mixed, InUse

-----------------------------------------------------------------------------
(* What a sync may overwrite. *)

VersionsWritten ==
    /\ \A c \in Consoles : InUse(played, save[c]) /\ InUse(played, here[c])
                           /\ InUse(played, there[c]) /\ InUse(played, mark[c])
                           /\ (marker[c] # NoMark => InUse(played, marker[c]))
    /\ \A b \in Backends : InUse(played, cloud[b])

\* Overwriting t by u loses nothing the user did not give up.
Kept(t, u) == Led(hist, t) \subseteq Led(hist, u) \cup given

\* What was equal when the marker was written is still behind both sides.
MarkerKept ==
    \A c \in Consoles : marker[c] # NoMark =>
        Kept(marker[c], save[c]) /\ Kept(marker[c], Folder(c))

\* A sync that has decided is about to overwrite something older.
DecidedWell(c) ==
    job[c] = "sync" =>
        /\ pc[c] = "write" => Kept(save[c], there[c])
        /\ pc[c] \in {"upload", "prune"} => Kept(Folder(c), here[c])
        /\ pc[c] = "upload" /\ there[c] = Empty
              => \A f \in Files : Folder(c)[f] \in {0, here[c][f]}

LossInv ==
    /\ VersionsWritten
    /\ "blind" \notin harm => MarkerKept /\ \A c \in Consoles : DecidedWell(c)

\* A sync that replaces a folder sends a save the game wrote, not a mixture of two
\* that an interrupted upload had left in a folder and a restore had taken from it.
SyncSendsWhole ==
    \A c \in Consoles :
        pc[c] = "upload" /\ job[c] = "sync" => Whole(here[c]) \/ there[c] = Empty

\* What NoSilentLoss asserts of a step nobody blind was before.
LosesNothing ==
    /\ \A c \in Consoles : Progress(save[c]) \subseteq Progress(save[c])' \cup given'
    /\ \A b \in Backends : Progress(cloud[b]) \subseteq Progress(cloud[b])' \cup given'

LEMMA LosesNothingIs ==
    LosesNothing <=>
        /\ \A c \in Consoles : Led(hist, save[c]) \subseteq Led(hist', save'[c]) \cup given'
        /\ \A b \in Backends : Led(hist, cloud[b]) \subseteq Led(hist', cloud'[b]) \cup given'
BY DEF LosesNothing, Progress, Led

\* Harm is never undone, and who was blind is blind until the next job.
LEMMA HarmGrows == ASSUME [Next]_vars PROVE harm \subseteq harm'
<1>1. CASE UNCHANGED vars
  BY <1>1 DEF vars, faults
<1> SUFFICES ASSUME NEW c \in Consoles, Steps(c) PROVE harm \subseteq harm'
  BY <1>1, NextSteps
<1>2. \A right : Sees(c, right) => harm \subseteq harm'
  BY DEF Sees, faults
<1>3. Stops(c) => harm \subseteq harm'
  BY DEF Stops
<1>4. CASE Decide(c) \/ DecideRestore(c) \/ Find(c)
  BY <1>2, <1>4 DEF Decide, DecideRestore, Find
<1>5. CASE UploadEnds(c) \/ Write(c) \/ Crash(c)
  BY <1>2, <1>3, <1>5 DEF UploadEnds, Write, Crash
<1>6. CASE Prune(c)
  BY <1>6 DEF Prune, PruneFaults
<1>7. ASSUME NEW j \in {"sync", "restore", "backup"}, Begin(c, j) PROVE harm \subseteq harm'
  BY <1>2, <1>7 DEF Begin
<1>8. CASE Play(c) \/ FetchFile(c) \/ FetchFails(c) \/ UploadFile(c) \/ WriteFails(c) \/ Mark(c)
  BY <1>8 DEF Play, FetchFile, FetchFails, UploadFile, WriteFails, Mark, faults
<1>9. QED
  BY <1>4, <1>5, <1>6, <1>7, <1>8 DEF Steps

LEMMA AllSee ==
    ASSUME Types, CopyInv, LossInv, [Next]_vars, "blind" \notin harm'
    PROVE  /\ blind = {} /\ "blind" \notin harm /\ MarkerKept
           /\ \A c \in Consoles : Faithful(c) /\ DecidedWell(c)
<1>1. "blind" \notin harm
  BY HarmGrows
<1>2. blind = {}
  BY <1>1 DEF Types, FaultTypes
<1>3. QED
  BY <1>1, <1>2 DEF CopyInv, Copies, LossInv

LEMMA SeesNothingElse ==
    ASSUME NEW c, NEW right, Sees(c, right), "blind" \notin harm' PROVE right
BY DEF Sees

LEMMA SendLosesNothing ==
    ASSUME DataTypes, NEW c \in Consoles, NEW t \in Trees, SendTo(c, t),
           UNCHANGED <<save, hist>>, job[c] = "sync" => Kept(Folder(c), t)
    PROVE  LosesNothing
<1>1. given \subseteq given'
  BY DEF SendTo
<1>2. cloud' = [cloud EXCEPT ![active[c]] = t] /\ active[c] \in Backends
  BY DEF SendTo, DataTypes
<1>3. Led(hist, Folder(c)) \subseteq Led(hist, t) \cup given'
  BY DEF SendTo, Kept, Folder, Progress, Led
<1>4. ASSUME NEW b \in Backends
      PROVE  Led(hist, cloud[b]) \subseteq Led(hist', cloud'[b]) \cup given'
  <2>1. CASE b = active[c]
    <3>1. cloud'[b] = t
      BY <1>2, <2>1 DEF DataTypes
    <3>2. QED
      BY <1>3, <2>1, <3>1 DEF Folder
  <2>2. CASE b # active[c]
    <3>1. cloud'[b] = cloud[b]
      BY <1>2, <2>2 DEF DataTypes
    <3>2. QED
      BY <3>1
  <2>3. QED
    BY <2>1, <2>2
<1>5. QED
  BY <1>4, LosesNothingIs

LEMMA UploadLosesNothing ==
    ASSUME DataTypes, LocalTypes, SyncSendsWhole,
           NEW c \in Consoles, Faithful(c), DecidedWell(c), UploadFile(c)
    PROVE  LosesNothing
<1>1. PICK f \in todo[c] :
        \/ SendTo(c, [cloud[active[c]] EXCEPT ![f] = here[c][f]])
        \/ UNCHANGED <<cloud, given>>
  BY DEF UploadFile
<1>2. pc[c] = "upload" /\ UNCHANGED <<save, hist>>
  BY DEF UploadFile
<1> DEFINE t == [cloud[active[c]] EXCEPT ![f] = here[c][f]]
<1>3. /\ f \in In(here[c]) /\ f \in Files /\ here[c] \in Trees /\ Folder(c) \in Trees
      /\ here[c][f] \in 0..MaxVer
  BY <1>2 DEF Faithful, Sent, DataTypes, LocalTypes, Folder, Trees
<1>4. t \in Trees /\ t[f] = here[c][f] /\ \A g \in Files \ {f} : t[g] = Folder(c)[g]
  BY <1>3, TreeTypes DEF Folder, Trees
<1>5. ASSUME job[c] = "sync" PROVE Kept(Folder(c), t)
  <2>1. /\ Kept(Folder(c), here[c])
        /\ there[c] = Empty => \A g \in Files : Folder(c)[g] \in {0, here[c][g]}
    BY <1>2, <1>5 DEF DecidedWell
  <2>2. CASE Whole(here[c])
    <3>1. PICK v \in Versions : here[c] = Tree(v)
      BY <2>2 DEF Whole
    <3>2. here[c][f] = v /\ f \in In(t)
      BY <1>3, <1>4, <3>1 DEF In, Tree
    <3>3. Led(hist, here[c]) \subseteq Led(hist, t)
      <4>1. Led(hist, here[c]) = hist[v] /\ t[f] = v
        BY <1>4, <3>1, <3>2, LedOfWhole
      <4> HIDE DEF t
      <4>2. hist[t[f]] \subseteq Led(hist, t)
        BY <1>4, <3>2, LedOfFile
      <4>3. QED
        BY <4>1, <4>2
    <3>4. QED
      BY <2>1, <3>3 DEF Kept
  <2>3. CASE there[c] = Empty
    <3>1. \A g \in In(Folder(c)) : t[g] = Folder(c)[g]
      BY <1>4, <2>1, <2>3 DEF In
    <3>2. QED
      BY <1>3, <1>4, <3>1, LedGrows DEF Kept
  <2>4. QED
    BY <1>2, <1>5, <2>2, <2>3 DEF SyncSendsWhole
<1>6. CASE UNCHANGED <<cloud, given>>
  BY <1>2, <1>6, LosesNothingIs
<1>7. QED
  BY <1>1, <1>2, <1>4, <1>5, <1>6, SendLosesNothing

LEMMA PruneLosesNothing ==
    ASSUME DataTypes, LocalTypes, "blind" \notin harm',
           NEW c \in Consoles, Faithful(c), DecidedWell(c), Prune(c)
    PROVE  LosesNothing
<1>1. PICK unseen \in SUBSET In(here[c]), kept \in SUBSET (In(cloud[active[c]]) \ In(here[c])) :
        SendTo(c, Pruned(c, unseen, kept)) /\ PruneFaults(c, unseen, kept)
  BY DEF Prune
<1> DEFINE u == Pruned(c, unseen, kept)
<1>2. pc[c] = "prune" /\ UNCHANGED <<save, hist>> /\ unseen = {}
  BY <1>1 DEF Prune, PruneFaults
<1>3. u \in Trees /\ here[c] \in Trees
  BY PrunedType DEF DataTypes, LocalTypes
<1>4. \A f \in In(here[c]) : u[f] = here[c][f]
  BY <1>2 DEF Faithful, Sent, Folder, In, Pruned
<1> HIDE DEF u
<1>5. job[c] = "sync" => Kept(Folder(c), u)
  <2>1. Led(hist, here[c]) \subseteq Led(hist, u)
    BY <1>3, <1>4, LedGrows
  <2>2. job[c] = "sync" => Kept(Folder(c), here[c])
    BY <1>2 DEF DecidedWell
  <2>3. QED
    BY <2>1, <2>2 DEF Kept
<1>6. SendTo(c, u)
  BY <1>1 DEF u
<1>7. QED
  BY <1>2, <1>3, <1>5, <1>6, SendLosesNothing

LEMMA PlayLosesNothing ==
    ASSUME DataTypes, VersionsWritten, NEW c \in Consoles, Play(c) PROVE LosesNothing
<1> DEFINE n == played
<1>1. /\ n \in 0..MaxVer /\ n + 1 \in Versions
      /\ save' = [save EXCEPT ![c] = Tree(n + 1)]
      /\ hist' = [hist EXCEPT ![n + 1] = Progress(save[c]) \cup {n + 1}]
      /\ UNCHANGED <<cloud, given>>
  BY SyncAssumption DEF Play, DataTypes, Versions
<1>2. ASSUME NEW t \in Trees, InUse(n, t) PROVE Led(hist', t) = Led(hist, t)
  BY <1>1, <1>2, LedStill DEF DataTypes
<1>3. Led(hist, save[c]) \subseteq Led(hist', save'[c])
  <2>1. save'[c] = Tree(n + 1) /\ hist'[n + 1] = Led(hist, save[c]) \cup {n + 1}
    BY <1>1 DEF DataTypes, Progress, Led
  <2>2. Led(hist', Tree(n + 1)) = hist'[n + 1]
    BY <1>1, LedOfWhole
  <2>3. QED
    BY <2>1, <2>2
<1>4. ASSUME NEW d \in Consoles \ {c} PROVE Led(hist, save[d]) = Led(hist', save'[d])
  <2>1. save'[d] = save[d] /\ save[d] \in Trees /\ InUse(n, save[d])
    BY <1>1 DEF DataTypes, VersionsWritten
  <2>2. QED
    BY <1>2, <2>1
<1>5. ASSUME NEW b \in Backends PROVE Led(hist, cloud[b]) = Led(hist', cloud'[b])
  <2>1. cloud'[b] = cloud[b] /\ cloud[b] \in Trees /\ InUse(n, cloud[b])
    BY <1>1 DEF DataTypes, VersionsWritten
  <2>2. QED
    BY <1>2, <2>1
<1>6. QED
  BY <1>3, <1>4, <1>5, LosesNothingIs

LEMMA WriteLosesNothing ==
    ASSUME DataTypes, "blind" \notin harm', NEW c \in Consoles, DecidedWell(c), Write(c)
    PROVE  LosesNothing
<1>1. PICK got \in Parts(there[c]) :
        /\ save' = [save EXCEPT ![c] = got]
        /\ given' = IF job[c] = "sync" THEN given
                    ELSE given \cup (Progress(save[c]) \ Progress(got))
        /\ Sees(c, got = there[c])
  BY DEF Write
<1>2. pc[c] = "write" /\ UNCHANGED <<cloud, hist>> /\ given \subseteq given' /\ got = there[c]
  BY <1>1, SeesNothingElse DEF Write
<1>3. Led(hist, save[c]) \subseteq Led(hist, there[c]) \cup given'
  <2>1. CASE job[c] = "sync"
    BY <1>2, <2>1 DEF DecidedWell, Kept
  <2>2. CASE job[c] # "sync"
    BY <1>1, <1>2, <2>2 DEF Progress, Led
  <2>3. QED
    BY <2>1, <2>2
<1>4. save'[c] = there[c] /\ \A d \in Consoles \ {c} : save'[d] = save[d]
  BY <1>1, <1>2 DEF DataTypes
<1>5. QED
  BY <1>2, <1>3, <1>4, LosesNothingIs

LEMMA StepLosesNothing ==
    ASSUME Types, CopyInv, LossInv, SyncSendsWhole, [Next]_vars, "blind" \notin harm'
    PROVE  LosesNothing
<1> USE DEF data, ghosts
<1>1. CASE UNCHANGED <<save, cloud, hist, given>>
  BY <1>1, LosesNothingIs
<1>2. ASSUME NEW c \in Consoles, Play(c) \/ UploadFile(c) \/ Prune(c) \/ Write(c)
      PROVE  LosesNothing
  BY <1>2, AllSee, PlayLosesNothing, UploadLosesNothing, PruneLosesNothing, WriteLosesNothing
     DEF Types, LossInv
<1>3. ASSUME NEW c \in Consoles, Steps(c), ~(Play(c) \/ UploadFile(c) \/ Prune(c) \/ Write(c))
      PROVE  UNCHANGED <<save, cloud, hist, given>>
  BY <1>3 DEF Steps, Begin, Find, FetchFile, FetchFails, Decide, DecideRestore, UploadEnds,
              WriteFails, Mark, Crash
<1>4. QED
  BY <1>1, <1>2, <1>3, NextSteps DEF vars

LEMMA InitLossInv == Init => LossInv
<1> SUFFICES ASSUME Init PROVE LossInv
  OBVIOUS
<1>1. VersionsWritten
  BY DEF Init, VersionsWritten, InUse, Empty
<1>2. MarkerKept /\ \A c \in Consoles : DecidedWell(c)
  BY DEF Init, MarkerKept, DecidedWell
<1>3. QED
  BY <1>1, <1>2 DEF LossInv

LEMMA NextVersionsWritten ==
    ASSUME DataTypes, LocalTypes, VersionsWritten, [Next]_vars PROVE VersionsWritten'
<1> USE DEF data, ghosts, local
<1>1. CASE UNCHANGED vars
  BY <1>1 DEF vars, VersionsWritten, InUse
<1>2. played \in Nat /\ InUse(played, Empty)
  BY SyncAssumption DEF DataTypes, InUse, Empty
<1>3. ASSUME NEW c \in Consoles, Return(c), UNCHANGED <<save, marker, played, cloud>>
      PROVE  VersionsWritten'
  BY <1>2, <1>3 DEF Return, VersionsWritten, InUse, LocalTypes
<1>4. ASSUME NEW c \in Consoles, NEW l, NEW t, NEW m, Go(c, l, t, m), InUse(played, m),
             UNCHANGED <<save, marker, played, cloud>>
      PROVE  VersionsWritten'
  BY <1>4 DEF Go, VersionsWritten, InUse, LocalTypes
<1> SUFFICES ASSUME NEW c \in Consoles, Steps(c) PROVE VersionsWritten'
  BY <1>1, NextSteps
<1>0. /\ active[c] \in Backends /\ InUse(played, cloud[active[c]]) /\ InUse(played, mark[c])
      /\ InUse(played, save[c]) /\ InUse(played, here[c]) /\ InUse(played, there[c])
      /\ here[c] \in Trees /\ there[c] \in Trees /\ cloud[active[c]] \in Trees
  BY DEF DataTypes, LocalTypes, VersionsWritten
<1>5. CASE Play(c)
  <2>1. played' = played + 1 /\ save' = [save EXCEPT ![c] = Tree(played + 1)]
        /\ UNCHANGED <<marker, cloud, here, there, mark>>
    BY <1>5 DEF Play
  <2>2. InUse(played', Tree(played + 1))
    BY <1>2, <2>1 DEF InUse, Tree
  <2>3. \A t \in Trees : InUse(played, t) => InUse(played', t)
    BY <1>2, <2>1, SyncAssumption DEF InUse, Trees
  <2>4. ASSUME NEW d \in Consoles
        PROVE  /\ InUse(played', save'[d]) /\ InUse(played', here[d]) /\ InUse(played', there[d])
               /\ InUse(played', mark[d])
               /\ marker[d] # NoMark => InUse(played', marker[d])
    <3>1. save'[d] = save[d] \/ save'[d] = Tree(played + 1)
      BY <2>1 DEF DataTypes
    <3>2. QED
      BY <2>2, <2>3, <3>1 DEF VersionsWritten, DataTypes, LocalTypes
  <2>5. \A b \in Backends : InUse(played', cloud[b])
    BY <2>3 DEF VersionsWritten, DataTypes
  <2>6. VersionsWritten' <=>
            /\ \A d \in Consoles : InUse(played', save'[d]) /\ InUse(played', here'[d])
                                   /\ InUse(played', there'[d]) /\ InUse(played', mark'[d])
                                   /\ (marker'[d] # NoMark => InUse(played', marker'[d]))
            /\ \A b \in Backends : InUse(played', cloud'[b])
    BY DEF VersionsWritten, InUse
  <2>7. QED
    BY <2>1, <2>4, <2>5, <2>6
<1>6. ASSUME NEW j \in {"sync", "restore", "backup"}, Begin(c, j) PROVE VersionsWritten'
  <2>1. UNCHANGED <<save, marker, cloud, played, there, mark>>
        /\ \E t \in IF j = "restore" THEN {save[c]} ELSE Mixed : here' = [here EXCEPT ![c] = t]
    BY <1>6 DEF Begin
  <2>2. InUse(played, here'[c]) /\ \A d \in Consoles \ {c} : here'[d] = here[d]
    BY <1>0, <1>2, <2>1, MixedInUse DEF LocalTypes
  <2>3. QED
    BY <2>1, <2>2 DEF VersionsWritten, InUse
<1>7. CASE Find(c)
  <2>1. UNCHANGED <<save, marker, cloud, played, here, mark>>
        /\ (UNCHANGED there \/ \E t \in Mixed : there' = [there EXCEPT ![c] = t])
    BY <1>7 DEF Find
  <2>2. InUse(played, there'[c]) /\ \A d \in Consoles \ {c} : there'[d] = there[d]
    BY <1>0, <1>2, <2>1, MixedInUse DEF LocalTypes
  <2>3. QED
    BY <2>1, <2>2 DEF VersionsWritten, InUse
<1>8. CASE FetchFile(c)
  <2>1. PICK f \in todo[c] : there' = [there EXCEPT ![c][f] = cloud[active[c]][f]]
    BY <1>8 DEF FetchFile
  <2>2. UNCHANGED <<save, marker, cloud, played, here, mark>> /\ f \in Files
    BY <1>8 DEF FetchFile, LocalTypes
  <2>3. /\ \A d \in Consoles \ {c} : there'[d] = there[d]
        /\ there'[c] = [there[c] EXCEPT ![f] = cloud[active[c]][f]]
    BY <2>1 DEF LocalTypes
  <2>4. \A g \in Files : there'[c][g] <= played
    BY <1>0, <2>2, <2>3 DEF InUse, Trees
  <2>5. QED
    BY <2>2, <2>3, <2>4 DEF VersionsWritten, InUse
<1>9. CASE FetchFails(c) \/ WriteFails(c) \/ Crash(c)
  BY <1>3, <1>9 DEF FetchFails, WriteFails, Crash
<1>10. CASE Decide(c)
  <2>1. PICK l \in Looks(here[c]), r \in Looks(there[c]) : Decided(c, l, r)
    BY <1>10, DecideCases
  <2>2. InUse(played, l.print) /\ InUse(played, r.print)
    BY <1>0, <1>2, LooksTypes, PartsInUse
  <2>3. UNCHANGED <<save, marker, played, cloud>>
    BY <1>10 DEF Decide
  <2>4. QED
    BY <1>3, <1>4, <2>1, <2>2, <2>3 DEF Decided
<1>11. CASE DecideRestore(c)
  <2>1. Return(c) \/ Go(c, "mark", {}, save[c]) \/ Go(c, "write", {}, Empty)
    BY <1>11 DEF DecideRestore
  <2>2. UNCHANGED <<save, marker, played, cloud>>
    BY <1>11 DEF DecideRestore
  <2>3. QED
    BY <1>0, <1>2, <1>3, <1>4, <2>1, <2>2
<1>12. CASE UploadFile(c)
  <2>1. PICK f \in todo[c] :
          \/ cloud' = [cloud EXCEPT ![active[c]] = [cloud[active[c]] EXCEPT ![f] = here[c][f]]]
          \/ UNCHANGED cloud
    BY <1>12 DEF UploadFile, SendTo
  <2>2. UNCHANGED <<save, marker, played, here, there, mark>> /\ f \in Files
    BY <1>12 DEF UploadFile, LocalTypes
  <2>3. ASSUME NEW b \in Backends PROVE InUse(played, cloud'[b])
    <3>1. CASE cloud'[b] = cloud[b]
      BY <3>1 DEF VersionsWritten
    <3>2. CASE cloud'[b] = [cloud[active[c]] EXCEPT ![f] = here[c][f]]
      BY <1>0, <2>2, <3>2 DEF InUse, Trees
    <3>3. QED
      BY <2>1, <3>1, <3>2 DEF DataTypes
  <2>4. QED
    BY <2>2, <2>3 DEF VersionsWritten, InUse
<1>13. CASE UploadEnds(c)
  BY <1>0, <1>3, <1>4, <1>13 DEF UploadEnds
<1>14. CASE Prune(c)
  <2>1. PICK unseen, kept :
          /\ cloud' = [cloud EXCEPT ![active[c]] = Pruned(c, unseen, kept)]
          /\ Return(c) \/ Go(c, "mark", {}, mark[c])
    BY <1>14 DEF Prune, SendTo
  <2>2. UNCHANGED <<save, marker, played>>
    BY <1>14 DEF Prune
  <2>3. InUse(played, Pruned(c, unseen, kept))
    BY <1>0, <1>2 DEF InUse, Pruned
  <2>4. ASSUME NEW b \in Backends PROVE InUse(played, cloud'[b])
    BY <2>1, <2>3 DEF DataTypes, VersionsWritten
  <2>5. \A d \in Consoles : /\ here'[d] \in {here[d], Empty} /\ there'[d] \in {there[d], Empty}
                            /\ mark'[d] \in {mark[d], Empty}
    BY <2>1 DEF Return, Go, LocalTypes
  <2>6. QED
    BY <1>2, <2>2, <2>4, <2>5 DEF VersionsWritten, InUse
<1>15. CASE Write(c)
  <2>1. PICK got \in Parts(there[c]) : save' = [save EXCEPT ![c] = got]
    BY <1>15 DEF Write
  <2>2. InUse(played, got)
    BY <1>0, <1>2, PartsInUse
  <2>3. UNCHANGED <<marker, cloud, played>>
        /\ \A d \in Consoles : save'[d] = save[d] \/ save'[d] = got
    BY <1>15, <2>1 DEF Write, DataTypes
  <2>4. \A d \in Consoles : /\ here'[d] \in {here[d], Empty} /\ there'[d] \in {there[d], Empty}
                            /\ mark'[d] \in {mark[d], Empty}
    BY <1>15 DEF Write, Return, Go, LocalTypes
  <2>5. QED
    BY <1>2, <2>2, <2>3, <2>4 DEF VersionsWritten, InUse
<1>16. CASE Mark(c)
  <2>1. UNCHANGED <<save, cloud, played>>
        /\ \A d \in Consoles : marker'[d] = marker[d] \/ marker'[d] = mark[d]
    BY <1>16 DEF Mark, DataTypes
  <2>2. \A d \in Consoles : /\ here'[d] \in {here[d], Empty} /\ there'[d] \in {there[d], Empty}
                            /\ mark'[d] \in {mark[d], Empty}
    BY <1>16 DEF Mark, Return, LocalTypes
  <2>3. QED
    BY <1>2, <2>1, <2>2 DEF VersionsWritten, InUse
<1>17. QED
  BY <1>5, <1>6, <1>7, <1>8, <1>9, <1>10, <1>11, <1>12, <1>13, <1>14, <1>15, <1>16 DEF Steps

\* Nothing rewrites the history of a save there is; what was given up stays so.
LEMMA HistoryStays ==
    ASSUME DataTypes, [Next]_vars
    PROVE  /\ \A t \in Trees : InUse(played, t) => Led(hist', t) = Led(hist, t)
           /\ given \subseteq given'
           /\ UNCHANGED active
<1> USE DEF data, ghosts
<1>1. ASSUME UNCHANGED hist, NEW t PROVE Led(hist', t) = Led(hist, t)
  BY <1>1
<1>2. CASE UNCHANGED vars
  BY <1>1, <1>2 DEF vars
<1> SUFFICES ASSUME NEW c \in Consoles, Steps(c)
             PROVE  /\ \A t \in Trees : InUse(played, t) => Led(hist', t) = Led(hist, t)
                    /\ given \subseteq given'
                    /\ UNCHANGED active
  BY <1>2, NextSteps
<1>3. UNCHANGED active /\ given \subseteq given'
  BY DEF Steps, Play, Begin, Find, FetchFile, FetchFails, Decide, DecideRestore, UploadFile,
         UploadEnds, Prune, SendTo, Write, WriteFails, Mark, Crash
<1>4. CASE Play(c)
  <2>1. hist' = [hist EXCEPT ![played + 1] = Progress(save[c]) \cup {played + 1}]
    BY <1>4 DEF Play
  <2>2. QED
    BY <1>3, <2>1, LedStill DEF DataTypes
<1>5. CASE ~Play(c)
  <2>1. UNCHANGED hist
    BY <1>5 DEF Steps, Begin, Find, FetchFile, FetchFails, Decide, DecideRestore, UploadFile,
                UploadEnds, Prune, Write, WriteFails, Mark, Crash
  <2>2. QED
    BY <1>1, <1>3, <2>1
<1>6. QED
  BY <1>4, <1>5

\* The bounds on what was lost compose: what t had is behind u, now as before.
LEMMA KeptStays ==
    ASSUME DataTypes, [Next]_vars, NEW t \in Trees, NEW u \in Trees, NEW w,
           InUse(played, t), Kept(t, u),
           Led(hist, u) \subseteq Led(hist', w) \cup given'
    PROVE  Led(hist', t) \subseteq Led(hist', w) \cup given'
BY HistoryStays DEF Kept

LEMMA NextMarkerKept ==
    ASSUME Types, CopyInv, LossInv, LosesNothing, [Next]_vars, "blind" \notin harm'
    PROVE  MarkerKept'
<1> USE DEF data, ghosts
<1>0. DataTypes /\ LocalTypes /\ MarkerKept /\ VersionsWritten /\ blind = {}
  BY AllSee DEF Types, LossInv
<1>1. MarkerKept' <=>
        \A c \in Consoles : marker'[c] # NoMark =>
            /\ Led(hist', marker'[c]) \subseteq Led(hist', save'[c]) \cup given'
            /\ Led(hist', marker'[c]) \subseteq Led(hist', cloud'[active'[c]]) \cup given'
  BY DEF MarkerKept, Kept, Led, Folder
<1>2. ASSUME NEW c \in Consoles, marker'[c] = marker[c], marker[c] # NoMark
      PROVE  /\ Led(hist', marker'[c]) \subseteq Led(hist', save'[c]) \cup given'
             /\ Led(hist', marker'[c]) \subseteq Led(hist', cloud'[active'[c]]) \cup given'
  <2> DEFINE t == marker[c]
  <2>1. /\ t \in Trees /\ InUse(played, t) /\ Kept(t, save[c]) /\ Kept(t, cloud[active[c]])
        /\ save[c] \in Trees /\ active[c] \in Backends /\ cloud[active[c]] \in Trees
    BY <1>0, <1>2 DEF DataTypes, VersionsWritten, MarkerKept, Folder
  <2>2. /\ Led(hist, save[c]) \subseteq Led(hist', save'[c]) \cup given'
        /\ Led(hist, cloud[active[c]]) \subseteq Led(hist', cloud'[active[c]]) \cup given'
        /\ active' = active
    BY <1>0, <2>1, LosesNothingIs, HistoryStays
  <2> HIDE DEF t
  <2>3. /\ Led(hist', t) \subseteq Led(hist', save'[c]) \cup given'
        /\ Led(hist', t) \subseteq Led(hist', cloud'[active[c]]) \cup given'
    BY <1>0, <2>1, <2>2, KeptStays
  <2>4. QED
    BY <1>2, <2>2, <2>3 DEF t
<1>3. ASSUME NEW c \in Consoles, marker'[c] # marker[c]
      PROVE  marker'[c] = save'[c] /\ marker'[c] = cloud'[active'[c]]
  <2>1. PICK d \in Consoles : Mark(d)
    BY <1>3, NextSteps, MarksOnly DEF vars
  <2>2. marker'[c] = save[c] /\ marker'[c] = cloud[active[c]]
    BY <1>0, <1>3, <2>1, NextSteps, StepMarksEqual DEF MarksEqual, Steps
  <2>3. UNCHANGED <<save, cloud, active>>
    BY <2>1 DEF Mark
  <2>4. QED
    BY <2>2, <2>3
<1>4. QED
  BY <1>1, <1>2, <1>3

LEMMA DecidedRest ==
    ASSUME NEW c \in Consoles, \A d \in Consoles \ {c} : Idle(d) /\ pc'[d] = pc[d],
           DecidedWell(c)'
    PROVE  \A d \in Consoles : DecidedWell(d)'
<1>1. ASSUME NEW d \in Consoles \ {c} PROVE pc'[d] = "idle"
  BY DEF Idle
<1>2. QED
  BY <1>1 DEF DecidedWell

LEMMA ReturnDecided ==
    ASSUME LocalTypes, CopyInv, NEW c \in Consoles, ~Idle(c), Return(c)
    PROVE  \A d \in Consoles : DecidedWell(d)'
<1>1. pc'[c] = "idle" /\ \A d \in Consoles \ {c} : pc'[d] = pc[d]
  BY DEF Return, LocalTypes
<1>2. DecidedWell(c)'
  BY <1>1 DEF DecidedWell
<1>3. QED
  BY <1>1, <1>2, DecidedRest, OthersIdle

LEMMA MarkDecided ==
    ASSUME LocalTypes, CopyInv, NEW c \in Consoles, ~Idle(c), NEW t, NEW m, Go(c, "mark", t, m)
    PROVE  \A d \in Consoles : DecidedWell(d)'
<1>1. pc'[c] = "mark" /\ \A d \in Consoles \ {c} : pc'[d] = pc[d]
  BY GoFrame
<1>2. DecidedWell(c)'
  BY <1>1 DEF DecidedWell
<1>3. QED
  BY <1>1, <1>2, DecidedRest, OthersIdle

LEMMA DecideWell ==
    ASSUME DataTypes, LocalTypes, CopyInv, MarkerKept, "blind" \notin harm',
           NEW c \in Consoles, Faithful(c), Decide(c)
    PROVE  \A d \in Consoles : DecidedWell(d)'
<1> USE DEF data, ghosts, Folder
<1>1. PICK l \in Looks(here[c]), r \in Looks(there[c]) :
        /\ Sees(c, l = Right(here[c]) /\ r = Right(there[c]))
        /\ Decided(c, l, r)
  BY DecideCases
<1>2. /\ pc[c] = "fetch" /\ todo[c] = {} /\ ~Idle(c) /\ UNCHANGED <<save, active, cloud, hist, given>>
      /\ here[c] = save[c] /\ there[c] = cloud[active[c]]
  BY HasFolder DEF Decide, Idle
<1>3. /\ l.print = here[c] /\ (l.none <=> here[c] = Empty)
      /\ r.print = there[c] /\ (r.none <=> there[c] = Empty)
  BY <1>1, SeesNothingElse, LooksTypes DEF LocalTypes
<1>4. marker[c] # NoMark => Kept(marker[c], here[c]) /\ Kept(marker[c], there[c])
  BY <1>2 DEF MarkerKept
<1>5. Kept(Empty, there[c]) /\ Kept(Empty, here[c])
  BY LedOfEmpty DEF Kept
<1>6. ASSUME NEW p, NEW t, NEW m, Go(c, p, t, m), p \in {"write", "upload"},
             p = "write" => Kept(save[c], there[c]),
             p = "upload" => Kept(cloud[active[c]], here[c])
      PROVE  \A d \in Consoles : DecidedWell(d)'
  <2>1. /\ \A d \in Consoles \ {c} : pc'[d] = pc[d]
        /\ pc'[c] = p /\ UNCHANGED <<job, here, there>>
    BY <1>6, GoFrame
  <2>2. there[c] = Empty => \A f \in Files : cloud[active[c]][f] \in {0, here[c][f]}
    BY <1>2 DEF Empty
  <2>3. DecidedWell(c)'
    BY <1>2, <1>6, <2>1, <2>2 DEF DecidedWell, Kept, Led, Empty
  <2>4. QED
    BY <1>2, <2>1, <2>3, DecidedRest, OthersIdle
<1>7. CASE Return(c)
  BY <1>2, <1>7, ReturnDecided
<1>8. CASE Go(c, "mark", {}, l.print)
  BY <1>2, <1>8, MarkDecided
<1>9. CASE (l.none \/ (marker[c] # NoMark /\ l.print = marker[c])) /\ Go(c, "write", {}, r.print)
  <2>1. Kept(save[c], there[c])
    BY <1>2, <1>3, <1>4, <1>5, <1>9
  <2>2. QED
    BY <1>6, <1>9, <2>1
<1>10. CASE /\ r.none \/ (marker[c] # NoMark /\ r.print = marker[c])
            /\ Go(c, "upload", In(here[c]), l.print)
  <2>1. Kept(cloud[active[c]], here[c])
    BY <1>2, <1>3, <1>4, <1>5, <1>10
  <2>2. QED
    BY <1>6, <1>10, <2>1
<1>11. QED
  BY <1>1, <1>7, <1>8, <1>9, <1>10 DEF Decided

LEMMA NextDecidedWell ==
    ASSUME ~Overlap, Types, CopyInv, LossInv, [Next]_vars, "blind" \notin harm'
    PROVE  \A c \in Consoles : DecidedWell(c)'
<1> USE DEF data, ghosts, local, Folder
<1>0. /\ DataTypes /\ LocalTypes /\ MarkerKept /\ VersionsWritten
      /\ \A d \in Consoles : Faithful(d) /\ DecidedWell(d)
  BY AllSee DEF Types, LossInv
<1>1. CASE UNCHANGED vars
  BY <1>0, <1>1 DEF vars, DecidedWell, Kept, Led, Empty
<1> SUFFICES ASSUME NEW c \in Consoles, Steps(c)
             PROVE  \A d \in Consoles : DecidedWell(d)'
  BY <1>1, NextSteps
<1>a. active[c] \in Backends /\ DecidedWell(c)
  BY <1>0 DEF DataTypes
<1>2. CASE Play(c)
  <2>1. Idle(c) /\ UNCHANGED <<local, active, cloud, given>>
        /\ \A d \in Consoles \ {c} : save'[d] = save[d]
    BY <1>0, <1>2 DEF Play, DataTypes
  <2>2. ASSUME NEW t \in Trees, InUse(played, t) PROVE Led(hist', t) = Led(hist, t)
    BY <1>0, <2>2, HistoryStays, <1>2, NextSteps
  <2>3. ASSUME NEW d \in Consoles PROVE DecidedWell(d)'
    <3>1. CASE d = c
      BY <2>1, <3>1 DEF DecidedWell, Idle
    <3>2. CASE d # c
      <4>1. DecidedWell(d) /\ active[d] \in Backends
        BY <1>0 DEF DataTypes
      <4>2. /\ Led(hist', save[d]) = Led(hist, save[d])
            /\ Led(hist', there[d]) = Led(hist, there[d])
            /\ Led(hist', here[d]) = Led(hist, here[d])
            /\ Led(hist', cloud[active[d]]) = Led(hist, cloud[active[d]])
        BY <1>0, <2>2, <4>1 DEF VersionsWritten, DataTypes, LocalTypes
      <4>3. DecidedWell(d)' <=>
              (job'[d] = "sync" =>
                /\ pc'[d] = "write" => Led(hist', save'[d]) \subseteq Led(hist', there'[d]) \cup given'
                /\ pc'[d] \in {"upload", "prune"} =>
                      Led(hist', cloud'[active'[d]]) \subseteq Led(hist', here'[d]) \cup given'
                /\ pc'[d] = "upload" /\ there'[d] = Empty
                      => \A f \in Files : cloud'[active'[d]][f] \in {0, here'[d][f]})
        BY DEF DecidedWell, Kept, Led, Empty
      <4>4. save'[d] = save[d]
        BY <2>1, <3>2
      <4>5. QED
        BY <2>1, <4>1, <4>2, <4>3, <4>4 DEF DecidedWell, Kept
    <3>3. QED
      BY <3>1, <3>2
  <2>4. QED
    BY <2>3
<1>3. ASSUME NEW j \in {"sync", "restore", "backup"}, Begin(c, j)
      PROVE  \A d \in Consoles : DecidedWell(d)'
  <2>1. /\ \A d \in Consoles : Idle(d)
        /\ pc' = [pc EXCEPT ![c] = IF j = "backup" THEN "upload" ELSE "find"]
        /\ job' = [job EXCEPT ![c] = j]
    BY <1>3 DEF Begin
  <2>2. DecidedWell(c)' /\ \A d \in Consoles \ {c} : pc'[d] = pc[d]
    BY <1>0, <2>1 DEF LocalTypes, DecidedWell
  <2>3. QED
    BY <2>1, <2>2, DecidedRest
<1>4. CASE Find(c) \/ FetchFile(c)
  <2>1. ~Idle(c) /\ pc'[c] = "fetch" /\ \A d \in Consoles \ {c} : pc'[d] = pc[d]
    BY <1>0, <1>4 DEF Find, FetchFile, Idle, LocalTypes
  <2>2. DecidedWell(c)'
    BY <2>1 DEF DecidedWell
  <2>3. QED
    BY <2>1, <2>2, DecidedRest, OthersIdle
<1>5. CASE FetchFails(c) \/ WriteFails(c) \/ Crash(c) \/ Mark(c)
  BY <1>0, <1>5, ReturnDecided DEF FetchFails, WriteFails, Crash, Mark, Idle
<1>6. CASE Decide(c)
  BY <1>0, <1>6, DecideWell
<1>7. CASE DecideRestore(c)
  <2>1. pc[c] = "fetch" /\ job[c] # "sync"
        /\ (Return(c) \/ Go(c, "mark", {}, save[c]) \/ Go(c, "write", {}, Empty))
    BY <1>7 DEF DecideRestore
  <2>2. CASE Go(c, "write", {}, Empty)
    <3>1. UNCHANGED job /\ \A d \in Consoles \ {c} : pc'[d] = pc[d]
      BY <1>0, <2>2, GoFrame
    <3>2. DecidedWell(c)'
      BY <2>1, <3>1 DEF DecidedWell
    <3>3. QED
      BY <2>1, <3>1, <3>2, DecidedRest, OthersIdle DEF Idle
  <2>3. QED
    BY <1>0, <2>1, <2>2, ReturnDecided, MarkDecided DEF Idle
<1>8. CASE UploadFile(c)
  <2>1. PICK f \in todo[c] :
          \/ /\ cloud' = [cloud EXCEPT ![active[c]] =
                     [cloud[active[c]] EXCEPT ![f] = here[c][f]]]
             /\ job[c] = "sync" => given' = given
          \/ UNCHANGED <<cloud, given>>
    BY <1>8 DEF UploadFile, SendTo
  <2>2. pc[c] = "upload" /\ UNCHANGED <<save, active, hist, job, pc, here, there>> /\ f \in Files
    BY <1>0, <1>8 DEF UploadFile, LocalTypes
  <2> DEFINE t == [cloud[active[c]] EXCEPT ![f] = here[c][f]]
  <2>3. /\ cloud[active[c]] \in Trees /\ here[c] \in Trees
        /\ cloud'[active[c]] = t \/ cloud'[active[c]] = cloud[active[c]]
    BY <1>0, <1>a, <2>1 DEF DataTypes, LocalTypes
  <2>4. job[c] = "sync" => Led(hist, cloud'[active[c]]) \subseteq Led(hist, here[c]) \cup given
    <3>1. Led(hist, t) \subseteq Led(hist, cloud[active[c]]) \cup Led(hist, here[c])
      BY <2>2, <2>3, LedOfWrite
    <3>2. job[c] = "sync" => Led(hist, cloud[active[c]]) \subseteq Led(hist, here[c]) \cup given
      BY <1>a, <2>2 DEF DecidedWell, Kept
    <3> HIDE DEF t
    <3>3. QED
      BY <2>3, <3>1, <3>2
  <2>5. job[c] = "sync" /\ there[c] = Empty
          => \A g \in Files : cloud'[active[c]][g] \in {0, here[c][g]}
    <3>1. \A g \in Files : t[g] = cloud[active[c]][g] \/ t[g] = here[c][g]
      BY <2>2, <2>3 DEF Trees
    <3> HIDE DEF t
    <3>2. QED
      BY <1>a, <2>2, <2>3, <3>1 DEF DecidedWell
  <2>6. job[c] = "sync" => given' = given
    BY <2>1
  <2>7. DecidedWell(c)'
    <3>1. DecidedWell(c)' <=>
            (job'[c] = "sync" =>
              /\ pc'[c] = "write" => Led(hist', save'[c]) \subseteq Led(hist', there'[c]) \cup given'
              /\ pc'[c] \in {"upload", "prune"} =>
                    Led(hist', cloud'[active'[c]]) \subseteq Led(hist', here'[c]) \cup given'
              /\ pc'[c] = "upload" /\ there'[c] = Empty
                    => \A g \in Files : cloud'[active'[c]][g] \in {0, here'[c][g]})
      BY DEF DecidedWell, Kept, Led, Empty
    <3>2. QED
      BY <2>2, <2>4, <2>5, <2>6, <3>1
  <2>8. QED
    BY <2>2, <2>7, DecidedRest, OthersIdle DEF Idle
<1>9. CASE UploadEnds(c)
  <2>1. pc[c] = "upload" /\ UNCHANGED <<save, active, cloud, hist, given>>
    BY <1>9 DEF UploadEnds
  <2>2. CASE Go(c, "prune", {}, mark[c])
    <3>1. pc'[c] = "prune" /\ UNCHANGED <<job, here, there>>
          /\ \A d \in Consoles \ {c} : pc'[d] = pc[d]
      BY <1>0, <2>2, GoFrame
    <3>2. DecidedWell(c)'
      BY <1>a, <2>1, <3>1 DEF DecidedWell, Kept, Led
    <3>3. QED
      BY <2>1, <3>1, <3>2, DecidedRest, OthersIdle DEF Idle
  <2>3. QED
    BY <1>0, <1>9, <2>1, <2>2, ReturnDecided DEF UploadEnds, Idle
<1>10. CASE Prune(c) \/ Write(c)
  <2>1. pc[c] \in {"prune", "write"} /\ (Return(c) \/ Go(c, "mark", {}, mark[c]))
    BY <1>10 DEF Prune, Write
  <2>2. QED
    BY <1>0, <2>1, ReturnDecided, MarkDecided DEF Idle
<1>11. QED
  BY <1>2, <1>3, <1>4, <1>5, <1>6, <1>7, <1>8, <1>9, <1>10 DEF Steps

\* While consoles take turns, and what a sync sends is a save the game wrote, it
\* never overwrites sessions on either side unless the user gave them up, whatever
\* failed or was cut short: until some job is blind.
THEOREM NothingLostSilently ==
    ASSUME ~Overlap PROVE Spec /\ []SyncSendsWhole => NoSilentLoss
<1> DEFINE IInv == Types /\ CopyInv /\ LossInv
           Loses == "blind" \notin harm' => LosesNothing
<1>1. Init => IInv
  BY InitTypes, InitCopies, InitLossInv
<1>2. IInv /\ SyncSendsWhole /\ [Next]_vars => Loses
  BY StepLosesNothing
<1>3. IInv /\ SyncSendsWhole /\ [Next]_vars => IInv'
  <2> SUFFICES ASSUME IInv, SyncSendsWhole, [Next]_vars PROVE IInv'
    OBVIOUS
  <2>1. Types' /\ CopyInv'
    BY NextTypes, NextCopies
  <2>2. VersionsWritten'
    BY NextVersionsWritten DEF LossInv, Types
  <2>3. "blind" \notin harm' => MarkerKept'
    BY <1>2, NextMarkerKept
  <2>4. "blind" \notin harm' => \A c \in Consoles : DecidedWell(c)'
    BY NextDecidedWell
  <2>5. QED
    BY <2>1, <2>2, <2>3, <2>4 DEF LossInv
<1>4. QED
  BY <1>1, <1>2, <1>3, PTL DEF Spec, NoSilentLoss, LosesNothing

-----------------------------------------------------------------------------
(* Where mixtures come from.  An upload that ends without having made the folder
   equal to what it sends, and a blind job, are their only sources: before either
   happens, no sync ever writes or sends anything but saves the game wrote. *)

Unbroken(t) == t = Empty \/ Whole(t)
Quiet(b) == \A c \in Consoles : Sending(c) => active[c] # b

\* Saves are whole, and so are the folders nobody is sending to.
WholeInv ==
    /\ \A c \in Consoles : Unbroken(save[c])
    /\ \A b \in Backends : Quiet(b) => Unbroken(cloud[b])

\* An upload ends with the folder equal to what it sends.
Finishes ==
    \A c \in Consoles : Sending(c) /\ pc'[c] = "idle" => cloud'[active[c]] = here[c]

LEMMA SendsElsewhere ==
    ASSUME DataTypes, [Next]_vars, NEW b \in Backends, Quiet(b) PROVE cloud'[b] = cloud[b]
<1> USE DEF data, ghosts
<1>1. CASE UNCHANGED cloud
  BY <1>1
<1>2. ASSUME NEW c \in Consoles, UploadFile(c) \/ Prune(c) PROVE cloud'[b] = cloud[b]
  <2>1. Sending(c)
    BY <1>2 DEF UploadFile, Prune, Sending
  <2>2. cloud' = cloud \/ \E t : cloud' = [cloud EXCEPT ![active[c]] = t]
    BY <1>2 DEF UploadFile, Prune, SendTo
  <2>3. active[c] # b
    BY <2>1 DEF Quiet
  <2>4. QED
    BY <2>2, <2>3 DEF DataTypes
<1>3. ASSUME NEW c \in Consoles, Steps(c), ~(UploadFile(c) \/ Prune(c)) PROVE UNCHANGED cloud
  BY <1>3 DEF Steps, Play, Begin, Find, FetchFile, FetchFails, Decide, DecideRestore, UploadEnds,
              Write, WriteFails, Mark, Crash
<1>4. QED
  BY <1>1, <1>2, <1>3, NextSteps DEF vars

\* What a console does that is sending, or that stops to.
LEMMA SendingSteps ==
    ASSUME LocalTypes, NEW c \in Consoles, NEW d \in Consoles, Steps(d), Sending(c), pc'[c] # pc[c]
    PROVE  d = c /\ (UploadEnds(c) \/ Prune(c) \/ Crash(c))
<1>1. \A l, t, m : Go(d, l, t, m) => \A e \in Consoles \ {d} : pc'[e] = pc[e]
  BY DEF Go, LocalTypes
<1>2. Return(d) => \A e \in Consoles \ {d} : pc'[e] = pc[e]
  BY DEF Return, LocalTypes
<1>3. \A e \in Consoles \ {d} : pc'[e] = pc[e]
  <2>1. CASE Decide(d)
    BY <1>1, <1>2, <2>1, DecideCases DEF Decided
  <2>2. CASE DecideRestore(d) \/ UploadEnds(d) \/ Prune(d) \/ Write(d)
    BY <1>1, <1>2, <2>2 DEF DecideRestore, UploadEnds, Prune, Write
  <2>3. CASE FetchFails(d) \/ WriteFails(d) \/ Mark(d) \/ Crash(d)
    BY <1>2, <2>3 DEF FetchFails, WriteFails, Mark, Crash
  <2>4. CASE Play(d) \/ Find(d) \/ FetchFile(d) \/ UploadFile(d)
             \/ \E j \in {"sync", "restore", "backup"} : Begin(d, j)
    BY <2>4 DEF Play, Find, FetchFile, UploadFile, Begin, local, LocalTypes
  <2>5. QED
    BY <2>1, <2>2, <2>3, <2>4 DEF Steps
<1>4. d = c
  BY <1>3
<1>5. QED
  BY <1>4 DEF Steps, Sending, Play, Begin, Find, FetchFile, FetchFails, Decide, DecideRestore,
              UploadFile, Write, WriteFails, Mark, Idle, local

\* Where no harm was done uploads finish, or go on to write the marker.
LEMMA UploadsFinish ==
    ASSUME Types, CopyInv, LossInv, [Next]_vars, harm' = {}
    PROVE  /\ Finishes
           /\ \A c \in Consoles : Sending(c) /\ ~Sending(c)' =>
                 pc'[c] = "idle" \/ (pc'[c] = "mark" /\ here'[c] = here[c])
<1>0. DataTypes /\ LocalTypes /\ \A c \in Consoles : Faithful(c)
  BY AllSee DEF Types
<1> SUFFICES ASSUME NEW c \in Consoles, Sending(c), pc'[c] # pc[c]
             PROVE  /\ pc'[c] = "idle" => cloud'[active[c]] = here[c]
                    /\ ~Sending(c)' =>
                          pc'[c] = "idle" \/ (pc'[c] = "mark" /\ here'[c] = here[c])
  BY DEF Finishes, Sending
<1>1. UploadEnds(c) \/ Prune(c) \/ Crash(c)
  BY <1>0, NextSteps, SendingSteps DEF vars, local
<1>2. Stops(c) => cloud'[active[c]] = here[c]
  BY DEF Stops
<1>3. Return(c) => pc'[c] = "idle"
  BY <1>0 DEF Return, LocalTypes
<1>4. CASE UploadEnds(c)
  <2>1. CASE Go(c, "prune", {}, mark[c])
    BY <1>0, <2>1, GoFrame DEF Sending
  <2>2. QED
    BY <1>2, <1>3, <1>4, <2>1 DEF UploadEnds
<1>5. CASE Crash(c)
  BY <1>2, <1>3, <1>5 DEF Crash
<1>6. CASE Prune(c)
  <2>1. PICK unseen \in SUBSET In(here[c]), kept \in SUBSET (In(cloud[active[c]]) \ In(here[c])) :
          /\ SendTo(c, Pruned(c, unseen, kept))
          /\ Go(c, "mark", {}, mark[c]) \/ Return(c)
          /\ PruneFaults(c, unseen, kept)
    BY <1>6 DEF Prune
  <2>2. unseen = {} /\ kept = {}
    BY <2>1 DEF PruneFaults
  <2>3. cloud' = [cloud EXCEPT ![active[c]] = here[c]] /\ active[c] \in Backends
    BY <1>0, <1>6, <2>1, <2>2, PrunedAll DEF SendTo, Prune, DataTypes
  <2>4. cloud'[active[c]] = here[c]
    BY <1>0, <2>3 DEF DataTypes
  <2>5. QED
    BY <1>0, <1>3, <2>1, <2>4, GoFrame
<1>7. QED
  BY <1>1, <1>4, <1>5, <1>6

LEMMA InitWhole == Init => WholeInv
BY DEF Init, WholeInv, Unbroken

\* What a sync or a restore is about to write is what the folder holds.
LEMMA WritesUnbroken ==
    ASSUME DataTypes, CopyInv, WholeInv, NEW c \in Consoles, Faithful(c), pc[c] = "write"
    PROVE  Unbroken(there[c])
<1>1. \A d \in Consoles \ {c} : Idle(d)
  BY OthersIdle DEF Idle
<1>2. Quiet(active[c]) /\ active[c] \in Backends
  BY <1>1 DEF Quiet, Sending, Idle, DataTypes
<1>3. there[c] = cloud[active[c]]
  BY DEF Faithful, Fetched, Folder
<1>4. QED
  BY <1>2, <1>3 DEF WholeInv

LEMMA NextWhole ==
    ASSUME Types, CopyInv, CopyInv', LossInv, WholeInv, [Next]_vars, harm' = {}, blind' = {}
    PROVE  WholeInv'
<1> USE DEF data, ghosts
<1>0. /\ DataTypes /\ LocalTypes /\ \A c \in Consoles : Faithful(c)
      /\ \A c \in Consoles : Faithful(c)'
  BY AllSee DEF Types, CopyInv, Copies
<1>1. ASSUME NEW c \in Consoles PROVE Unbroken(save'[c])
  <2>1. CASE save'[c] = save[c]
    BY <2>1 DEF WholeInv
  <2>2. ASSUME NEW d \in Consoles, Play(d) PROVE Unbroken(save'[c])
    <3>1. save'[c] = save[c] \/ (save'[c] = Tree(played + 1) /\ played < MaxVer)
      BY <1>0, <2>2 DEF Play, DataTypes
    <3>2. played < MaxVer => played + 1 \in Versions
      BY <1>0, SyncAssumption DEF DataTypes, Versions
    <3>3. QED
      BY <2>1, <3>1, <3>2 DEF Unbroken, Whole
  <2>3. ASSUME NEW d \in Consoles, Write(d) PROVE Unbroken(save'[c])
    <3>1. PICK got \in Parts(there[d]) :
            save' = [save EXCEPT ![d] = got] /\ Sees(d, got = there[d])
      BY <2>3 DEF Write
    <3>2. got = there[d]
      BY <3>1, SeesNothingElse
    <3>3. Unbroken(there[d])
      BY <1>0, <2>3, WritesUnbroken DEF Write
    <3>4. QED
      BY <1>0, <2>1, <3>1, <3>2, <3>3 DEF DataTypes
  <2>4. ASSUME NEW d \in Consoles, Steps(d), ~(Play(d) \/ Write(d)) PROVE UNCHANGED save
    BY <2>4 DEF Steps, Begin, Find, FetchFile, FetchFails, Decide, DecideRestore, UploadFile,
                UploadEnds, Prune, WriteFails, Mark, Crash
  <2>5. QED
    BY <2>1, <2>2, <2>3, <2>4, NextSteps DEF vars
<1>2. ASSUME NEW b \in Backends, Quiet(b)' PROVE Unbroken(cloud'[b])
  <2>1. CASE Quiet(b)
    BY <1>0, <2>1, SendsElsewhere DEF WholeInv
  <2>2. CASE ~Quiet(b)
    <3>1. PICK c \in Consoles : Sending(c) /\ active[c] = b
      BY <2>2 DEF Quiet
    <3>2. active' = active
      BY <1>0, HistoryStays
    <3>3. ~Sending(c)'
      BY <1>2, <3>1, <3>2 DEF Quiet
    <3>4. here[c] = save[c]
      BY <1>0, <3>1 DEF Faithful, CopyOfSave, Sending
    <3>5. CASE pc'[c] = "idle"
      BY <3>1, <3>4, <3>5, UploadsFinish DEF Finishes, WholeInv
    <3>6. CASE pc'[c] = "mark"
      <4>1. cloud'[b] = save'[c]
        BY <1>0, <3>1, <3>2, <3>6 DEF Faithful, Equal, Folder
      <4>2. QED
        BY <1>1, <4>1
    <3>7. QED
      BY <3>1, <3>3, <3>5, <3>6, UploadsFinish
  <2>3. QED
    BY <2>1, <2>2
<1>3. WholeInv' <=> /\ \A c \in Consoles : Unbroken(save'[c])
                    /\ \A b \in Backends : Quiet(b)' => Unbroken(cloud'[b])
  BY DEF WholeInv, Unbroken, Whole, Empty, Tree
<1>4. QED
  BY <1>1, <1>2, <1>3

\* A sync that sends whole saves, for one step: what SyncSendsWhole is needed for.
LEMMA WholeSends ==
    ASSUME WholeInv, \A c \in Consoles : Faithful(c) PROVE SyncSendsWhole
<1> SUFFICES ASSUME NEW c \in Consoles, pc[c] = "upload", job[c] = "sync"
             PROVE  Whole(here[c])
  BY DEF SyncSendsWhole
<1>1. Unbroken(here[c]) /\ here[c] # Empty
  BY DEF Faithful, CopyOfSave, SendsSave, WholeInv
<1>2. QED
  BY <1>1 DEF Unbroken

\* The bounds on what is lost and on what is mixed, while no harm was done.
Unharmed ==
    harm = {} => /\ WholeInv /\ MarkerKept
                 /\ \A c \in Consoles : DecidedWell(c)

UnharmedInv == Types /\ CopyInv /\ VersionsWritten /\ Unharmed

LEMMA UnharmedLosesNothing ==
    ASSUME UnharmedInv, [Next]_vars, harm' = {} PROVE LosesNothing /\ LossInv /\ WholeInv
<1>1. harm = {}
  BY HarmGrows
<1>2. LossInv /\ WholeInv
  BY <1>1 DEF UnharmedInv, Unharmed, LossInv
<1>3. \A c \in Consoles : Faithful(c)
  BY <1>2, AllSee DEF UnharmedInv
<1>4. QED
  BY <1>2, <1>3, WholeSends, StepLosesNothing DEF UnharmedInv

LEMMA UnharmedInductive ==
    ASSUME ~Overlap
    PROVE  /\ Init => UnharmedInv
           /\ UnharmedInv /\ [Next]_vars => UnharmedInv'
<1>1. Init => UnharmedInv
  BY InitTypes, InitCopies, InitLossInv, InitWhole DEF Init, UnharmedInv, Unharmed, LossInv
<1>2. ASSUME UnharmedInv, [Next]_vars PROVE UnharmedInv'
  <2>1. Types' /\ CopyInv'
    BY <1>2, NextTypes, NextCopies DEF UnharmedInv
  <2>2. VersionsWritten'
    BY <1>2, NextVersionsWritten DEF UnharmedInv, Types
  <2>3. ASSUME harm' = {}
        PROVE  WholeInv' /\ MarkerKept' /\ \A c \in Consoles : DecidedWell(c)'
    <3>1. LosesNothing /\ LossInv /\ WholeInv
      BY <1>2, <2>3, UnharmedLosesNothing
    <3>2. blind' = {}
      BY <2>1, <2>3 DEF Types, FaultTypes
    <3>3. WholeInv'
      BY <1>2, <2>1, <2>3, <3>1, <3>2, NextWhole DEF UnharmedInv
    <3>4. MarkerKept'
      BY <1>2, <2>3, <3>1, NextMarkerKept DEF UnharmedInv
    <3>5. \A c \in Consoles : DecidedWell(c)'
      BY <1>2, <2>3, <3>1, NextDecidedWell DEF UnharmedInv
    <3>6. QED
      BY <3>3, <3>4, <3>5
  <2>4. QED
    BY <2>1, <2>2, <2>3 DEF UnharmedInv, Unharmed
<1>3. QED
  BY <1>1, <1>2

\* Nothing need be assumed of what syncs send while no upload has ended early and
\* no job was blind: until then sessions are never lost, whatever else failed.
THEOREM NothingLostUntilHarm ==
    ASSUME ~Overlap PROVE Spec => [][harm' = {} => LosesNothing]_vars
<1>1. Init => UnharmedInv
  BY UnharmedInductive
<1>2. UnharmedInv /\ [Next]_vars => UnharmedInv'
  BY UnharmedInductive
<1>3. UnharmedInv /\ [Next]_vars => (harm' = {} => LosesNothing)
  BY UnharmedLosesNothing
<1>4. QED
  BY <1>1, <1>2, <1>3, PTL DEF Spec

\* While consoles take turns, a console has only saves the game wrote until an
\* upload ends early or a job is blind: every other failure, a lost marker, a
\* download that dies, leaves no "metade de ontem, metade de hoje".
THEOREM SavesStayWhole == ASSUME ~Overlap PROVE Spec => []SavesWholeUntilCut
<1>1. Init => UnharmedInv
  BY UnharmedInductive
<1>2. UnharmedInv /\ [Next]_vars => UnharmedInv'
  BY UnharmedInductive
<1>3. UnharmedInv => SavesWholeUntilCut
  BY DEF UnharmedInv, Unharmed, WholeInv, Unbroken, SavesWholeUntilCut
<1>4. QED
  BY <1>1, <1>2, <1>3, PTL DEF Spec
=============================================================================
