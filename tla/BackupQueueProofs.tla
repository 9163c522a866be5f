------------------------- MODULE BackupQueueProofs -------------------------
(***************************************************************************)
(* Proofs about the snapshot queue, for every number of saves, files,      *)
(* providers, versions, sequence numbers and mishaps.                      *)
(***************************************************************************)
EXTENDS BackupQueueLog, FiniteSetTheorems, SequenceTheorems, TLAPS

-----------------------------------------------------------------------------
(* Type correctness.  TypeOK is not inductive: publication moves whatever the
   building directory holds, and the upload worker writes into the manifest of
   the job it holds, so both must be known to be complete entries. *)

\* A dead process has no worker in the middle of anything.
NoGhostWorker == ~running => capPc = "idle" /\ upPc = "idle"

\* What is about to be published is complete.
BuiltComplete == capPc = "publish" => building[capId] \in Entry

\* The upload worker's job is still on the card.
JobHeld == UploadBusy => jobs[upId] \in Entry

TypeInv == TypeOK /\ NoGhostWorker /\ BuiltComplete /\ JobHeld

\* Overwriting one file of one cloud folder.
LEMMA CloudWrite ==
    ASSUME cloud \in [Backends \X Saves -> [Files -> 0..MaxVer]],
           NEW bs \in Backends \X Saves, NEW f \in Files, NEW v \in 0..MaxVer
    PROVE  [cloud EXCEPT ![bs][f] = v] \in [Backends \X Saves -> [Files -> 0..MaxVer]]
  OBVIOUS

LEMMA InitTypeInv == Init => TypeInv
<1> SUFFICES ASSUME Init PROVE TypeInv
  OBVIOUS
<1> USE ConstantsAssumption DEF Init
<1>1. WorldTypeOK
  <2>1. 1 \in Versions /\ 0 \in 0..MaxVer /\ 0 \in 0..MaxMishaps
    BY DEF Versions
  <2>2. QED
    BY <2>1 DEF WorldTypeOK
<1>2. CardTypeOK
  BY DEF CardTypeOK
<1>3. CaptureTypeOK /\ UploadTypeOK
  BY DEF CaptureTypeOK, UploadTypeOK, CaptureBusy
<1>4. NoGhostWorker /\ BuiltComplete /\ JobHeld
  BY DEF NoGhostWorker, BuiltComplete, JobHeld, UploadBusy
<1>5. QED
  BY <1>1, <1>2, <1>3, <1>4 DEF TypeInv, TypeOK

LEMMA NextTypeInv == TypeInv /\ [Next]_vars => TypeInv'
<1> SUFFICES ASSUME TypeInv, [Next]_vars PROVE TypeInv'
  OBVIOUS
<1> USE ConstantsAssumption
<1> USE DEF TypeInv, TypeOK, CaptureBusy, UploadBusy, envVars, sdVars, queueVars,
            capVars, upVars, Mishap, NoMishap
<1>1. CASE UNCHANGED vars
  BY <1>1 DEF vars, WorldTypeOK, CardTypeOK, CaptureTypeOK, UploadTypeOK,
              NoGhostWorker, BuiltComplete, JobHeld
<1>2. CASE Pause
  <2> USE <1>2 DEF Pause
  <2>1. WorldTypeOK'
    BY DEF WorldTypeOK
  <2>2. CardTypeOK'
    BY DEF CardTypeOK, CaptureTypeOK, UploadTypeOK, WorldTypeOK, BuiltComplete, JobHeld
  <2>3. CaptureTypeOK'
    BY DEF CaptureTypeOK
  <2>4. UploadTypeOK'
    BY DEF UploadTypeOK
  <2>5. NoGhostWorker' /\ BuiltComplete' /\ JobHeld'
    BY DEF CardTypeOK, CaptureTypeOK, UploadTypeOK, NoGhostWorker, BuiltComplete, JobHeld
  <2>6. QED
    BY <2>1, <2>2, <2>3, <2>4, <2>5
<1>3. CASE Resume
  <2> USE <1>3 DEF Resume
  <2>1. WorldTypeOK'
    BY DEF WorldTypeOK
  <2>2. CardTypeOK'
    BY DEF CardTypeOK, CaptureTypeOK, UploadTypeOK, WorldTypeOK, BuiltComplete, JobHeld
  <2>3. CaptureTypeOK'
    BY DEF CaptureTypeOK
  <2>4. UploadTypeOK'
    BY DEF UploadTypeOK
  <2>5. NoGhostWorker' /\ BuiltComplete' /\ JobHeld'
    BY DEF CardTypeOK, CaptureTypeOK, UploadTypeOK, NoGhostWorker, BuiltComplete, JobHeld
  <2>6. QED
    BY <2>1, <2>2, <2>3, <2>4, <2>5
<1>4. ASSUME NEW s \in Saves, Play(s) PROVE TypeInv'
  <2> USE <1>4 DEF Play
  <2>1. WorldTypeOK'
    BY DEF WorldTypeOK, CardTypeOK, UploadTypeOK, CaptureTypeOK, Versions
  <2>2. CardTypeOK'
    BY DEF CardTypeOK, CaptureTypeOK, UploadTypeOK, WorldTypeOK, BuiltComplete, JobHeld
  <2>3. CaptureTypeOK'
    BY DEF CaptureTypeOK
  <2>4. UploadTypeOK'
    BY DEF UploadTypeOK
  <2>5. NoGhostWorker' /\ BuiltComplete' /\ JobHeld'
    BY DEF CardTypeOK, CaptureTypeOK, UploadTypeOK, NoGhostWorker, BuiltComplete, JobHeld
  <2>6. QED
    BY <2>1, <2>2, <2>3, <2>4, <2>5
<1>5. ASSUME NEW s \in Saves, Exclude(s) PROVE TypeInv'
  <2> USE <1>5 DEF Exclude
  <2>1. WorldTypeOK'
    BY DEF WorldTypeOK
  <2>2. CardTypeOK'
    BY DEF CardTypeOK, CaptureTypeOK, UploadTypeOK, WorldTypeOK, BuiltComplete, JobHeld
  <2>3. CaptureTypeOK'
    BY DEF CaptureTypeOK
  <2>4. UploadTypeOK'
    BY DEF UploadTypeOK
  <2>5. NoGhostWorker' /\ BuiltComplete' /\ JobHeld'
    BY DEF CardTypeOK, CaptureTypeOK, UploadTypeOK, NoGhostWorker, BuiltComplete, JobHeld
  <2>6. QED
    BY <2>1, <2>2, <2>3, <2>4, <2>5
<1>6. ASSUME NEW s \in Saves, Include(s) PROVE TypeInv'
  <2> USE <1>6 DEF Include
  <2>1. WorldTypeOK'
    BY DEF WorldTypeOK
  <2>2. CardTypeOK'
    BY DEF CardTypeOK, CaptureTypeOK, UploadTypeOK, WorldTypeOK, BuiltComplete, JobHeld
  <2>3. CaptureTypeOK'
    BY DEF CaptureTypeOK
  <2>4. UploadTypeOK'
    BY DEF UploadTypeOK
  <2>5. NoGhostWorker' /\ BuiltComplete' /\ JobHeld'
    BY DEF CardTypeOK, CaptureTypeOK, UploadTypeOK, NoGhostWorker, BuiltComplete, JobHeld
  <2>6. QED
    BY <2>1, <2>2, <2>3, <2>4, <2>5
<1>7. ASSUME NEW i \in Ids, DeadlinePasses(i) PROVE TypeInv'
  <2> USE <1>7 DEF DeadlinePasses, Present
  <2>1. WorldTypeOK'
    BY DEF WorldTypeOK
  <2>2. CardTypeOK'
    <3>1. [jobs[i] EXCEPT !.job.waiting = FALSE] \in Entry
      BY DEF CardTypeOK, Entry, Manifest
    <3>2. QED
      BY <3>1 DEF CardTypeOK
  <2>3. CaptureTypeOK'
    BY DEF CaptureTypeOK
  <2>4. UploadTypeOK'
    BY DEF UploadTypeOK
  <2>5. NoGhostWorker' /\ BuiltComplete' /\ JobHeld'
    BY DEF CardTypeOK, CaptureTypeOK, UploadTypeOK, NoGhostWorker, BuiltComplete, JobHeld,
       Entry, Manifest
  <2>6. QED
    BY <2>1, <2>2, <2>3, <2>4, <2>5
<1>8. ASSUME NEW s \in Saves, CaptureBegin(s) PROVE TypeInv'
  <2> USE <1>8 DEF CaptureBegin
  <2>1. WorldTypeOK'
    BY DEF WorldTypeOK
  <2>2. CardTypeOK'
    BY DEF CardTypeOK, CaptureTypeOK, UploadTypeOK, WorldTypeOK, BuiltComplete, JobHeld
  <2>3. CaptureTypeOK'
    BY DEF CaptureTypeOK
  <2>4. UploadTypeOK'
    BY DEF UploadTypeOK
  <2>5. NoGhostWorker' /\ BuiltComplete' /\ JobHeld'
    BY DEF CardTypeOK, CaptureTypeOK, UploadTypeOK, NoGhostWorker, BuiltComplete, JobHeld
  <2>6. QED
    BY <2>1, <2>2, <2>3, <2>4, <2>5
<1>9. CASE CaptureCopy
  <2> USE <1>9 DEF CaptureCopy
  <2>1. WorldTypeOK'
    BY DEF WorldTypeOK
  <2>2. CardTypeOK'
    <3>1. ASSUME NEW got \in SUBSET FilesOf[live[capSave]]
          PROVE  [job  |-> [save |-> capSave, snap |-> live[capSave], has |-> got,
                            backend |-> active, waiting |-> FALSE],
                  sent |-> {}] \in Entry
      BY DEF WorldTypeOK, CaptureTypeOK, Entry, Manifest
    <3>2. QED
      BY <3>1 DEF CardTypeOK
  <2>3. CaptureTypeOK'
    BY DEF CaptureTypeOK
  <2>4. UploadTypeOK'
    BY DEF UploadTypeOK
  <2>5. NoGhostWorker' /\ BuiltComplete' /\ JobHeld'
    <3>1. ASSUME NEW got \in SUBSET FilesOf[live[capSave]]
          PROVE  [job  |-> [save |-> capSave, snap |-> live[capSave], has |-> got,
                            backend |-> active, waiting |-> FALSE],
                  sent |-> {}] \in Entry
      BY DEF WorldTypeOK, CaptureTypeOK, Entry, Manifest
    <3>2. QED
      BY <3>1 DEF CardTypeOK, CaptureTypeOK, NoGhostWorker, BuiltComplete, JobHeld
  <2>6. QED
    BY <2>1, <2>2, <2>3, <2>4, <2>5
<1>10. CASE CapturePublish
  <2> USE <1>10 DEF CapturePublish, CaptureIdle
  <2>1. WorldTypeOK'
    BY DEF WorldTypeOK
  <2>2. CardTypeOK'
    BY DEF CardTypeOK, CaptureTypeOK, UploadTypeOK, WorldTypeOK, BuiltComplete, JobHeld
  <2>3. CaptureTypeOK'
    BY DEF CaptureTypeOK
  <2>4. UploadTypeOK'
    BY DEF UploadTypeOK
  <2>5. NoGhostWorker' /\ BuiltComplete' /\ JobHeld'
    BY DEF CardTypeOK, CaptureTypeOK, UploadTypeOK, NoGhostWorker, BuiltComplete, JobHeld
  <2>6. QED
    BY <2>1, <2>2, <2>3, <2>4, <2>5
<1>11. CASE CaptureDiscard
  <2> USE <1>11 DEF CaptureDiscard, CaptureIdle
  <2>1. WorldTypeOK'
    BY DEF WorldTypeOK
  <2>2. CardTypeOK'
    BY DEF CardTypeOK, CaptureTypeOK, UploadTypeOK, WorldTypeOK, BuiltComplete, JobHeld
  <2>3. CaptureTypeOK'
    BY DEF CaptureTypeOK
  <2>4. UploadTypeOK'
    BY DEF UploadTypeOK
  <2>5. NoGhostWorker' /\ BuiltComplete' /\ JobHeld'
    BY DEF CardTypeOK, CaptureTypeOK, UploadTypeOK, NoGhostWorker, BuiltComplete, JobHeld
  <2>6. QED
    BY <2>1, <2>2, <2>3, <2>4, <2>5
<1>12. CASE UploadPick
  <2> USE <1>12 DEF UploadPick, IsHead, Present
  <2>1. WorldTypeOK'
    BY DEF WorldTypeOK
  <2>2. CardTypeOK'
    BY DEF CardTypeOK, CaptureTypeOK, UploadTypeOK, WorldTypeOK, BuiltComplete, JobHeld
  <2>3. CaptureTypeOK'
    BY DEF CaptureTypeOK
  <2>4. UploadTypeOK'
    BY DEF UploadTypeOK, CardTypeOK, Entry
  <2>5. NoGhostWorker' /\ BuiltComplete' /\ JobHeld'
    BY DEF CardTypeOK, CaptureTypeOK, UploadTypeOK, NoGhostWorker, BuiltComplete, JobHeld
  <2>6. QED
    BY <2>1, <2>2, <2>3, <2>4, <2>5
<1>13. CASE UploadOpen
  <2> USE <1>13 DEF UploadOpen, Fails
  <2>1. WorldTypeOK'
    BY DEF WorldTypeOK
  <2>2. CardTypeOK'
    BY DEF CardTypeOK, CaptureTypeOK, UploadTypeOK, WorldTypeOK, BuiltComplete, JobHeld
  <2>3. CaptureTypeOK'
    BY DEF CaptureTypeOK
  <2>4. UploadTypeOK'
    BY DEF UploadTypeOK, CardTypeOK, Manifest
  <2>5. NoGhostWorker' /\ BuiltComplete' /\ JobHeld'
    BY DEF CardTypeOK, CaptureTypeOK, UploadTypeOK, NoGhostWorker, BuiltComplete, JobHeld
  <2>6. QED
    BY <2>1, <2>2, <2>3, <2>4, <2>5
<1>14. CASE UploadAbort
  <2> USE <1>14 DEF UploadAbort
  <2>1. WorldTypeOK'
    BY DEF WorldTypeOK
  <2>2. CardTypeOK'
    BY DEF CardTypeOK, CaptureTypeOK, UploadTypeOK, WorldTypeOK, BuiltComplete, JobHeld
  <2>3. CaptureTypeOK'
    BY DEF CaptureTypeOK
  <2>4. UploadTypeOK'
    BY DEF UploadTypeOK
  <2>5. NoGhostWorker' /\ BuiltComplete' /\ JobHeld'
    BY DEF CardTypeOK, CaptureTypeOK, UploadTypeOK, NoGhostWorker, BuiltComplete, JobHeld
  <2>6. QED
    BY <2>1, <2>2, <2>3, <2>4, <2>5
<1>15. CASE UploadTreeDone
  <2> USE <1>15 DEF UploadTreeDone, Fails
  <2>1. WorldTypeOK'
    BY DEF WorldTypeOK
  <2>2. CardTypeOK'
    BY DEF CardTypeOK, CaptureTypeOK, UploadTypeOK, WorldTypeOK, BuiltComplete, JobHeld
  <2>3. CaptureTypeOK'
    BY DEF CaptureTypeOK
  <2>4. UploadTypeOK'
    BY DEF UploadTypeOK, CardTypeOK
  <2>5. NoGhostWorker' /\ BuiltComplete' /\ JobHeld'
    BY DEF CardTypeOK, CaptureTypeOK, UploadTypeOK, NoGhostWorker, BuiltComplete, JobHeld
  <2>6. QED
    BY <2>1, <2>2, <2>3, <2>4, <2>5
<1>16. CASE UploadPruneDone
  <2> USE <1>16 DEF UploadPruneDone
  <2>1. WorldTypeOK'
    BY DEF WorldTypeOK
  <2>2. CardTypeOK'
    BY DEF CardTypeOK, CaptureTypeOK, UploadTypeOK, WorldTypeOK, BuiltComplete, JobHeld
  <2>3. CaptureTypeOK'
    BY DEF CaptureTypeOK
  <2>4. UploadTypeOK'
    BY DEF UploadTypeOK
  <2>5. NoGhostWorker' /\ BuiltComplete' /\ JobHeld'
    BY DEF CardTypeOK, CaptureTypeOK, UploadTypeOK, NoGhostWorker, BuiltComplete, JobHeld
  <2>6. QED
    BY <2>1, <2>2, <2>3, <2>4, <2>5
<1>17. CASE UploadMark
  <2> USE <1>17 DEF UploadMark
  <2>1. WorldTypeOK'
    BY DEF WorldTypeOK
  <2>2. CardTypeOK'
    <3>1. upJob.save \in Saves /\ upJob.snap \in 0..MaxVer
      BY DEF UploadTypeOK, Manifest, Versions
    <3>2. QED
      BY <3>1 DEF CardTypeOK
  <2>3. CaptureTypeOK'
    BY DEF CaptureTypeOK
  <2>4. UploadTypeOK'
    BY DEF UploadTypeOK
  <2>5. NoGhostWorker' /\ BuiltComplete' /\ JobHeld'
    BY DEF CardTypeOK, CaptureTypeOK, UploadTypeOK, NoGhostWorker, BuiltComplete, JobHeld
  <2>6. QED
    BY <2>1, <2>2, <2>3, <2>4, <2>5
<1>18. CASE UploadFinish
  <2> USE <1>18 DEF UploadFinish
  <2>1. WorldTypeOK'
    BY DEF WorldTypeOK
  <2>2. CardTypeOK'
    BY DEF CardTypeOK, CaptureTypeOK, UploadTypeOK, WorldTypeOK, BuiltComplete, JobHeld
  <2>3. CaptureTypeOK'
    BY DEF CaptureTypeOK
  <2>4. UploadTypeOK'
    BY DEF UploadTypeOK
  <2>5. NoGhostWorker' /\ BuiltComplete' /\ JobHeld'
    BY DEF CardTypeOK, CaptureTypeOK, UploadTypeOK, NoGhostWorker, BuiltComplete, JobHeld
  <2>6. QED
    BY <2>1, <2>2, <2>3, <2>4, <2>5
<1>19. CASE UploadClean
  <2> USE <1>19 DEF UploadClean, UploadIdle
  <2>1. WorldTypeOK'
    BY DEF WorldTypeOK
  <2>2. CardTypeOK'
    BY DEF CardTypeOK, CaptureTypeOK, UploadTypeOK, WorldTypeOK, BuiltComplete, JobHeld
  <2>3. CaptureTypeOK'
    BY DEF CaptureTypeOK
  <2>4. UploadTypeOK'
    BY DEF UploadTypeOK
  <2>5. NoGhostWorker' /\ BuiltComplete' /\ JobHeld'
    BY DEF CardTypeOK, CaptureTypeOK, UploadTypeOK, NoGhostWorker, BuiltComplete, JobHeld
  <2>6. QED
    BY <2>1, <2>2, <2>3, <2>4, <2>5
<1>20. CASE UploadFailed
  <2> USE <1>20 DEF UploadFailed, UploadIdle
  <2>1. WorldTypeOK'
    BY DEF WorldTypeOK
  <2>2. CardTypeOK'
    <3>1. [upJob EXCEPT !.waiting = TRUE] \in Manifest /\ upId \in Ids
      BY DEF UploadTypeOK, Manifest
    <3>2. [jobs[upId] EXCEPT !.job = [upJob EXCEPT !.waiting = TRUE]] \in Entry
      BY <3>1 DEF JobHeld, Entry
    <3>3. QED
      BY <3>1, <3>2 DEF CardTypeOK
  <2>3. CaptureTypeOK'
    BY DEF CaptureTypeOK
  <2>4. UploadTypeOK'
    BY DEF UploadTypeOK
  <2>5. NoGhostWorker' /\ BuiltComplete' /\ JobHeld'
    BY DEF CardTypeOK, CaptureTypeOK, UploadTypeOK, NoGhostWorker, BuiltComplete, JobHeld
  <2>6. QED
    BY <2>1, <2>2, <2>3, <2>4, <2>5
<1>21. ASSUME NEW f \in Files, UploadFile(f) PROVE TypeInv'
  <2> USE <1>21 DEF UploadFile, Fails
  <2>1. WorldTypeOK'
    <3>1. Folder \in Backends \X Saves /\ upJob.snap \in 0..MaxVer
      BY DEF CaptureTypeOK, UploadTypeOK, Manifest, Versions, Folder
    <3>2. cloud' = cloud \/ cloud' = [cloud EXCEPT ![Folder][f] = upJob.snap]
      OBVIOUS
    <3>3. [cloud EXCEPT ![Folder][f] = upJob.snap] \in [Backends \X Saves -> [Files -> 0..MaxVer]]
      BY <3>1, CloudWrite, 0 \in 0..MaxVer DEF WorldTypeOK
    <3>4. mishaps' \in 0..MaxMishaps
      BY DEF WorldTypeOK
    <3>5. QED
      BY <3>2, <3>3, <3>4 DEF WorldTypeOK
  <2>2. CardTypeOK'
    BY DEF CardTypeOK, CaptureTypeOK, UploadTypeOK, WorldTypeOK, BuiltComplete, JobHeld, Entry
  <2>3. CaptureTypeOK'
    BY DEF CaptureTypeOK
  <2>4. UploadTypeOK'
    BY DEF UploadTypeOK
  <2>5. NoGhostWorker' /\ BuiltComplete' /\ JobHeld'
    BY DEF CardTypeOK, CaptureTypeOK, UploadTypeOK, NoGhostWorker, BuiltComplete, JobHeld,
       Entry
  <2>6. QED
    BY <2>1, <2>2, <2>3, <2>4, <2>5
<1>22. ASSUME NEW f \in Files, UploadPrune(f) PROVE TypeInv'
  <2> USE <1>22 DEF UploadPrune, Fails
  <2>1. WorldTypeOK'
    <3>1. Folder \in Backends \X Saves
      BY DEF CaptureTypeOK, UploadTypeOK, Manifest, Folder
    <3>2. cloud' = cloud \/ cloud' = [cloud EXCEPT ![Folder][f] = 0]
      OBVIOUS
    <3>3. [cloud EXCEPT ![Folder][f] = 0] \in [Backends \X Saves -> [Files -> 0..MaxVer]]
      BY <3>1, CloudWrite, 0 \in 0..MaxVer DEF WorldTypeOK
    <3>4. mishaps' \in 0..MaxMishaps
      BY DEF WorldTypeOK
    <3>5. QED
      BY <3>2, <3>3, <3>4 DEF WorldTypeOK
  <2>2. CardTypeOK'
    BY DEF CardTypeOK, CaptureTypeOK, UploadTypeOK, WorldTypeOK, BuiltComplete, JobHeld
  <2>3. CaptureTypeOK'
    BY DEF CaptureTypeOK
  <2>4. UploadTypeOK'
    BY DEF UploadTypeOK
  <2>5. NoGhostWorker' /\ BuiltComplete' /\ JobHeld'
    BY DEF CardTypeOK, CaptureTypeOK, UploadTypeOK, NoGhostWorker, BuiltComplete, JobHeld
  <2>6. QED
    BY <2>1, <2>2, <2>3, <2>4, <2>5
<1>m. ASSUME NEW lost \in SUBSET upTodo, UploadMisses(lost) PROVE TypeInv'
  <2> USE <1>m DEF UploadMisses
  <2>1. WorldTypeOK'
    BY DEF WorldTypeOK
  <2>2. CardTypeOK' /\ CaptureTypeOK'
    BY DEF CardTypeOK, CaptureTypeOK
  <2>3. UploadTypeOK'
    BY DEF UploadTypeOK
  <2>4. NoGhostWorker' /\ BuiltComplete' /\ JobHeld'
    BY DEF NoGhostWorker, BuiltComplete, JobHeld
  <2>5. QED
    BY <2>1, <2>2, <2>3, <2>4
<1>b. ASSUME NEW f \in Files, UploadPruneBlind(f) PROVE TypeInv'
  <2> USE <1>b DEF UploadPruneBlind
  <2>1. WorldTypeOK'
    <3>1. Folder \in Backends \X Saves
      BY DEF CaptureTypeOK, UploadTypeOK, Manifest, Folder
    <3>2. [cloud EXCEPT ![Folder][f] = 0] \in [Backends \X Saves -> [Files -> 0..MaxVer]]
      BY <3>1, CloudWrite, 0 \in 0..MaxVer DEF WorldTypeOK
    <3>3. QED
      BY <3>2 DEF WorldTypeOK
  <2>2. CardTypeOK' /\ CaptureTypeOK'
    BY DEF CardTypeOK, CaptureTypeOK
  <2>3. UploadTypeOK'
    BY DEF UploadTypeOK
  <2>4. NoGhostWorker' /\ BuiltComplete' /\ JobHeld'
    BY DEF NoGhostWorker, BuiltComplete, JobHeld
  <2>5. QED
    BY <2>1, <2>2, <2>3, <2>4
<1>23. CASE Crash
  <2> USE <1>23 DEF Crash, CaptureIdle, UploadIdle
  <2>1. WorldTypeOK'
    BY DEF WorldTypeOK
  <2>2. CardTypeOK'
    BY DEF CardTypeOK, CaptureTypeOK, UploadTypeOK, WorldTypeOK, BuiltComplete, JobHeld
  <2>3. CaptureTypeOK'
    BY DEF CaptureTypeOK
  <2>4. UploadTypeOK'
    BY DEF UploadTypeOK
  <2>5. NoGhostWorker' /\ BuiltComplete' /\ JobHeld'
    BY DEF CardTypeOK, CaptureTypeOK, UploadTypeOK, NoGhostWorker, BuiltComplete, JobHeld
  <2>6. QED
    BY <2>1, <2>2, <2>3, <2>4, <2>5
<1>24. CASE Start
  <2> USE <1>24 DEF Start, Present
  <2>1. WorldTypeOK'
    BY DEF WorldTypeOK
  <2>2. CardTypeOK'
    BY DEF CardTypeOK, CaptureTypeOK, UploadTypeOK, WorldTypeOK, BuiltComplete, JobHeld
  <2>3. CaptureTypeOK'
    BY DEF CaptureTypeOK
  <2>4. UploadTypeOK'
    BY DEF UploadTypeOK
  <2>5. NoGhostWorker' /\ BuiltComplete' /\ JobHeld'
    BY DEF CardTypeOK, CaptureTypeOK, UploadTypeOK, NoGhostWorker, BuiltComplete, JobHeld
  <2>6. QED
    BY <2>1, <2>2, <2>3, <2>4, <2>5
<1>25. QED
  BY <1>1, <1>2, <1>3, <1>4, <1>5, <1>6, <1>7, <1>8, <1>9, <1>10, <1>11, <1>12, <1>13,
     <1>14, <1>15, <1>16, <1>17, <1>18, <1>19, <1>20, <1>21, <1>22, <1>m, <1>b, <1>23, <1>24
     DEF Next, World, Capture, Upload

\* Every variable has its type in every reachable state; in particular no crash
\* or failed write ever leaves a directory named .job or .job.done with a capture in progress.
THEOREM TypeCorrect == Spec => []TypeOK
<1>1. TypeInv => TypeOK
  BY DEF TypeInv
<1>2. QED
  BY InitTypeInv, NextTypeInv, <1>1, PTL DEF Spec

-----------------------------------------------------------------------------
(* First in, first out.  Every proof from here on assumes that the queue
   directory can be listed: where opendir may fail, or the listing break off, a
   capture may reuse a number, and the order is lost. *)

\* The sequence number a capture holds is ahead of every published one.
NumberAhead == CaptureBusy => \A j \in Present(jobs) : j < capId

\* The job being uploaded was due.
JobDue == UploadBusy => ~upJob.waiting

FifoInv == NumberAhead /\ JobDue /\ HeadOwned

LEMMA InitFifoInv == Init => FifoInv
  BY DEF Init, FifoInv, NumberAhead, JobDue, HeadOwned, CaptureBusy, UploadBusy

\* A step that leaves the published jobs alone, starts no capture and picks no
\* job does not disturb the order.
LEMMA FifoFrame ==
    ASSUME FifoInv,
           UNCHANGED jobs,
           CaptureBusy' => CaptureBusy /\ UNCHANGED capId,
           UploadBusy' => UploadBusy /\ UNCHANGED <<upId, upJob>>
    PROVE  FifoInv'
  BY DEF FifoInv, NumberAhead, JobDue, HeadOwned, IsHead, Present

LEMMA NextFifoInv ==
    ASSUME ~BlindScan, TypeInv, FifoInv, [Next]_vars
    PROVE  FifoInv'
<1> USE DEF envVars, sdVars, queueVars, capVars, upVars
<1> DEFINE Quiet == /\ UNCHANGED jobs
                    /\ CaptureBusy' => CaptureBusy /\ UNCHANGED capId
                    /\ UploadBusy' => UploadBusy /\ UNCHANGED <<upId, upJob>>
<1>1. CASE UNCHANGED vars
  <2>1. Quiet
    BY <1>1 DEF vars, CaptureBusy, UploadBusy
  <2>2. QED
    BY <2>1, FifoFrame
<1>2. CASE Pause \/ Resume \/ \E s \in Saves : Play(s) \/ Exclude(s) \/ Include(s)
  <2>1. Quiet
    BY <1>2 DEF Pause, Resume, Play, Exclude, Include, CaptureBusy, UploadBusy
  <2>2. QED
    BY <2>1, FifoFrame
<1>3. ASSUME NEW i \in Ids, DeadlinePasses(i) PROVE FifoInv'
  <2>1. UploadBusy => i # upId
    BY <1>3 DEF DeadlinePasses, FifoInv, JobDue, HeadOwned
  <2>2. /\ Present(jobs)' = Present(jobs)
        /\ \A j \in Ids \ {i} : jobs'[j] = jobs[j]
        /\ UNCHANGED <<capPc, capId, upPc, upId, upJob>>
    <3>1. jobs[i] \in Entry
      BY <1>3 DEF DeadlinePasses, Present, TypeInv, TypeOK, CardTypeOK
    <3>2. [jobs[i] EXCEPT !.job.waiting = FALSE] \in Entry
      BY <3>1 DEF Entry, Manifest
    <3>3. QED
      BY <1>3, <3>2, ConstantsAssumption
         DEF DeadlinePasses, Present, TypeInv, TypeOK, CardTypeOK
  <2>3. NumberAhead' /\ JobDue'
    BY <2>2 DEF FifoInv, NumberAhead, JobDue, CaptureBusy, UploadBusy
  <2>4. HeadOwned'
    BY <2>1, <2>2 DEF FifoInv, HeadOwned, IsHead, UploadBusy, Present
  <2>5. QED
    BY <2>3, <2>4 DEF FifoInv
<1>4. ASSUME NEW s \in Saves, CaptureBegin(s) PROVE FifoInv'
  <2>1. /\ \A j \in Present(jobs) : j < capId'
        /\ UNCHANGED <<jobs, upPc, upId, upJob>>
    BY <1>4 DEF CaptureBegin, NextId, Entries
  <2>2. NumberAhead'
    BY <2>1 DEF NumberAhead, Present
  <2>3. JobDue' /\ HeadOwned'
    BY <2>1 DEF FifoInv, JobDue, HeadOwned, UploadBusy, IsHead, Present
  <2>4. QED
    BY <2>2, <2>3 DEF FifoInv
<1>5. CASE CaptureCopy \/ CaptureDiscard
  <2>1. Quiet
    BY <1>5 DEF CaptureCopy, CaptureDiscard, CaptureIdle, CaptureBusy, UploadBusy
  <2>2. QED
    BY <2>1, FifoFrame
<1>6. CASE CapturePublish
  <2>1. CASE UNCHANGED jobs
    <3>1. Quiet
      BY <1>6, <2>1 DEF CapturePublish, CaptureIdle, CaptureBusy, UploadBusy
    <3>2. QED
      BY <3>1, FifoFrame
  <2>2. CASE jobs' # jobs
    <3>1. /\ jobs' = [jobs EXCEPT ![capId] = building[capId]]
          /\ capPc = "publish" /\ capPc' = "idle"
          /\ UNCHANGED <<upPc, upId, upJob>>
      BY <1>6, <2>2 DEF CapturePublish, CaptureIdle
    <3>2. NumberAhead'
      BY <3>1 DEF NumberAhead, CaptureBusy
    <3>3. UploadBusy => upId < capId /\ upId \in Ids
      BY <3>1 DEF FifoInv, NumberAhead, HeadOwned, IsHead, Present, CaptureBusy
    <3>4. \A j \in Present(jobs)' : j = capId \/ j \in Present(jobs)
      BY <3>1 DEF Present, TypeInv, TypeOK, CardTypeOK
    <3>5. UploadBusy => jobs'[upId] = jobs[upId]
      BY <3>1, <3>3, ConstantsAssumption DEF Ids, TypeInv, TypeOK, CardTypeOK
    <3>6. JobDue' /\ HeadOwned'
      BY <3>1, <3>3, <3>4, <3>5, ConstantsAssumption
         DEF FifoInv, JobDue, HeadOwned, UploadBusy, IsHead, Present, Ids
    <3>7. QED
      BY <3>2, <3>6 DEF FifoInv
  <2>3. QED
    BY <2>1, <2>2
<1>7. CASE UploadPick
  <2>1. PICK i \in Ids : /\ IsHead(i)
                         /\ ~jobs[i].job.waiting
                         /\ upJob' = jobs[i].job
                         /\ upId' = i
    BY <1>7, ~BlindScan DEF UploadPick
  <2>2. UNCHANGED <<jobs, capPc, capId>>
    BY <1>7 DEF UploadPick
  <2>3. QED
    BY <2>1, <2>2 DEF FifoInv, NumberAhead, JobDue, HeadOwned, CaptureBusy, IsHead, Present
<1>8. CASE UploadOpen \/ UploadAbort \/ UploadTreeDone \/ UploadPruneDone \/ UploadMark
  <2>1. Quiet
    BY <1>8 DEF UploadOpen, UploadAbort, UploadTreeDone, UploadPruneDone, UploadMark,
                CaptureBusy, UploadBusy
  <2>2. QED
    BY <2>1, FifoFrame
<1>9. ASSUME NEW f \in Files, UploadPrune(f) \/ UploadPruneBlind(f) PROVE FifoInv'
  <2>1. Quiet
    BY <1>9 DEF UploadPrune, UploadPruneBlind, CaptureBusy, UploadBusy
  <2>2. QED
    BY <2>1, FifoFrame
<1>m. ASSUME NEW lost, UploadMisses(lost) PROVE FifoInv'
  <2>1. Quiet
    BY <1>m DEF UploadMisses, CaptureBusy, UploadBusy
  <2>2. QED
    BY <2>1, FifoFrame
<1>10. ASSUME NEW f \in Files, UploadFile(f) PROVE FifoInv'
  <2>1. /\ UploadBusy /\ UNCHANGED <<capPc, capId, upPc, upId, upJob>>
        /\ jobs' = jobs \/ jobs' = [jobs EXCEPT ![upId].sent = @ \cup {f}]
    BY <1>10 DEF UploadFile, UploadBusy
  <2>2. upId \in Ids /\ jobs[upId] \in Entry
    BY <2>1 DEF TypeInv, TypeOK, UploadTypeOK, UploadBusy, JobHeld
  <2>3. [jobs[upId] EXCEPT !.sent = @ \cup {f}] \in Entry
    BY <2>2 DEF Entry
  <2>4. /\ Present(jobs)' = Present(jobs)
        /\ jobs'[upId].job = jobs[upId].job
    BY <2>1, <2>2, <2>3, ConstantsAssumption DEF Present, TypeInv, TypeOK, CardTypeOK, Entry
  <2>5. QED
    BY <2>1, <2>4 DEF FifoInv, NumberAhead, JobDue, HeadOwned, CaptureBusy, UploadBusy, IsHead
<1>11. CASE UploadFinish
  <2>1. CASE UNCHANGED jobs
    <3>1. Quiet
      BY <1>11, <2>1 DEF UploadFinish, CaptureBusy, UploadBusy
    <3>2. QED
      BY <3>1, FifoFrame
  <2>2. CASE jobs' # jobs
    <3>1. /\ jobs' = [jobs EXCEPT ![upId] = Absent]
          /\ upPc' = "clean"
          /\ UNCHANGED <<capPc, capId>>
      BY <1>11, <2>2 DEF UploadFinish
    <3>2. Present(jobs)' \subseteq Present(jobs)
      BY <3>1 DEF Present, TypeInv, TypeOK, CardTypeOK
    <3>3. QED
      BY <3>1, <3>2 DEF FifoInv, NumberAhead, JobDue, HeadOwned, CaptureBusy, UploadBusy
  <2>3. QED
    BY <2>1, <2>2
<1>12. CASE UploadClean
  <2>1. Quiet
    BY <1>12 DEF UploadClean, UploadIdle, CaptureBusy, UploadBusy
  <2>2. QED
    BY <2>1, FifoFrame
<1>13. CASE UploadFailed
  <2>1. /\ upPc' = "idle" /\ UNCHANGED <<capPc, capId>>
        /\ jobs' = jobs \/ jobs' = [jobs EXCEPT ![upId].job = [upJob EXCEPT !.waiting = TRUE]]
    BY <1>13 DEF UploadFailed, UploadIdle
  <2>2. jobs[upId] # Absent /\ upId \in Ids
    BY <1>13, ConstantsAssumption
       DEF UploadFailed, TypeInv, TypeOK, UploadTypeOK, JobHeld, UploadBusy
  <2>3. Present(jobs)' \subseteq Present(jobs)
    BY <2>1, <2>2 DEF Present, TypeInv, TypeOK, CardTypeOK
  <2>4. QED
    BY <2>1, <2>3 DEF FifoInv, NumberAhead, JobDue, HeadOwned, CaptureBusy, UploadBusy
<1>14. CASE Crash \/ Start
  <2>1. Quiet
    BY <1>14 DEF Crash, Start, CaptureIdle, UploadIdle, CaptureBusy, UploadBusy
  <2>2. QED
    BY <2>1, FifoFrame
<1>15. QED
  BY <1>1, <1>2, <1>3, <1>4, <1>5, <1>6, <1>7, <1>8, <1>9, <1>m, <1>10, <1>11, <1>12,
     <1>13, <1>14 DEF Next, World, Capture, Upload

\* The upload worker owns the head of the queue for as long as it works on it:
\* no capture, deadline, crash or restart puts another job in front of it or
\* changes its manifest under the worker's feet.
THEOREM UploaderOwnsHead == ASSUME ~BlindScan PROVE Spec => []HeadOwned
<1>1. Init => TypeInv /\ FifoInv
  BY InitTypeInv, InitFifoInv
<1>2. TypeInv /\ FifoInv /\ [Next]_vars => (TypeInv /\ FifoInv)'
  BY NextTypeInv, NextFifoInv
<1>3. TypeInv /\ FifoInv => HeadOwned
  BY DEF FifoInv
<1>4. QED
  BY <1>1, <1>2, <1>3, PTL DEF Spec

-----------------------------------------------------------------------------
(* Versions only grow: no snapshot, folder or marker is ever ahead of a snapshot
   that is still to be sent. *)

\* The entries that are, or are about to be, published.
Unsent == {jobs[j] : j \in Present(jobs)}
          \cup (IF capPc = "publish" THEN {building[capId]} ELSE {})

\* No folder and no marker shows a version the game has not written yet.
LiveAhead ==
    \A s \in Saves :
        /\ marker[s] <= live[s]
        /\ \A b \in Backends, f \in Files : cloud[<<b, s>>][f] <= live[s]

\* No folder and no marker is ahead of a snapshot that is still to be sent, and
\* no snapshot is ahead of the game.
UnsentAhead ==
    \A e \in Unsent :
        /\ e.job.snap <= live[e.job.save]
        /\ marker[e.job.save] <= e.job.snap
        /\ \A b \in Backends, f \in Files : cloud[<<b, e.job.save>>][f] <= e.job.snap

\* The capture about to be published is the newest of its save.
BuiltNewest ==
    capPc = "publish" =>
        \A j \in Present(jobs) :
            jobs[j].job.save = building[capId].job.save
                => jobs[j].job.snap <= building[capId].job.snap

OrderInv == LiveAhead /\ UnsentAhead /\ BuiltNewest /\ CaptureOrder

\* What the arithmetic below needs to know of the types.
VersionTypes ==
    /\ \A e \in Unsent : e \in Entry
    /\ \A e \in Entry : e.job \in Manifest /\ e.job.save \in Saves /\ e.job.snap \in 1..MaxVer
    /\ \A s \in Saves : live[s] \in Nat /\ marker[s] \in Nat
    /\ \A b \in Backends, s \in Saves, f \in Files : cloud[<<b, s>>][f] \in Nat

LEMMA VersionTyping == TypeInv => VersionTypes
<1> SUFFICES ASSUME TypeInv PROVE VersionTypes
  OBVIOUS
<1>1. \A e \in Unsent : e \in Entry
  BY DEF Unsent, Present, TypeInv, TypeOK, CardTypeOK, BuiltComplete
<1>2. \A e \in Entry : e.job \in Manifest /\ e.job.save \in Saves /\ e.job.snap \in 1..MaxVer
  BY DEF Entry, Manifest, Versions
<1>3. \A s \in Saves : live[s] \in Nat /\ marker[s] \in Nat
  BY ConstantsAssumption DEF TypeInv, TypeOK, WorldTypeOK, CardTypeOK, Versions
<1>4. \A b \in Backends, s \in Saves, f \in Files : cloud[<<b, s>>][f] \in Nat
  BY ConstantsAssumption DEF TypeInv, TypeOK, WorldTypeOK
<1>5. QED
  BY <1>1, <1>2, <1>3, <1>4 DEF VersionTypes

LEMMA InitOrderInv == Init => OrderInv
<1> SUFFICES ASSUME Init PROVE OrderInv
  OBVIOUS
<1>1. Present(jobs) = {} /\ Unsent = {}
  BY DEF Init, Present, Unsent
<1>2. LiveAhead
  BY DEF Init, LiveAhead
<1>3. QED
  BY <1>1, <1>2 DEF OrderInv, UnsentAhead, BuiltNewest, CaptureOrder, Init

SameSnapshot(d, e) == d.job.save = e.job.save /\ d.job.snap = e.job.snap

\* A step that publishes and captures nothing, and sends and records nothing but
\* the job the upload worker holds.
OnlySends ==
    /\ \A j \in Present(jobs)' : j \in Present(jobs) /\ SameSnapshot(jobs'[j], jobs[j])
    /\ capPc' = "publish" => capPc = "publish" /\ building'[capId'] = building[capId]
    /\ \A s \in Saves :
          /\ live[s] <= live'[s]
          /\ \/ marker'[s] = marker[s]
             \/ UploadBusy /\ s = upJob.save /\ marker'[s] = upJob.snap
          /\ \A b \in Backends, f \in Files :
                \/ cloud'[<<b, s>>][f] \in {0, cloud[<<b, s>>][f]}
                \/ UploadBusy /\ s = upJob.save /\ cloud'[<<b, s>>][f] = upJob.snap

\* No unsent snapshot of its save is older than the job being uploaded.
LEMMA HeadOldest ==
    ASSUME TypeInv, FifoInv, OrderInv, UploadBusy
    PROVE  /\ jobs[upId] \in Unsent /\ jobs[upId].job = upJob
           /\ \A e \in Unsent : e.job.save = upJob.save => upJob.snap <= e.job.snap
<1>1. IsHead(upId) /\ jobs[upId].job = upJob
  BY DEF FifoInv, HeadOwned
<1>2. jobs[upId] \in Unsent
  BY <1>1 DEF Unsent, IsHead
<1>3. ASSUME NEW e \in Unsent, e.job.save = upJob.save PROVE upJob.snap <= e.job.snap
  <2>1. CASE capPc = "publish" /\ e = building[capId]
    BY <1>1, <1>3, <2>1 DEF OrderInv, BuiltNewest, IsHead
  <2>2. CASE \E j \in Present(jobs) : e = jobs[j]
    <3>1. PICK j \in Present(jobs) : e = jobs[j]
      BY <2>2
    <3>2. upId \in Ids /\ j \in Ids /\ upId <= j
      BY <1>1, <3>1 DEF IsHead, Present
    <3>3. upJob.snap \in 1..MaxVer
      BY <1>2, <1>1, VersionTyping DEF VersionTypes
    <3>4. CASE upId = j
      BY <1>1, <3>1, <3>3, <3>4, ConstantsAssumption
    <3>5. CASE upId < j
      BY <1>1, <1>3, <3>1, <3>2, <3>5 DEF OrderInv, CaptureOrder, IsHead
    <3>6. QED
      BY <3>2, <3>4, <3>5, ConstantsAssumption DEF Ids
  <2>3. QED
    BY <2>1, <2>2 DEF Unsent
<1>4. QED
  BY <1>1, <1>2, <1>3

LEMMA OrderFrame ==
    ASSUME TypeInv, TypeInv', FifoInv, OrderInv, OnlySends
    PROVE  OrderInv'
<1> USE ConstantsAssumption DEF OrderInv
<1>1. VersionTypes /\ VersionTypes'
  <2>1. TypeInv' => VersionTypes'
    BY VersionTyping, PTL
  <2>2. QED
    BY <2>1, VersionTyping
<1>2. UploadBusy => /\ upJob.save \in Saves /\ upJob.snap \in 1..MaxVer
                    /\ upJob.snap <= live[upJob.save]
                    /\ \A e \in Unsent : e.job.save = upJob.save => upJob.snap <= e.job.snap
  BY <1>1, HeadOldest DEF VersionTypes, UnsentAhead
<1>3. LiveAhead'
  <2> SUFFICES ASSUME NEW s \in Saves
               PROVE  /\ marker'[s] <= live'[s]
                      /\ \A b \in Backends, f \in Files : cloud'[<<b, s>>][f] <= live'[s]
    BY DEF LiveAhead
  <2>1. marker'[s] <= live'[s]
    BY <1>1, <1>2 DEF LiveAhead, OnlySends, VersionTypes
  <2>2. ASSUME NEW b \in Backends, NEW f \in Files PROVE cloud'[<<b, s>>][f] <= live'[s]
    BY <1>1, <1>2 DEF LiveAhead, OnlySends, VersionTypes
  <2>3. QED
    BY <2>1, <2>2
<1>4. \A e \in Unsent' : \E d \in Unsent : SameSnapshot(e, d)
  BY DEF Unsent, OnlySends, SameSnapshot
<1>5. UnsentAhead'
  <2> SUFFICES ASSUME NEW e \in Unsent'
               PROVE  /\ e.job.snap <= live'[e.job.save]
                      /\ marker'[e.job.save] <= e.job.snap
                      /\ \A b \in Backends, f \in Files :
                            cloud'[<<b, e.job.save>>][f] <= e.job.snap
    BY DEF UnsentAhead
  <2>1. PICK d \in Unsent : SameSnapshot(e, d)
    BY <1>4
  <2>2. e \in Entry /\ d \in Entry /\ e.job.save \in Saves /\ e.job.snap \in 1..MaxVer
    BY <1>1 DEF VersionTypes
  <2>3. e.job.snap <= live'[e.job.save]
    BY <1>1, <2>1, <2>2 DEF UnsentAhead, SameSnapshot, OnlySends, VersionTypes
  <2>4. marker'[e.job.save] <= e.job.snap
    BY <1>1, <1>2, <2>1, <2>2 DEF UnsentAhead, SameSnapshot, OnlySends, VersionTypes
  <2>5. ASSUME NEW b \in Backends, NEW f \in Files
        PROVE  cloud'[<<b, e.job.save>>][f] <= e.job.snap
    BY <1>1, <1>2, <2>1, <2>2 DEF UnsentAhead, SameSnapshot, OnlySends, VersionTypes
  <2>6. QED
    BY <2>3, <2>4, <2>5
<1>6. BuiltNewest'
  BY DEF BuiltNewest, OnlySends, SameSnapshot
<1>7. CaptureOrder'
  BY DEF CaptureOrder, OnlySends, SameSnapshot
<1>8. QED
  BY <1>3, <1>5, <1>6, <1>7

\* The frame of most steps: they touch no snapshot, folder or marker.
Still ==
    /\ UNCHANGED <<jobs, marker, cloud>>
    /\ capPc' = "publish" => capPc = "publish" /\ UNCHANGED <<building, capId>>
    /\ \A s \in Saves : live[s] <= live'[s]

LEMMA StillOnlySends == ASSUME TypeInv, Still PROVE OnlySends
<1>1. VersionTypes
  BY VersionTyping
<1>2. \A j \in Present(jobs)' : j \in Present(jobs) /\ SameSnapshot(jobs'[j], jobs[j])
  BY DEF Still, Present, SameSnapshot
<1>3. capPc' = "publish" => capPc = "publish" /\ building'[capId'] = building[capId]
  BY DEF Still
<1>4. ASSUME NEW s \in Saves
      PROVE  /\ live[s] <= live'[s] /\ marker'[s] = marker[s]
             /\ \A b \in Backends, f \in Files : cloud'[<<b, s>>][f] = cloud[<<b, s>>][f]
  BY <1>1 DEF VersionTypes, Still
<1>5. QED
  BY <1>2, <1>3, <1>4 DEF OnlySends

\* Every step but a successful copy and a publication only sends.
LEMMA MostOnlySend ==
    ASSUME TypeInv, FifoInv, [Next]_vars
    PROVE  OnlySends \/ CaptureCopy \/ CapturePublish
<1> USE DEF envVars, sdVars, queueVars, capVars, upVars
<1>0. VersionTypes /\ \A s \in Saves : live[s] <= live[s]
  BY VersionTyping DEF VersionTypes
<1>1. CASE UNCHANGED vars
  BY <1>0, <1>1, StillOnlySends DEF vars, Still
<1>2. CASE Pause \/ Resume \/ \E s \in Saves : Exclude(s) \/ Include(s)
  BY <1>0, <1>2, StillOnlySends DEF Pause, Resume, Exclude, Include, Still
<1>3. ASSUME NEW s \in Saves, Play(s) PROVE OnlySends
  <2>1. \A t \in Saves : live[t] <= live'[t]
    BY <1>0, <1>3 DEF Play, VersionTypes, TypeInv, TypeOK, WorldTypeOK
  <2>2. QED
    BY <1>3, <2>1, StillOnlySends DEF Play, Still
<1>4. ASSUME NEW i \in Ids, DeadlinePasses(i) PROVE OnlySends
  <2>1. jobs[i] \in Entry
    BY <1>4 DEF DeadlinePasses, Present, TypeInv, TypeOK, CardTypeOK
  <2>2. jobs' = [jobs EXCEPT ![i] = [jobs[i] EXCEPT !.job.waiting = FALSE]]
    BY <1>4 DEF DeadlinePasses, TypeInv, TypeOK, CardTypeOK
  <2>3. SameSnapshot([jobs[i] EXCEPT !.job.waiting = FALSE], jobs[i])
    BY <2>1 DEF SameSnapshot, Entry, Manifest
  <2>4. \A j \in Present(jobs)' : j \in Present(jobs) /\ SameSnapshot(jobs'[j], jobs[j])
    BY <1>4, <2>2, <2>3 DEF DeadlinePasses, Present, SameSnapshot, TypeInv, TypeOK, CardTypeOK
  <2>5. UNCHANGED <<building, live, marker, cloud, capPc, capId>>
    BY <1>4 DEF DeadlinePasses
  <2>6. QED
    BY <1>0, <2>4, <2>5 DEF OnlySends, VersionTypes
<1>5. CASE (\E s \in Saves : CaptureBegin(s)) \/ CaptureDiscard
  BY <1>0, <1>5, StillOnlySends DEF CaptureBegin, CaptureDiscard, CaptureIdle, Still
<1>6. CASE UploadPick \/ UploadOpen \/ UploadAbort \/ UploadTreeDone \/ UploadPruneDone
           \/ UploadClean \/ \E lost \in SUBSET upTodo : UploadMisses(lost)
  BY <1>0, <1>6, StillOnlySends
     DEF UploadPick, UploadOpen, UploadAbort, UploadTreeDone, UploadPruneDone, UploadClean,
         UploadMisses, UploadIdle, Still
<1>7. CASE UploadMark
  <2>1. /\ UploadBusy /\ UNCHANGED <<jobs, building, capPc, capId, cloud, live>>
        /\ marker' = marker \/ marker' = [marker EXCEPT ![upJob.save] = upJob.snap]
    BY <1>7 DEF UploadMark, UploadBusy
  <2>2. \A s \in Saves : \/ marker'[s] = marker[s]
                         \/ UploadBusy /\ s = upJob.save /\ marker'[s] = upJob.snap
    BY <1>0, <2>1 DEF VersionTypes, TypeInv, TypeOK, CardTypeOK
  <2>3. QED
    BY <1>0, <2>1, <2>2 DEF OnlySends, Present, SameSnapshot, VersionTypes
<1>8. CASE UploadFinish
  <2>1. /\ UNCHANGED <<building, capPc, capId, cloud, live, marker>>
        /\ jobs' = jobs \/ jobs' = [jobs EXCEPT ![upId] = Absent]
    BY <1>8 DEF UploadFinish
  <2>2. \A j \in Present(jobs)' : j \in Present(jobs) /\ SameSnapshot(jobs'[j], jobs[j])
    BY <2>1 DEF Present, SameSnapshot, TypeInv, TypeOK, CardTypeOK
  <2>3. QED
    BY <1>0, <2>1, <2>2 DEF OnlySends, VersionTypes
<1>9. CASE UploadFailed
  <2>1. /\ UNCHANGED <<building, cloud, live, marker, capPc, capId>> /\ UploadBusy
        /\ jobs' = jobs \/ jobs' = [jobs EXCEPT ![upId].job = [upJob EXCEPT !.waiting = TRUE]]
    BY <1>9 DEF UploadFailed, UploadBusy
  <2>2. jobs[upId] \in Entry /\ jobs[upId].job = upJob /\ upId \in Ids /\ upJob \in Manifest
    BY <2>1 DEF TypeInv, TypeOK, UploadTypeOK, JobHeld, UploadBusy, FifoInv, HeadOwned
  <2>3. SameSnapshot([jobs[upId] EXCEPT !.job = [upJob EXCEPT !.waiting = TRUE]], jobs[upId])
    BY <2>2 DEF SameSnapshot, Entry, Manifest
  <2>4. \A j \in Present(jobs)' : j \in Present(jobs) /\ SameSnapshot(jobs'[j], jobs[j])
    BY <2>1, <2>2, <2>3, ConstantsAssumption
       DEF Present, SameSnapshot, TypeInv, TypeOK, CardTypeOK
  <2>5. QED
    BY <1>0, <2>1, <2>4 DEF OnlySends, VersionTypes
<1>10. ASSUME NEW g \in Files, UploadFile(g) \/ UploadPrune(g) \/ UploadPruneBlind(g)
      PROVE  OnlySends
  <2>1. /\ UploadBusy /\ UNCHANGED <<building, live, marker, capPc, capId>>
        /\ jobs' = jobs \/ jobs' = [jobs EXCEPT ![upId].sent = @ \cup {g}]
        /\ \/ cloud' = cloud
           \/ cloud' = [cloud EXCEPT ![Folder][g] = upJob.snap]
           \/ cloud' = [cloud EXCEPT ![Folder][g] = 0]
    BY <1>10 DEF UploadFile, UploadPrune, UploadPruneBlind, UploadBusy
  <2>2. jobs[upId] \in Entry /\ upId \in Ids /\ upJob \in Manifest
    BY <2>1 DEF TypeInv, TypeOK, UploadTypeOK, JobHeld, UploadBusy
  <2>3. SameSnapshot([jobs[upId] EXCEPT !.sent = @ \cup {g}], jobs[upId])
    BY <2>2 DEF SameSnapshot, Entry
  <2>4. \A j \in Present(jobs)' : j \in Present(jobs) /\ SameSnapshot(jobs'[j], jobs[j])
    BY <2>1, <2>2, <2>3, ConstantsAssumption
       DEF Present, SameSnapshot, TypeInv, TypeOK, CardTypeOK
  <2>5. ASSUME NEW b \in Backends, NEW s \in Saves, NEW f \in Files
        PROVE  \/ cloud'[<<b, s>>][f] \in {0, cloud[<<b, s>>][f]}
               \/ UploadBusy /\ s = upJob.save /\ cloud'[<<b, s>>][f] = upJob.snap
    <3>1. Folder \in Backends \X Saves /\ (<<b, s>> = Folder => s = upJob.save)
      BY <2>2 DEF Folder, Manifest, TypeInv, TypeOK, CaptureTypeOK
    <3>2. \/ cloud'[<<b, s>>][f] = cloud[<<b, s>>][f]
          \/ <<b, s>> = Folder /\ cloud'[<<b, s>>][f] = upJob.snap
          \/ cloud'[<<b, s>>][f] = 0
      BY <2>1, <3>1 DEF TypeInv, TypeOK, WorldTypeOK
    <3>3. QED
      BY <1>0, <2>1, <3>1, <3>2 DEF VersionTypes
  <2>6. QED
    BY <1>0, <2>1, <2>4, <2>5 DEF OnlySends, VersionTypes
<1>11. CASE Crash \/ Start
  BY <1>0, <1>11, StillOnlySends DEF Crash, Start, CaptureIdle, UploadIdle, Still, TypeInv,
                                    NoGhostWorker
<1>12. QED
  BY <1>1, <1>2, <1>3, <1>4, <1>5, <1>6, <1>7, <1>8, <1>9, <1>10, <1>11
     DEF Next, World, Capture, Upload

LEMMA NextOrderInv ==
    ASSUME TypeInv, TypeInv', FifoInv, OrderInv, [Next]_vars
    PROVE  OrderInv'
<1> USE DEF OrderInv, envVars, sdVars, queueVars, capVars, upVars
<1>0. VersionTypes
  BY VersionTyping
<1>1. CASE OnlySends
  BY <1>1, OrderFrame
<1>2. CASE CaptureCopy /\ ~OnlySends
  <2>1. UNCHANGED <<live, cloud, marker, jobs, capId>> /\ capPc = "copy"
    BY <1>2 DEF CaptureCopy
  <2>2. capPc' = "publish"
    BY <1>0, <1>2, <2>1, StillOnlySends DEF CaptureCopy, Still, VersionTypes
  <2>3. building'[capId].job.save = capSave /\ building'[capId].job.snap = live[capSave]
    <3>1. PICK got :
             building' = [building EXCEPT ![capId] =
                    [job  |-> [save |-> capSave, snap |-> live[capSave], has |-> got,
                               backend |-> active, waiting |-> FALSE],
                     sent |-> {}]]
      BY <1>2, <2>2 DEF CaptureCopy
    <3>2. capId \in Ids
      BY <2>1 DEF TypeInv, TypeOK, CaptureTypeOK, CaptureBusy
    <3>3. QED
      BY <3>1, <3>2 DEF TypeInv, TypeOK, CardTypeOK
  <2>4. capSave \in Saves /\ live[capSave] \in Nat
    BY <1>0, <2>1 DEF VersionTypes, TypeInv, TypeOK, CaptureTypeOK, CaptureBusy
  <2>5. Unsent' = {jobs[j] : j \in Present(jobs)} \cup {building'[capId]}
        /\ Unsent = {jobs[j] : j \in Present(jobs)}
    BY <2>1, <2>2 DEF Unsent, Present
  <2>6. LiveAhead'
    BY <2>1 DEF LiveAhead
  <2>7. UnsentAhead'
    BY <2>1, <2>3, <2>4, <2>5 DEF UnsentAhead, LiveAhead
  <2>8. BuiltNewest'
    BY <2>1, <2>3, <2>5 DEF BuiltNewest, UnsentAhead, Present
  <2>9. CaptureOrder'
    BY <2>1 DEF CaptureOrder, Present
  <2>10. QED
    BY <2>6, <2>7, <2>8, <2>9
<1>3. CASE CapturePublish /\ ~OnlySends
  <2>1. UNCHANGED <<live, cloud, marker>> /\ capPc = "publish" /\ capPc' # "publish"
    BY <1>3 DEF CapturePublish, CaptureIdle
  <2>2. jobs' = [jobs EXCEPT ![capId] = building[capId]]
    BY <1>0, <1>3, <2>1, StillOnlySends DEF CapturePublish, Still, VersionTypes
  <2>3. capId \in Ids /\ \A j \in Present(jobs) : j < capId
    BY <2>1 DEF TypeInv, TypeOK, CaptureTypeOK, CaptureBusy, FifoInv, NumberAhead
  <2>4. /\ \A j \in Present(jobs)' : j = capId \/ j \in Present(jobs)
        /\ \A j \in Present(jobs) : jobs'[j] = jobs[j]
        /\ jobs'[capId] = building[capId]
    BY <2>2, <2>3, ConstantsAssumption DEF Present, Ids, TypeInv, TypeOK, CardTypeOK
  <2>5. Unsent' \subseteq Unsent
    BY <2>1, <2>4 DEF Unsent
  <2>6. LiveAhead' /\ BuiltNewest'
    BY <2>1 DEF LiveAhead, BuiltNewest
  <2>7. UnsentAhead'
    BY <2>1, <2>5 DEF UnsentAhead
  <2>8. CaptureOrder'
    <3> SUFFICES ASSUME NEW i \in Present(jobs)', NEW j \in Present(jobs)',
                        jobs'[i].job.save = jobs'[j].job.save, i < j
                 PROVE  jobs'[i].job.snap <= jobs'[j].job.snap
      BY DEF CaptureOrder
    <3>1. i # capId
      BY <2>3, <2>4, ConstantsAssumption DEF Present, Ids
    <3>2. CASE j = capId
      BY <2>1, <2>4, <3>1, <3>2 DEF BuiltNewest
    <3>3. CASE j # capId
      BY <2>4, <3>1, <3>3 DEF CaptureOrder
    <3>4. QED
      BY <3>2, <3>3
  <2>9. QED
    BY <2>6, <2>7, <2>8
<1>4. QED
  BY <1>1, <1>2, <1>3, MostOnlySend

\* Sequence numbers follow capture order: of two published snapshots of one save
\* the one that is sent first is never the newer one.
THEOREM SnapshotsInOrder == ASSUME ~BlindScan PROVE Spec => []CaptureOrder
<1>1. Init => TypeInv /\ FifoInv /\ OrderInv
  BY InitTypeInv, InitFifoInv, InitOrderInv
<1>2. TypeInv /\ FifoInv /\ OrderInv /\ [Next]_vars => (TypeInv /\ FifoInv /\ OrderInv)'
  BY NextTypeInv, NextFifoInv, NextOrderInv
<1>3. TypeInv /\ FifoInv /\ OrderInv => CaptureOrder
  BY DEF OrderInv
<1>4. QED
  BY <1>1, <1>2, <1>3, PTL DEF Spec

\* The step NoRollback asserts of every transition.
Forward ==
    /\ \A s \in Saves : marker[s] <= marker'[s]
    /\ \A bs \in Backends \X Saves, f \in Files :
          cloud'[bs][f] = 0 \/ cloud[bs][f] <= cloud'[bs][f]

LEMMA StepForward ==
    ASSUME TypeInv, FifoInv, OrderInv, [Next]_vars
    PROVE  Forward
<1>1. VersionTypes
  BY VersionTyping
<1>2. UploadBusy => /\ marker[upJob.save] <= upJob.snap
                    /\ \A b \in Backends, f \in Files :
                          cloud[<<b, upJob.save>>][f] <= upJob.snap
  BY HeadOldest DEF OrderInv, UnsentAhead
<1>3. CASE OnlySends
  <2>1. \A s \in Saves : marker[s] <= marker'[s]
    BY <1>1, <1>2, <1>3 DEF OnlySends, VersionTypes
  <2>2. ASSUME NEW b \in Backends, NEW s \in Saves, NEW f \in Files
        PROVE  cloud'[<<b, s>>][f] = 0 \/ cloud[<<b, s>>][f] <= cloud'[<<b, s>>][f]
    BY <1>1, <1>2, <1>3 DEF OnlySends, VersionTypes
  <2>3. QED
    BY <2>1, <2>2 DEF Forward
<1>4. CASE CaptureCopy \/ CapturePublish
  <2>1. UNCHANGED <<marker, cloud>>
    BY <1>4 DEF CaptureCopy, CapturePublish
  <2>2. QED
    BY <1>1, <2>1 DEF Forward, VersionTypes
<1>5. QED
  BY <1>3, <1>4, MostOnlySend

\* Across retries, pauses, crashes, restarts and changes of provider, neither the
\* marker of a save nor a file of its cloud folder goes back to an older version.
THEOREM NeverRollsBack == ASSUME ~BlindScan PROVE Spec => NoRollback
<1>1. Init => TypeInv /\ FifoInv /\ OrderInv
  BY InitTypeInv, InitFifoInv, InitOrderInv
<1>2. TypeInv /\ FifoInv /\ OrderInv /\ [Next]_vars => (TypeInv /\ FifoInv /\ OrderInv)'
  BY NextTypeInv, NextFifoInv, NextOrderInv
<1>3. TypeInv /\ FifoInv /\ OrderInv /\ [Next]_vars => [Forward]_vars
  BY StepForward
<1>4. QED
  BY <1>1, <1>2, <1>3, PTL DEF Spec, NoRollback, Forward

-----------------------------------------------------------------------------
(* A marker is only written, and a job only retired, when the cloud folder is an
   exact mirror of the snapshot, but for the files this upload could not see.  The argument is about the journal uploaded.txt:
   a file it lists may be skipped on a retry only because nothing but the head of
   the queue can have written the folder since. *)

\* Only the head has a journal, and a file it lists is in the folder in the
\* head's version, or gone.
JournalTrue ==
    \A j \in Present(jobs) :
        \A f \in jobs[j].sent :
            /\ IsHead(j)
            /\ cloud[<<jobs[j].job.backend, jobs[j].job.save>>][f] \in {0, jobs[j].job.snap}

\* A capture is published with an empty journal.
BuiltFresh == capPc = "publish" => building[capId].sent = {}

JournalInv == JournalTrue /\ BuiltFresh

Sent(f) == cloud[Folder][f] = upJob.snap

\* How far the upload in progress has made the folder equal to the snapshot, but
\* for the files an error of readdir or stat hid from it.
PinnedProvider == UploadBusy => upJob.backend = active
TreeProgress ==
    upPc = "tree" =>
        /\ upTodo \subseteq upJob.has
        /\ upOk => \A f \in upJob.has \ (upTodo \cup unread) : Sent(f)
PruneProgress ==
    upPc = "prune" =>
        /\ \A f \in upJob.has : f \notin upTodo /\ (f \in unread \/ Sent(f))
        /\ upOk => \A f \in Files \ (upJob.has \cup upTodo) : cloud[Folder][f] = 0
Delivered ==
    /\ upPc \in {"mark", "finish"} => Mirrors(upJob, Files \ unread)
    /\ upPc = "finish" => marker[upJob.save] = upJob.snap

FolderInv == PinnedProvider /\ TreeProgress /\ PruneProgress /\ Delivered

LEMMA InitMirror == Init => JournalInv /\ FolderInv
  BY DEF Init, JournalInv, JournalTrue, BuiltFresh, Present, FolderInv, PinnedProvider,
         TreeProgress, PruneProgress, Delivered, UploadBusy

-----------------------------------------------------------------------------
(* The journal. *)

SameJob(d, e) ==
    /\ d.job.save = e.job.save /\ d.job.snap = e.job.snap /\ d.job.backend = e.job.backend
    /\ d.sent = e.sent

\* A step that sends nothing and publishes nothing keeps every journal true.
LEMMA JournalFrame ==
    ASSUME JournalInv, UNCHANGED cloud,
           \A j \in Present(jobs)' : j \in Present(jobs) /\ SameJob(jobs'[j], jobs[j]),
           capPc' = "publish" => capPc = "publish" /\ UNCHANGED <<building, capId>>
    PROVE  JournalInv'
<1>1. JournalTrue'
  BY DEF JournalInv, JournalTrue, SameJob, IsHead
<1>2. BuiltFresh'
  BY DEF JournalInv, BuiltFresh
<1>3. QED
  BY <1>1, <1>2 DEF JournalInv

\* The usual case: no job changes at all.
LEMMA JournalStill ==
    ASSUME JournalInv, UNCHANGED <<cloud, jobs>>,
           capPc' = "publish" => capPc = "publish" /\ UNCHANGED <<building, capId>>
    PROVE  JournalInv'
  BY JournalFrame DEF SameJob, Present

\* What the upload worker holds, gathered from the invariants below it.
LEMMA Held ==
    ASSUME TypeInv, FifoInv, UploadBusy
    PROVE  /\ upId \in Ids /\ upId \in Present(jobs) /\ jobs[upId] \in Entry
           /\ upJob \in Manifest /\ jobs[upId].job = upJob
           /\ IsHead(upId) /\ \A j \in Present(jobs) : IsHead(j) => j = upId
           /\ Folder \in Backends \X Saves /\ upJob.snap \in 1..MaxVer
           /\ upJob.has \subseteq Files
<1>1. upId \in Ids /\ upJob \in Manifest /\ jobs[upId] \in Entry
  BY DEF UploadBusy, TypeInv, TypeOK, UploadTypeOK, JobHeld
<1>2. IsHead(upId) /\ jobs[upId].job = upJob
  BY DEF FifoInv, HeadOwned
<1>3. Folder \in Backends \X Saves /\ upJob.snap \in 1..MaxVer /\ upJob.has \subseteq Files
  BY <1>1 DEF Folder, Manifest, Versions, TypeInv, TypeOK, CaptureTypeOK
<1>4. ASSUME NEW j \in Present(jobs), IsHead(j) PROVE j = upId
  BY <1>2, <1>4, ConstantsAssumption DEF IsHead, Present, Ids
<1>5. QED
  BY <1>1, <1>2, <1>3, <1>4 DEF IsHead

LEMMA NextJournalInv ==
    ASSUME TypeInv, FifoInv, JournalInv, PinnedProvider, [Next]_vars
    PROVE  JournalInv'
<1> USE DEF envVars, sdVars, queueVars, capVars, upVars
<1>1. CASE UNCHANGED vars
  BY <1>1, JournalStill DEF vars
<1>2. CASE Pause \/ Resume \/ \E s \in Saves : Play(s) \/ Exclude(s) \/ Include(s)
  BY <1>2, JournalStill DEF Pause, Resume, Play, Exclude, Include
<1>3. ASSUME NEW i \in Ids, DeadlinePasses(i) PROVE JournalInv'
  <2>1. jobs[i] \in Entry
    BY <1>3 DEF DeadlinePasses, Present, TypeInv, TypeOK, CardTypeOK
  <2>2. jobs' = [jobs EXCEPT ![i] = [jobs[i] EXCEPT !.job.waiting = FALSE]]
    BY <1>3 DEF DeadlinePasses, TypeInv, TypeOK, CardTypeOK
  <2>3. SameJob([jobs[i] EXCEPT !.job.waiting = FALSE], jobs[i])
    BY <2>1 DEF SameJob, Entry, Manifest
  <2>4. \A j \in Present(jobs)' : j \in Present(jobs) /\ SameJob(jobs'[j], jobs[j])
    BY <1>3, <2>2, <2>3 DEF DeadlinePasses, Present, SameJob, TypeInv, TypeOK, CardTypeOK
  <2>5. UNCHANGED <<building, cloud, capPc, capId>>
    BY <1>3 DEF DeadlinePasses
  <2>6. QED
    BY <2>4, <2>5, JournalFrame
<1>4. CASE (\E s \in Saves : CaptureBegin(s)) \/ CaptureDiscard
  BY <1>4, JournalStill DEF CaptureBegin, CaptureDiscard, CaptureIdle
<1>5. CASE CaptureCopy
  <2>1. UNCHANGED <<cloud, jobs, capId>>
    BY <1>5 DEF CaptureCopy
  <2>2. JournalTrue'
    BY <2>1 DEF JournalInv, JournalTrue, IsHead, Present
  <2>3. BuiltFresh'
    <3> SUFFICES ASSUME capPc' = "publish" PROVE building'[capId].sent = {}
      BY <2>1 DEF BuiltFresh
    <3>1. PICK m : building' = [building EXCEPT ![capId] = [job |-> m, sent |-> {}]]
      BY <1>5 DEF CaptureCopy
    <3>2. capId \in Ids
      BY <1>5 DEF CaptureCopy, TypeInv, TypeOK, CaptureTypeOK, CaptureBusy
    <3>3. QED
      BY <3>1, <3>2 DEF TypeInv, TypeOK, CardTypeOK
  <2>4. QED
    BY <2>2, <2>3 DEF JournalInv
<1>6. CASE CapturePublish
  <2>1. UNCHANGED cloud /\ capPc = "publish" /\ capPc' # "publish"
    BY <1>6 DEF CapturePublish, CaptureIdle
  <2>2. CASE UNCHANGED jobs
    BY <2>1, <2>2, JournalStill
  <2>3. CASE jobs' # jobs
    <3>1. jobs' = [jobs EXCEPT ![capId] = building[capId]]
      BY <1>6, <2>3 DEF CapturePublish
    <3>2. capId \in Ids /\ (\A j \in Present(jobs) : j < capId) /\ building[capId].sent = {}
      BY <2>1 DEF TypeInv, TypeOK, CaptureTypeOK, CaptureBusy, FifoInv, NumberAhead,
                  JournalInv, BuiltFresh
    <3>3. /\ \A j \in Present(jobs)' : j = capId \/ j \in Present(jobs)
          /\ \A j \in Present(jobs) : jobs'[j] = jobs[j]
          /\ jobs'[capId].sent = {}
      BY <3>1, <3>2, ConstantsAssumption DEF Present, Ids, TypeInv, TypeOK, CardTypeOK
    <3>4. ASSUME NEW j \in Present(jobs), IsHead(j) PROVE IsHead(j)'
      BY <3>2, <3>3, <3>4, ConstantsAssumption DEF IsHead, Present, Ids
    <3>5. JournalTrue'
      BY <2>1, <3>3, <3>4 DEF JournalInv, JournalTrue
    <3>6. QED
      BY <2>1, <3>5 DEF JournalInv, BuiltFresh
  <2>4. QED
    BY <2>2, <2>3
<1>7. CASE UploadPick \/ UploadOpen \/ UploadAbort \/ UploadTreeDone \/ UploadPruneDone
           \/ UploadMark \/ UploadClean \/ \E lost \in SUBSET upTodo : UploadMisses(lost)
  BY <1>7, JournalStill
     DEF UploadPick, UploadOpen, UploadAbort, UploadTreeDone, UploadPruneDone, UploadMark,
         UploadClean, UploadMisses, UploadIdle
<1>8. CASE UploadFinish
  <2>1. /\ UploadBusy /\ UNCHANGED <<cloud, building, capPc, capId>>
        /\ jobs' = jobs \/ jobs' = [jobs EXCEPT ![upId] = Absent]
    BY <1>8 DEF UploadFinish, UploadBusy
  <2>2. \A j \in Present(jobs)' : j \in Present(jobs) /\ SameJob(jobs'[j], jobs[j])
    BY <2>1 DEF Present, SameJob, TypeInv, TypeOK, CardTypeOK
  <2>3. CASE UNCHANGED jobs
    BY <2>1, <2>3, JournalStill
  <2>4. CASE jobs' = [jobs EXCEPT ![upId] = Absent]
    <3>1. upId \notin Present(jobs)'
      BY <2>1, <2>4, Held DEF Present, TypeInv, TypeOK, CardTypeOK
    <3>2. \A j \in Present(jobs)' : jobs'[j].sent = {}
      BY <2>1, <2>2, <3>1, Held DEF JournalInv, JournalTrue, SameJob
    <3>3. QED
      BY <2>1, <3>2 DEF JournalInv, JournalTrue, BuiltFresh
  <2>5. QED
    BY <2>1, <2>3, <2>4
<1>9. CASE UploadFailed
  <2>1. /\ UploadBusy /\ UNCHANGED <<cloud, building, capPc, capId>>
        /\ jobs' = jobs \/ jobs' = [jobs EXCEPT ![upId].job = [upJob EXCEPT !.waiting = TRUE]]
    BY <1>9 DEF UploadFailed, UploadBusy
  <2>2. SameJob([jobs[upId] EXCEPT !.job = [upJob EXCEPT !.waiting = TRUE]], jobs[upId])
    BY <2>1, Held DEF SameJob, Entry, Manifest
  <2>3. \A j \in Present(jobs)' : j \in Present(jobs) /\ SameJob(jobs'[j], jobs[j])
    BY <2>1, <2>2, Held DEF Present, SameJob, TypeInv, TypeOK, CardTypeOK
  <2>4. QED
    BY <2>1, <2>3, JournalFrame
<1>10. ASSUME NEW g \in Files, UploadFile(g) \/ UploadPrune(g) \/ UploadPruneBlind(g)
      PROVE  JournalInv'
  <2>1. /\ UploadBusy /\ UNCHANGED <<building, capPc, capId, upId>>
        /\ \/ jobs' = jobs
           \/ /\ jobs' = [jobs EXCEPT ![upId].sent = @ \cup {g}]
              /\ cloud' = [cloud EXCEPT ![Folder][g] = upJob.snap]
        /\ \/ cloud' = cloud
           \/ cloud' = [cloud EXCEPT ![Folder][g] = upJob.snap]
           \/ cloud' = [cloud EXCEPT ![Folder][g] = 0]
    BY <1>10 DEF UploadFile, UploadPrune, UploadPruneBlind, UploadBusy
  <2>2. \A j \in Present(jobs) : j # upId => jobs[j].sent = {}
    BY <2>1, Held DEF JournalInv, JournalTrue
  <2>3. /\ Present(jobs)' = Present(jobs)
        /\ \A j \in Present(jobs) : j # upId => jobs'[j] = jobs[j]
        /\ jobs'[upId].job = upJob
        /\ jobs'[upId].sent \in {jobs[upId].sent, jobs[upId].sent \cup {g}}
        /\ jobs' # jobs => cloud' = [cloud EXCEPT ![Folder][g] = upJob.snap]
    <3>1. [jobs[upId] EXCEPT !.sent = @ \cup {g}] \in Entry
      BY <2>1, Held DEF Entry
    <3>2. QED
      BY <2>1, <3>1, Held, ConstantsAssumption DEF Present, TypeInv, TypeOK, CardTypeOK, Entry
  <2>4. Folder = <<upJob.backend, upJob.save>>
    BY <2>1 DEF Folder, PinnedProvider
  <2>5. ASSUME NEW f \in jobs'[upId].sent PROVE cloud'[Folder][f] \in {0, upJob.snap}
    <3>1. f \in Files /\ Folder \in Backends \X Saves
      BY <2>1, <2>3, Held DEF Entry
    <3>2. CASE f = g /\ f \notin jobs[upId].sent
      <4>1. jobs' # jobs
        BY <3>2
      <4>2. QED
        BY <2>3, <3>1, <3>2, <4>1 DEF TypeInv, TypeOK, WorldTypeOK
    <3>3. CASE f \in jobs[upId].sent
      <4>1. cloud[Folder][f] \in {0, upJob.snap}
        BY <2>1, <2>4, <3>3, Held DEF JournalInv, JournalTrue
      <4>2. QED
        BY <2>1, <3>1, <4>1 DEF TypeInv, TypeOK, WorldTypeOK
    <3>4. QED
      BY <2>3, <3>2, <3>3
  <2>6. IsHead(upId)'
    BY <2>1, <2>3, Held DEF IsHead
  <2>7. JournalTrue'
    <3> SUFFICES ASSUME NEW j \in Present(jobs)', NEW f \in jobs'[j].sent
                 PROVE  /\ IsHead(j)'
                        /\ cloud'[<<jobs'[j].job.backend, jobs'[j].job.save>>][f]
                              \in {0, jobs'[j].job.snap}
      BY DEF JournalTrue
    <3>1. j = upId
      BY <2>2, <2>3
    <3>2. QED
      BY <2>1, <2>3, <2>4, <2>5, <2>6, <3>1
  <2>8. QED
    BY <2>1, <2>7 DEF JournalInv, BuiltFresh
<1>11. CASE Crash \/ Start
  BY <1>11, JournalStill DEF Crash, Start, CaptureIdle, UploadIdle, TypeInv, NoGhostWorker
<1>12. QED
  BY <1>1, <1>2, <1>3, <1>4, <1>5, <1>6, <1>7, <1>8, <1>9, <1>10, <1>11
     DEF Next, World, Capture, Upload

-----------------------------------------------------------------------------
(* The folder. *)

\* A step that leaves the uploader, the folders and the markers alone.
LEMMA FolderStill ==
    ASSUME FolderInv,
           UNCHANGED <<upPc, upId, upJob, upTodo, upOk, active, cloud, marker, unread>>
    PROVE  FolderInv'
  BY DEF FolderInv, PinnedProvider, TreeProgress, PruneProgress, Delivered, UploadBusy, Sent,
         Folder, FolderOf, Mirrors

\* A step after which the uploader is not sending, pruning or recording.
LEMMA FolderIdle ==
    ASSUME upPc' \in {"idle", "open", "clean", "failed"},
           UploadBusy' => upJob'.backend = active'
    PROVE  FolderInv'
  BY DEF FolderInv, PinnedProvider, TreeProgress, PruneProgress, Delivered

LEMMA NextFolderInv ==
    ASSUME TypeInv, FifoInv, JournalInv, FolderInv, [Next]_vars
    PROVE  FolderInv'
<1> USE DEF envVars, sdVars, queueVars, capVars, upVars
<1>1. CASE UNCHANGED vars
  BY <1>1, FolderStill DEF vars
<1>2. CASE Pause \/ Resume \/ (\E s \in Saves : Play(s) \/ Exclude(s) \/ Include(s))
           \/ \E i \in Ids : DeadlinePasses(i)
  BY <1>2, FolderStill DEF Pause, Resume, Play, Exclude, Include, DeadlinePasses
<1>3. CASE (\E s \in Saves : CaptureBegin(s)) \/ CaptureCopy \/ CapturePublish
           \/ CaptureDiscard
  BY <1>3, FolderStill DEF CaptureBegin, CaptureCopy, CapturePublish, CaptureDiscard
<1>4. CASE UploadPick
  BY <1>4, FolderIdle DEF UploadPick
<1>5. CASE UploadOpen
  <2>1. UNCHANGED <<upJob, active, cloud>> /\ upPc = "open"
    BY <1>5 DEF UploadOpen
  <2>2. upJob'.backend = active'
    BY <2>1 DEF FolderInv, PinnedProvider, UploadBusy
  <2>3. CASE upPc' = "failed"
    BY <2>2, <2>3, FolderIdle
  <2>4. CASE upPc' = "tree" /\ upTodo' = upJob.has
    BY <2>1, <2>2, <2>4
       DEF FolderInv, PinnedProvider, TreeProgress, PruneProgress, Delivered
  <2>5. QED
    BY <1>5, <2>3, <2>4 DEF UploadOpen
<1>6. ASSUME NEW g \in Files, UploadFile(g) PROVE FolderInv'
  <2>1. /\ UploadBusy /\ upPc = "tree" /\ g \in upTodo /\ upTodo' = upTodo \ {g}
        /\ UNCHANGED <<upPc, upJob, active, marker, unread>>
        /\ cloud' = cloud \/ cloud' = [cloud EXCEPT ![Folder][g] = upJob.snap]
        /\ upOk' => /\ upOk
                    /\ \/ g \in jobs[upId].sent /\ cloud[Folder][g] # 0 /\ cloud' = cloud
                       \/ cloud' = [cloud EXCEPT ![Folder][g] = upJob.snap]
    BY <1>6 DEF UploadFile, Fails, UploadBusy, TypeInv, TypeOK, UploadTypeOK
  <2>2. Folder = <<upJob.backend, upJob.save>> /\ Folder' = Folder
    BY <2>1 DEF Folder, FolderInv, PinnedProvider
  <2>3. ASSUME upOk' PROVE cloud'[Folder][g] = upJob.snap
    <3>1. CASE g \in jobs[upId].sent /\ cloud[Folder][g] # 0 /\ cloud' = cloud
      BY <2>1, <2>2, <3>1, Held DEF JournalInv, JournalTrue
    <3>2. CASE cloud' = [cloud EXCEPT ![Folder][g] = upJob.snap]
      BY <2>1, <3>2, Held DEF TypeInv, TypeOK, WorldTypeOK
    <3>3. QED
      BY <2>1, <2>3, <3>1, <3>2
  <2>4. upJob.has \subseteq Files
    BY <2>1, Held
  <2>5. ASSUME NEW f \in Files, f # g PROVE cloud'[Folder][f] = cloud[Folder][f]
    BY <2>1, <2>5, Held DEF TypeInv, TypeOK, WorldTypeOK
  <2>6. TreeProgress'
    BY <2>1, <2>2, <2>3, <2>4, <2>5 DEF FolderInv, TreeProgress, Sent
  <2>7. QED
    BY <2>1, <2>6 DEF FolderInv, PinnedProvider, PruneProgress, Delivered, UploadBusy
<1>m. ASSUME NEW lost \in SUBSET upTodo, UploadMisses(lost) PROVE FolderInv'
  <2>1. /\ UploadBusy /\ upPc = "tree" /\ UNCHANGED <<upPc, upJob, upOk, active, cloud, marker>>
        /\ upTodo' = upTodo \ lost /\ unread' = unread \cup lost
    BY <1>m DEF UploadMisses, UploadBusy
  <2>2. TreeProgress'
    BY <2>1 DEF FolderInv, TreeProgress, Sent, Folder
  <2>3. QED
    BY <2>1, <2>2 DEF FolderInv, PinnedProvider, PruneProgress, Delivered, UploadBusy
<1>7. CASE UploadAbort
  <2>1. upPc' = "tree" /\ upTodo' = {} /\ upOk' = FALSE /\ UNCHANGED <<upJob, active>>
        /\ UploadBusy
    BY <1>7 DEF UploadAbort, UploadBusy
  <2>2. QED
    BY <2>1 DEF FolderInv, PinnedProvider, TreeProgress, PruneProgress, Delivered
<1>8. CASE UploadTreeDone
  <2>1. /\ UploadBusy /\ upPc = "tree" /\ upTodo = {}
        /\ UNCHANGED <<upJob, active, cloud, marker, unread>>
    BY <1>8 DEF UploadTreeDone, UploadBusy
  <2>2. upJob'.backend = active'
    BY <2>1 DEF FolderInv, PinnedProvider
  <2>3. CASE upPc' = "failed"
    BY <2>2, <2>3, FolderIdle
  <2>4. CASE /\ upPc' = "prune" /\ upOk
             /\ upTodo' = {f \in Files \ upJob.has : cloud[Folder][f] # 0}
    <3>1. PruneProgress'
      BY <2>1, <2>4 DEF FolderInv, TreeProgress, PruneProgress, Sent, Folder
    <3>2. QED
      BY <2>2, <2>4, <3>1 DEF FolderInv, PinnedProvider, TreeProgress, Delivered
  <2>5. QED
    BY <1>8, <2>3, <2>4 DEF UploadTreeDone
<1>9. ASSUME NEW g \in Files, UploadPrune(g) PROVE FolderInv'
  <2>1. /\ UploadBusy /\ upPc = "prune" /\ g \in upTodo /\ upTodo' = upTodo \ {g}
        /\ UNCHANGED <<upPc, upJob, active, marker, unread>>
        /\ cloud' = cloud \/ cloud' = [cloud EXCEPT ![Folder][g] = 0]
        /\ upOk' => upOk /\ cloud' = [cloud EXCEPT ![Folder][g] = 0]
    BY <1>9 DEF UploadPrune, Fails, UploadBusy, TypeInv, TypeOK, UploadTypeOK
  <2>2. Folder' = Folder /\ upJob.has \subseteq Files
    BY <2>1, Held DEF Folder
  <2>3. ASSUME NEW f \in Files, f # g PROVE cloud'[Folder][f] = cloud[Folder][f]
    BY <2>1, <2>3, Held DEF TypeInv, TypeOK, WorldTypeOK
  <2>4. upOk' => cloud'[Folder][g] = 0
    BY <2>1, Held DEF TypeInv, TypeOK, WorldTypeOK
  <2>5. PruneProgress'
    BY <2>1, <2>2, <2>3, <2>4 DEF FolderInv, PruneProgress, Sent
  <2>6. QED
    BY <2>1, <2>5 DEF FolderInv, PinnedProvider, TreeProgress, Delivered, UploadBusy
<1>b. ASSUME NEW g \in Files, UploadPruneBlind(g) PROVE FolderInv'
  <2>1. /\ UploadBusy /\ upPc = "prune" /\ g \in upJob.has
        /\ UNCHANGED <<upPc, upJob, upTodo, upOk, active, marker>>
        /\ cloud' = [cloud EXCEPT ![Folder][g] = 0] /\ unread' = unread \cup {g}
    BY <1>b DEF UploadPruneBlind, UploadBusy
  <2>2. Folder' = Folder /\ upJob.has \subseteq Files
    BY <2>1, Held DEF Folder
  <2>3. ASSUME NEW f \in Files, f # g PROVE cloud'[Folder][f] = cloud[Folder][f]
    BY <2>1, <2>3, Held DEF TypeInv, TypeOK, WorldTypeOK
  <2>4. PruneProgress'
    BY <2>1, <2>2, <2>3 DEF FolderInv, PruneProgress, Sent
  <2>5. QED
    BY <2>1, <2>4 DEF FolderInv, PinnedProvider, TreeProgress, Delivered, UploadBusy
<1>10. CASE UploadPruneDone
  <2>1. /\ UploadBusy /\ upPc = "prune" /\ upTodo = {}
        /\ UNCHANGED <<upJob, active, cloud, marker, unread>>
    BY <1>10 DEF UploadPruneDone, UploadBusy
  <2>2. upJob'.backend = active'
    BY <2>1 DEF FolderInv, PinnedProvider
  <2>3. CASE upOk /\ upPc' = "mark"
    <3>1. Folder = FolderOf(upJob)
      BY <2>1 DEF FolderInv, PinnedProvider, Folder, FolderOf
    <3>2. Mirrors(upJob, Files \ unread)
      BY <2>1, <2>3, <3>1 DEF FolderInv, PruneProgress, Sent, Mirrors
    <3>3. QED
      BY <2>1, <2>2, <2>3, <3>2
         DEF FolderInv, PinnedProvider, TreeProgress, PruneProgress, Delivered, Mirrors, FolderOf
  <2>4. CASE upPc' = "failed"
    BY <2>2, <2>4, FolderIdle
  <2>5. QED
    BY <1>10, <2>3, <2>4 DEF UploadPruneDone
<1>11. CASE UploadMark
  <2>1. UploadBusy /\ upPc = "mark" /\ UNCHANGED <<upJob, active, cloud, unread>>
    BY <1>11 DEF UploadMark, UploadBusy
  <2>2. upJob'.backend = active' /\ Mirrors(upJob, Files \ unread)
    BY <2>1 DEF FolderInv, PinnedProvider, Delivered
  <2>3. CASE upPc' = "failed"
    BY <2>2, <2>3, FolderIdle
  <2>4. CASE upPc' = "finish" /\ marker' = [marker EXCEPT ![upJob.save] = upJob.snap]
    <3>1. marker'[upJob.save] = upJob.snap
      BY <2>1, <2>4, Held DEF Manifest, TypeInv, TypeOK, CardTypeOK
    <3>2. QED
      BY <2>1, <2>2, <2>4, <3>1
         DEF FolderInv, PinnedProvider, TreeProgress, PruneProgress, Delivered, Mirrors, FolderOf
  <2>5. QED
    BY <1>11, <2>3, <2>4 DEF UploadMark
<1>12. CASE UploadFinish
  <2>1. upPc' \in {"clean", "failed"} /\ UploadBusy /\ UNCHANGED <<upJob, active>>
    BY <1>12 DEF UploadFinish, UploadBusy
  <2>2. QED
    BY <2>1, FolderIdle DEF FolderInv, PinnedProvider
<1>13. CASE UploadClean \/ UploadFailed \/ Crash
  BY <1>13, FolderIdle DEF UploadClean, UploadFailed, Crash, UploadIdle, UploadBusy
<1>14. CASE Start
  BY <1>14, FolderIdle DEF Start, TypeInv, NoGhostWorker, UploadBusy
<1>15. QED
  BY <1>1, <1>2, <1>3, <1>4, <1>5, <1>6, <1>m, <1>7, <1>8, <1>9, <1>b, <1>10, <1>11,
     <1>12, <1>13, <1>14 DEF Next, World, Capture, Upload

-----------------------------------------------------------------------------
(* The two claims. *)

MirrorInv == TypeInv /\ FifoInv /\ JournalInv /\ FolderInv

LEMMA MirrorInductive ==
    ASSUME ~BlindScan
    PROVE  (Init => MirrorInv) /\ (MirrorInv /\ [Next]_vars => MirrorInv')
<1>1. Init => MirrorInv
  BY InitTypeInv, InitFifoInv, InitMirror DEF MirrorInv
<1>2. ASSUME MirrorInv, [Next]_vars PROVE MirrorInv'
  <2>1. TypeInv' /\ FifoInv'
    BY <1>2, NextTypeInv, NextFifoInv DEF MirrorInv
  <2>2. JournalInv' /\ FolderInv'
    BY <1>2, NextJournalInv, NextFolderInv DEF MirrorInv, FolderInv
  <2>3. QED
    BY <2>1, <2>2 DEF MirrorInv
<1>3. QED
  BY <1>1, <1>2

\* What MarkedExact and RetiredOnlyWhenSafe assert of every transition.
MarksExactly ==
    \A s \in Saves :
        marker'[s] # marker[s] =>
            \E i \in Present(jobs) :
                LET m == jobs[i].job
                IN  /\ m.save = s /\ m.snap = marker'[s] /\ m.backend = active
                    /\ Mirrors(m, Files \ unread)
RetiresSafely ==
    \A i \in Present(jobs) :
        LET m == jobs[i].job
        IN  jobs'[i] = Absent =>
                Mirrors(m, Files \ unread) /\ marker[m.save] = m.snap

\* Only UploadMark writes a marker.
LEMMA StepMarksExactly == ASSUME MirrorInv, Next PROVE MarksExactly
<1> USE DEF envVars, sdVars, queueVars, capVars, upVars
<1>1. CASE UploadMark
  <2>1. UploadBusy /\ upPc = "mark"
        /\ (marker' = marker \/ marker' = [marker EXCEPT ![upJob.save] = upJob.snap])
    BY <1>1 DEF UploadMark, UploadBusy
  <2>2. /\ upJob.save \in Saves /\ marker \in [Saves -> 0..MaxVer]
        /\ upJob.backend = active /\ Mirrors(upJob, Files \ unread)
        /\ upId \in Present(jobs) /\ jobs[upId].job = upJob
    BY <2>1, Held DEF Manifest, MirrorInv, FolderInv, PinnedProvider, Delivered, TypeInv, TypeOK,
                      CardTypeOK
  <2>3. ASSUME NEW s \in Saves, marker'[s] # marker[s]
        PROVE  s = upJob.save /\ marker'[s] = upJob.snap
    BY <2>1, <2>2, <2>3
  <2>4. QED
    BY <2>2, <2>3 DEF MarksExactly
<1>2. CASE ~UploadMark
  <2>1. UNCHANGED marker
    BY <1>2 DEF Next, World, Capture, Upload, Pause, Resume, Play, Exclude, Include,
                DeadlinePasses, CaptureBegin, CaptureCopy, CapturePublish, CaptureDiscard,
                UploadPick, UploadOpen, UploadFile, UploadMisses, UploadAbort, UploadTreeDone,
                UploadPrune, UploadPruneBlind, UploadPruneDone, UploadFinish, UploadClean, UploadFailed, Crash, Start
  <2>2. QED
    BY <2>1 DEF MarksExactly
<1>3. QED
  BY <1>1, <1>2

\* Only UploadFinish takes a published snapshot off the card.
LEMMA StepRetiresSafely == ASSUME MirrorInv, Next PROVE RetiresSafely
<1> USE DEF envVars, sdVars, queueVars, capVars, upVars
<1> SUFFICES ASSUME NEW i \in Present(jobs), jobs'[i] = Absent
             PROVE  /\ Mirrors(jobs[i].job, Files \ unread)
                    /\ marker[jobs[i].job.save] = jobs[i].job.snap
  BY DEF RetiresSafely
<1>0. /\ i \in Ids /\ jobs[i] # Absent /\ Absent \notin Entry
      /\ jobs \in [Ids -> Entry \cup {Absent}]
  BY ConstantsAssumption DEF Present, MirrorInv, TypeInv, TypeOK, CardTypeOK
<1>1. CASE UploadFinish
  <2>1. UploadBusy /\ upPc = "finish"
        /\ (jobs' = jobs \/ jobs' = [jobs EXCEPT ![upId] = Absent])
    BY <1>1 DEF UploadFinish, UploadBusy
  <2>2. i = upId
    BY <1>0, <2>1
  <2>3. jobs[i].job = upJob /\ upJob.backend = active
    BY <2>1, <2>2, Held DEF MirrorInv, FolderInv, PinnedProvider
  <2>4. QED
    BY <2>1, <2>3 DEF MirrorInv, FolderInv, Delivered
<1>2. CASE UploadFailed
  <2>1. UploadBusy
        /\ (jobs' = jobs \/ jobs' = [jobs EXCEPT ![upId].job = [upJob EXCEPT !.waiting = TRUE]])
    BY <1>2 DEF UploadFailed, UploadBusy
  <2>2. [jobs[upId] EXCEPT !.job = [upJob EXCEPT !.waiting = TRUE]] \in Entry
    BY <2>1, Held DEF Entry, Manifest, MirrorInv
  <2>3. QED
    BY <1>0, <2>1, <2>2
<1>3. ASSUME NEW g \in Files, UploadFile(g) PROVE FALSE
  <2>1. UploadBusy /\ (jobs' = jobs \/ jobs' = [jobs EXCEPT ![upId].sent = @ \cup {g}])
    BY <1>3 DEF UploadFile, UploadBusy
  <2>2. [jobs[upId] EXCEPT !.sent = @ \cup {g}] \in Entry
    BY <2>1, Held DEF Entry, MirrorInv
  <2>3. QED
    BY <1>0, <2>1, <2>2
<1>4. ASSUME NEW k \in Ids, DeadlinePasses(k) PROVE FALSE
  <2>1. jobs[k] \in Entry /\ jobs' = [jobs EXCEPT ![k].job.waiting = FALSE]
    BY <1>0, <1>4 DEF DeadlinePasses, Present
  <2>2. [jobs[k] EXCEPT !.job.waiting = FALSE] \in Entry
    BY <2>1 DEF Entry, Manifest
  <2>3. QED
    BY <1>0, <2>1, <2>2
<1>5. CASE CapturePublish
  <2>1. jobs' = jobs \/ (capPc = "publish" /\ jobs' = [jobs EXCEPT ![capId] = building[capId]])
    BY <1>5 DEF CapturePublish
  <2>2. QED
    BY <1>0, <2>1 DEF MirrorInv, TypeInv, BuiltComplete
<1>6. CASE UNCHANGED jobs
  BY <1>0, <1>6
<1>7. QED
  BY <1>1, <1>2, <1>3, <1>4, <1>5, <1>6
     DEF Next, World, Capture, Upload, Pause, Resume, Play, Exclude, Include, CaptureBegin,
         CaptureCopy, CaptureDiscard, UploadPick, UploadOpen, UploadMisses, UploadAbort,
         UploadTreeDone, UploadPrune, UploadPruneBlind, UploadPruneDone, UploadMark, UploadClean,
         Crash, Start

\* A marker is only ever set to the snapshot in the queue that the cloud folder of
\* the pinned provider mirrors at that moment, file by file and with nothing left
\* over, but for files that an error of readdir or stat hid from this upload.
THEOREM MarkersAreExact == ASSUME ~BlindScan PROVE Spec => MarkedExact
<1>1. MirrorInv /\ [Next]_vars => [MarksExactly]_vars
  BY StepMarksExactly
<1>2. QED
  BY <1>1, MirrorInductive, PTL DEF Spec, MarkedExact, MarksExactly

\* A published snapshot leaves the queue only once its own provider's folder
\* mirrors it, but for files such an error hid from this upload, and its marker
\* records it, whatever crashes or fails in between.
THEOREM NothingIsDropped == ASSUME ~BlindScan PROVE Spec => RetiredOnlyWhenSafe
<1>1. MirrorInv /\ [Next]_vars => [RetiresSafely]_vars
  BY StepRetiresSafely
<1>2. QED
  BY <1>1, MirrorInductive, PTL DEF Spec, RetiredOnlyWhenSafe, RetiresSafely

-----------------------------------------------------------------------------
(* The queue implements the log of SnapshotLog.  The k-th pending snapshot is the
   entry with k - 1 smaller numbers: ranks are distinct and bounded by the number
   of entries, so every position of the log has one. *)

LEMMA RankFinite ==
    ASSUME NEW P \in SUBSET Nat, IsFiniteSet(P), NEW i
    PROVE  /\ IsFiniteSet({j \in P : j < i})
           /\ Rank(P, i) \in Nat
<1>1. {j \in P : j < i} \in SUBSET P
  OBVIOUS
<1>2. IsFiniteSet({j \in P : j < i})
  BY <1>1, FS_Subset
<1>3. QED
  BY <1>2, FS_CardinalityType DEF Rank

\* Larger numbers have larger ranks, and ranks are below the number of elements.
LEMMA RankGrows ==
    ASSUME NEW P \in SUBSET Nat, IsFiniteSet(P), NEW i \in P, NEW j \in P, i < j
    PROVE  Rank(P, i) < Rank(P, j)
<1> DEFINE A == {x \in P : x < i}
           B == {x \in P : x < j}
<1>0. i \in Nat /\ j \in Nat /\ \A x \in P : x \in Nat
  OBVIOUS
<1>1. A \in SUBSET B /\ i \in B /\ i \notin A
  <2>1. ASSUME NEW x \in Nat, x < i PROVE x < j
    BY <1>0, <2>1
  <2>2. ~(i < i)
    BY <1>0
  <2>3. QED
    BY <1>0, <2>1, <2>2
<1>2. IsFiniteSet(A) /\ IsFiniteSet(B) /\ Cardinality(A) \in Nat /\ Cardinality(B) \in Nat
  BY RankFinite DEF Rank
<1>3. Cardinality(A) <= Cardinality(B) /\ Cardinality(A) # Cardinality(B)
  BY <1>1, <1>2, FS_Subset
<1>4. QED
  BY <1>2, <1>3 DEF Rank

LEMMA RankBounded ==
    ASSUME NEW P \in SUBSET Nat, IsFiniteSet(P), NEW i \in P
    PROVE  Rank(P, i) + 1 \in 1..Cardinality(P)
<1> DEFINE A == {x \in P : x < i}
<1>1. A \in SUBSET P /\ i \notin A
  OBVIOUS
<1>2. IsFiniteSet(A) /\ Cardinality(A) \in Nat /\ Cardinality(P) \in Nat
  BY RankFinite, FS_CardinalityType DEF Rank
<1>3. Cardinality(A) <= Cardinality(P) /\ Cardinality(A) # Cardinality(P)
  BY <1>1, <1>2, FS_Subset
<1>4. QED
  BY <1>2, <1>3 DEF Rank

\* Ranks are distinct, so every position is taken: Nth is well defined.
LEMMA NthDefined ==
    ASSUME NEW P \in SUBSET Nat, IsFiniteSet(P), NEW k \in 1..Cardinality(P)
    PROVE  Nth(P, k) \in P /\ Rank(P, Nth(P, k)) = k - 1
<1> DEFINE n == Cardinality(P)
           pos == [i \in P |-> Rank(P, i) + 1]
<1>1. n \in Nat
  BY FS_CardinalityType
<1>2. pos \in [P -> 1..n]
  BY RankBounded
<1>3. ASSUME NEW i \in P, NEW j \in P, pos[i] = pos[j] PROVE i = j
  <2>0. Rank(P, i) \in Nat /\ Rank(P, j) \in Nat
    BY RankFinite
  <2>1. Rank(P, i) = Rank(P, j)
    BY <1>3, <2>0
  <2>2. ~(i < j) /\ ~(j < i)
    BY <2>0, <2>1, RankGrows
  <2>3. i \in Nat /\ j \in Nat
    OBVIOUS
  <2>4. QED
    BY <2>2, <2>3
<1>4. pos \in Injection(P, 1..n)
  BY <1>2, <1>3 DEF Injection, IsInjective
<1>5. IsFiniteSet(1..n) /\ Cardinality(1..n) = n
  BY <1>1, FS_Interval
<1>6. pos \in Surjection(P, 1..n)
  BY <1>4, <1>5, FS_Injection
<1>7. PICK i \in P : pos[i] = k
  BY <1>6 DEF Surjection
<1>8. Rank(P, i) = k - 1
  <2>1. pos[i] = Rank(P, i) + 1 /\ Rank(P, i) \in Nat
    BY RankFinite
  <2>2. QED
    BY <2>1, <1>1, <1>7
<1>9. QED
  BY <1>8 DEF Nth

LEMMA NthIs ==
    ASSUME NEW P \in SUBSET Nat, IsFiniteSet(P), NEW i \in P, NEW k \in 1..Cardinality(P),
           Rank(P, i) = k - 1
    PROVE  Nth(P, k) = i
<1> DEFINE j == Nth(P, k)
<1>1. j \in P /\ Rank(P, j) = k - 1
  BY NthDefined
<1>2. Rank(P, i) \in Nat /\ Rank(P, j) \in Nat
  BY RankFinite
<1>3. ~(i < j) /\ ~(j < i)
  <2> HIDE DEF j
  <2>1. ASSUME i < j PROVE FALSE
    BY <1>1, <1>2, <2>1, RankGrows
  <2>2. ASSUME j < i PROVE FALSE
    BY <1>1, <1>2, <2>2, RankGrows
  <2>3. QED
    BY <2>1, <2>2
<1>4. i \in Nat /\ j \in Nat
  BY <1>1
<1>5. QED
  BY <1>3, <1>4
\* A number larger than all of P comes last, and leaves the others where they are.
LEMMA NthAppended ==
    ASSUME NEW P \in SUBSET Nat, IsFiniteSet(P), NEW m \in Nat, \A i \in P : i < m
    PROVE  LET Q == P \cup {m}
               n == Cardinality(P)
           IN  /\ IsFiniteSet(Q) /\ Cardinality(Q) = n + 1
               /\ \A k \in 1..n : Nth(Q, k) = Nth(P, k)
               /\ Nth(Q, n + 1) = m
<1> DEFINE Q == P \cup {m}
           n == Cardinality(P)
<1>1. m \notin P /\ n \in Nat /\ Q \in SUBSET Nat
  BY FS_CardinalityType
<1>2. IsFiniteSet(Q) /\ Cardinality(Q) = n + 1
  BY <1>1, FS_AddElement
<1>3. ASSUME NEW i \in P PROVE Rank(Q, i) = Rank(P, i)
  <2>1. i \in Nat /\ i < m
    OBVIOUS
  <2>2. ~(m < i)
    BY <2>1
  <2>3. {j \in Q : j < i} = {j \in P : j < i}
    BY <2>2
  <2>4. QED
    BY <2>3 DEF Rank
<1>4. Rank(Q, m) = n
  <2>0. ~(m < m)
    OBVIOUS
  <2>1. {j \in Q : j < m} = P
    BY <2>0
  <2>2. QED
    BY <2>1 DEF Rank
<1>5. ASSUME NEW k \in 1..n PROVE Nth(Q, k) = Nth(P, k)
  <2>1. Nth(P, k) \in P /\ Rank(P, Nth(P, k)) = k - 1
    BY NthDefined
  <2>2. k \in 1..Cardinality(Q)
    BY <1>1, <1>2
  <2>3. Nth(P, k) \in Q /\ Rank(Q, Nth(P, k)) = k - 1
    BY <2>1, <1>3
  <2>4. QED
    BY <1>1, <1>2, <2>2, <2>3, NthIs
<1>6. Nth(Q, n + 1) = m
  <2>1. n + 1 \in 1..Cardinality(Q) /\ Rank(Q, m) = (n + 1) - 1
    BY <1>1, <1>2, <1>4
  <2>2. QED
    BY <1>1, <1>2, <2>1, NthIs
<1>7. QED
  BY <1>2, <1>5, <1>6

\* Without its smallest number, every other number of P moves one place forward.
LEMMA NthRemoved ==
    ASSUME NEW P \in SUBSET Nat, IsFiniteSet(P), NEW h \in P, \A i \in P : h <= i
    PROVE  LET Q == P \ {h}
               n == Cardinality(P)
           IN  /\ n \in Nat /\ n > 0
               /\ IsFiniteSet(Q) /\ Cardinality(Q) = n - 1
               /\ Nth(P, 1) = h
               /\ \A k \in 1..(n - 1) : Nth(Q, k) = Nth(P, k + 1)
<1> DEFINE Q == P \ {h}
           n == Cardinality(P)
<1>1. IsFiniteSet(Q) /\ Cardinality(Q) = n - 1 /\ Q \in SUBSET Nat
  BY FS_RemoveElement
<1>2. n \in Nat /\ Cardinality(Q) \in Nat
  BY <1>1, FS_CardinalityType
<1>3. n > 0
  BY <1>1, <1>2
<1>0. Rank(P, h) = 0
  <2>1. \A j \in P : j \in Nat /\ h \in Nat /\ ~(j < h)
    <3>1. ASSUME NEW j \in P PROVE ~(j < h)
      <4>1. j \in Nat /\ h \in Nat /\ h <= j
        OBVIOUS
      <4>2. QED
        BY <4>1
    <3>2. QED
      BY <3>1
  <2>2. {j \in P : j < h} = {}
    BY <2>1
  <2>3. QED
    BY <2>2, FS_EmptySet DEF Rank
<1>4. Nth(P, 1) = h
  <2>2. Rank(P, h) = 0
    BY <1>0
  <2>3. 1 \in 1..Cardinality(P) /\ Rank(P, h) = 1 - 1
    BY <1>2, <1>3, <2>2
  <2>4. QED
    BY <2>3, NthIs
<1>5. ASSUME NEW i \in Q PROVE Rank(Q, i) = Rank(P, i) - 1
  <2> DEFINE A == {j \in P : j < i}
  <2>1. h \in Nat /\ i \in Nat /\ h < i
    OBVIOUS
  <2>2. h \in A /\ {j \in Q : j < i} = A \ {h}
    BY <2>1
  <2>3. IsFiniteSet(A)
    BY RankFinite
  <2>4. Cardinality(A \ {h}) = Cardinality(A) - 1
    BY <2>2, <2>3, FS_RemoveElement
  <2>5. QED
    BY <2>2, <2>4 DEF Rank
<1>6. ASSUME NEW k \in 1..(n - 1) PROVE Nth(Q, k) = Nth(P, k + 1)
  <2> DEFINE i == Nth(P, k + 1)
  <2>1. k + 1 \in 1..n /\ k \in 1..Cardinality(Q)
    BY <1>1, <1>2
  <2>2. i \in P /\ Rank(P, i) = (k + 1) - 1
    BY <2>1, NthDefined
  <2>3. i # h
    BY <1>0, <1>2, <2>2
  <2> HIDE DEF i
  <2>4. i \in Q /\ Rank(Q, i) = Rank(P, i) - 1
    BY <2>2, <2>3, <1>5
  <2>5. Rank(Q, i) = k - 1
    BY <1>2, <2>2, <2>4
  <2>6. QED
    BY <1>1, <2>1, <2>4, <2>5, NthIs DEF i
<1>7. QED
  BY <1>1, <1>2, <1>3, <1>4, <1>6

\* A function on 1..n is a sequence of length n.
LEMMA SeqOfLength ==
    ASSUME NEW S, NEW n \in Nat, NEW f \in [1..n -> S]
    PROVE  f \in Seq(S) /\ Len(f) = n
<1>1. f \in Seq(S)
  BY SeqDef
<1>2. DOMAIN f = 1..Len(f) /\ Len(f) \in Nat
  BY <1>1, LenProperties
<1>3. QED
  BY <1>2
LEMMA PresentFinite ==
    ASSUME NEW dir
    PROVE  Present(dir) \in SUBSET Nat /\ IsFiniteSet(Present(dir))
<1>1. Ids \in SUBSET Nat /\ IsFiniteSet(Ids)
  BY ConstantsAssumption, FS_Interval DEF Ids
<1>2. Present(dir) \in SUBSET Ids
  BY DEF Present
<1>3. QED
  BY <1>1, <1>2, FS_Subset

\* The log the queue stands for is a log of snapshots.
LEMMA PendingTyping ==
    ASSUME TypeInv
    PROVE  /\ PendingSnapshots \in Seq(Log!Snapshot)
           /\ Len(PendingSnapshots) = Cardinality(Present(jobs))
<1> DEFINE P == Present(jobs)
<1>1. Cardinality(P) \in Nat /\ P \in SUBSET Nat /\ IsFiniteSet(P)
  BY PresentFinite, FS_CardinalityType
<1>2. ASSUME NEW i \in P PROVE Snap(jobs[i]) \in Log!Snapshot
  BY DEF Present, Snap, Log!Snapshot, Versions, Entry, Manifest, TypeInv, TypeOK, CardTypeOK
<1>3. \A k \in 1..Cardinality(P) : Nth(P, k) \in P
  BY <1>1, NthDefined
<1>4. PendingSnapshots \in [1..Cardinality(P) -> Log!Snapshot]
  BY <1>2, <1>3 DEF PendingSnapshots
<1>5. QED
  BY <1>1, <1>4, SeqOfLength

\* A step that neither publishes nor retires, whatever else it writes into the
\* manifests and journals, is invisible in the log.
LEMMA LogStill ==
    ASSUME Present(jobs)' = Present(jobs),
           \A i \in Present(jobs) : Snap(jobs'[i]) = Snap(jobs[i])
    PROVE  PendingSnapshots' = PendingSnapshots
<1>1. \A k \in 1..Cardinality(Present(jobs)) : Nth(Present(jobs), k) \in Present(jobs)
  BY PresentFinite, NthDefined
<1>2. PendingSnapshots' = [k \in 1..Cardinality(Present(jobs)) |-> Snap(jobs'[Nth(Present(jobs), k)])]
  BY DEF PendingSnapshots, Snap
<1>3. QED
  BY <1>1, <1>2 DEF PendingSnapshots

\* Publication under a number ahead of all others appends.
LEMMA LogAppends ==
    ASSUME TypeInv, NEW m \in Ids, NEW e \in Entry,
           \A i \in Present(jobs) : i < m,
           jobs' = [jobs EXCEPT ![m] = e]
    PROVE  PendingSnapshots' = Append(PendingSnapshots, Snap(e))
<1> DEFINE P == Present(jobs)
           Q == P \cup {m}
           n == Cardinality(P)
           p == PendingSnapshots
<1>1. /\ P \in SUBSET Nat /\ IsFiniteSet(P) /\ m \in Nat /\ n \in Nat
      /\ p \in Seq(Log!Snapshot) /\ Len(p) = n
      /\ Snap(e) \in Log!Snapshot
  BY PresentFinite, FS_CardinalityType, PendingTyping, ConstantsAssumption
     DEF Ids, Snap, Log!Snapshot, Versions, Entry, Manifest
<1>2. Present(jobs)' = Q
  BY ConstantsAssumption DEF Present, TypeInv, TypeOK, CardTypeOK
<1>3. /\ Cardinality(Q) = n + 1 /\ Nth(Q, n + 1) = m
      /\ \A k \in 1..n : Nth(Q, k) = Nth(P, k)
  BY <1>1, NthAppended
<1>4. p' = [k \in 1..(n + 1) |-> Snap(jobs'[Nth(Q, k)])]
  BY <1>2, <1>3 DEF PendingSnapshots, Snap
<1>6. ASSUME NEW k \in 1..n PROVE p'[k] = p[k]
  <2>1. Nth(P, k) \in P /\ k \in 1..(n + 1)
    BY <1>1, NthDefined
  <2>2. Nth(P, k) # m
    BY <2>1, <1>1
  <2>3. jobs'[Nth(P, k)] = jobs[Nth(P, k)]
    BY <2>1, <2>2 DEF Present, TypeInv, TypeOK, CardTypeOK
  <2>4. p'[k] = Snap(jobs'[Nth(P, k)])
    BY <2>1, <1>3, <1>4
  <2>5. p[k] = Snap(jobs[Nth(P, k)])
    BY DEF PendingSnapshots
  <2>6. QED
    BY <2>3, <2>4, <2>5
<1>7. p'[n + 1] = Snap(e)
  <2>1. jobs'[m] = e
    BY DEF TypeInv, TypeOK, CardTypeOK
  <2>2. QED
    BY <2>1, <1>1, <1>3, <1>4
<1>5. p' \in Seq(Log!Snapshot) /\ Len(p') = n + 1
  <2>1. p \in [1..n -> Log!Snapshot]
    BY <1>1, LenProperties
  <2>2. \A k \in 1..(n + 1) : p'[k] \in Log!Snapshot
    BY <2>1, <1>1, <1>6, <1>7
  <2>3. p' \in [1..(n + 1) -> Log!Snapshot]
    BY <2>2, <1>4
  <2>4. QED
    BY <2>3, <1>1, SeqOfLength
<1>8. QED
  <2> DEFINE a == Append(p, Snap(e))
  <2>1. /\ a \in Seq(Log!Snapshot) /\ Len(a) = n + 1
        /\ \A k \in 1..n : a[k] = p[k]
        /\ a[n + 1] = Snap(e)
    BY <1>1, AppendProperties
  <2>2. ASSUME NEW k \in 1..Len(p') PROVE p'[k] = a[k]
    BY <2>1, <1>1, <1>5, <1>6, <1>7
  <2> HIDE DEF a, p
  <2>3. p' = a
    BY <2>1, <2>2, <1>5, SeqEqual
  <2>4. QED
    BY <2>3 DEF a, p

\* Retiring the head takes the oldest snapshot off the log.
LEMMA LogRetires ==
    ASSUME TypeInv, NEW h \in Ids, IsHead(h)
    PROVE  /\ PendingSnapshots # <<>>
           /\ Head(PendingSnapshots) = Snap(jobs[h])
           /\ jobs' = [jobs EXCEPT ![h] = Absent] => PendingSnapshots' = Tail(PendingSnapshots)
<1> DEFINE P == Present(jobs)
           Q == P \ {h}
           n == Cardinality(P)
           p == PendingSnapshots
<1>1. /\ P \in SUBSET Nat /\ IsFiniteSet(P) /\ h \in P /\ \A i \in P : h <= i
      /\ p \in Seq(Log!Snapshot) /\ Len(p) = n
  BY PresentFinite, PendingTyping DEF IsHead
<1>2. /\ n \in Nat /\ n > 0 /\ Cardinality(Q) = n - 1 /\ Nth(P, 1) = h
      /\ \A k \in 1..(n - 1) : Nth(Q, k) = Nth(P, k + 1)
  BY <1>1, NthRemoved
<1>3. p # <<>>
  BY <1>1, <1>2, EmptySeq
<1>4. Head(p) = Snap(jobs[h])
  <2>1. Head(p) = p[1] /\ 1 \in 1..n
    BY <1>1, <1>2, <1>3
  <2>2. QED
    BY <2>1, <1>2 DEF PendingSnapshots
<1>5. ASSUME jobs' = [jobs EXCEPT ![h] = Absent] PROVE p' = Tail(p)
  <2>1. Present(jobs)' = Q
    BY <1>5 DEF Present, TypeInv, TypeOK, CardTypeOK
  <2>3. p' = [k \in 1..(n - 1) |-> Snap(jobs'[Nth(Q, k)])]
    BY <2>1, <1>2 DEF PendingSnapshots, Snap
  <2>4. ASSUME NEW k \in 1..(n - 1) PROVE p'[k] = p[k + 1]
    <3>1. IsFiniteSet(Q) /\ Q \in SUBSET Nat
      BY <1>1, FS_RemoveElement
    <3>2. Nth(Q, k) \in Q /\ k + 1 \in 1..n
      BY <3>1, <1>2, NthDefined
    <3>3. jobs'[Nth(Q, k)] = jobs[Nth(P, k + 1)]
      BY <3>2, <1>2, <1>5 DEF Present, TypeInv, TypeOK, CardTypeOK
    <3>4. QED
      BY <3>2, <3>3, <2>3 DEF PendingSnapshots
  <2>5. /\ Tail(p) \in Seq(Log!Snapshot) /\ Len(Tail(p)) = n - 1
        /\ \A k \in 1..(n - 1) : Tail(p)[k] = p[k + 1]
    BY <1>1, <1>3, HeadTailProperties
  <2>2. p' \in Seq(Log!Snapshot) /\ Len(p') = n - 1
    <3>1. p \in [1..n -> Log!Snapshot]
      BY <1>1, LenProperties
    <3>2. \A k \in 1..(n - 1) : p'[k] \in Log!Snapshot
      <4>1. \A k \in 1..(n - 1) : k + 1 \in 1..n
        BY <1>2
      <4>2. ASSUME NEW k \in 1..(n - 1) PROVE p'[k] \in Log!Snapshot
        BY <4>1, <3>1, <2>4
      <4>3. QED
        BY <4>2
    <3> HIDE DEF n, p
    <3>3. n - 1 \in Nat
      BY <1>2
    <3>4. p' \in [1..(n - 1) -> Log!Snapshot]
      BY <3>2, <2>3
    <3>5. QED
      BY <3>3, <3>4, SeqOfLength
  <2>6. ASSUME NEW k \in 1..Len(p') PROVE p'[k] = Tail(p)[k]
    BY <2>2, <2>4, <2>5
  <2> HIDE DEF p
  <2>7. QED
    BY <2>2, <2>5, <2>6, SeqEqual
<1>6. QED
  BY <1>3, <1>4, <1>5
\* Every step of the queue is a step of the log, or none.
LEMMA StepOfLog ==
    ASSUME MirrorInv, Next
    PROVE  Log!Next \/ UNCHANGED <<PendingSnapshots, marker>>
<1> USE DEF envVars, sdVars, queueVars, capVars, upVars
<1>0. /\ TypeInv /\ Absent \notin Entry
      /\ jobs \in [Ids -> Entry \cup {Absent}] /\ building \in [Ids -> Entry \cup {Absent, Partial}]
  BY ConstantsAssumption DEF MirrorInv, TypeInv, TypeOK, CardTypeOK
<1>1. CASE UploadMark
  <2>1. UNCHANGED jobs /\ (marker' = marker \/ marker' = [marker EXCEPT ![upJob.save] = upJob.snap])
    BY <1>1 DEF UploadMark
  <2>2. UploadBusy
    BY <1>1 DEF UploadMark, UploadBusy
  <2>3. upId \in Ids /\ IsHead(upId) /\ jobs[upId].job = upJob
    BY <2>2, Held DEF MirrorInv, FifoInv, HeadOwned
  <2>4. UNCHANGED PendingSnapshots
    BY <2>1, LogStill DEF Present
  <2>5. PendingSnapshots # <<>> /\ Head(PendingSnapshots) = Snap(jobs[upId])
    BY <1>0, <2>3, LogRetires
  <2>6. Head(PendingSnapshots).save = upJob.save /\ Head(PendingSnapshots).snap = upJob.snap
    BY <2>3, <2>5 DEF Snap
  <2>7. CASE marker' = [marker EXCEPT ![upJob.save] = upJob.snap]
    BY <2>4, <2>5, <2>6, <2>7 DEF Log!Next, Log!Deliver
  <2>8. QED
    BY <2>1, <2>4, <2>7
<1>2. CASE UploadFinish
  <2>1. UNCHANGED marker /\ (jobs' = jobs \/ jobs' = [jobs EXCEPT ![upId] = Absent])
    BY <1>2 DEF UploadFinish
  <2>2. UploadBusy /\ upPc = "finish"
    BY <1>2 DEF UploadFinish, UploadBusy
  <2>3. /\ upId \in Ids /\ IsHead(upId) /\ jobs[upId].job = upJob
        /\ marker[upJob.save] = upJob.snap
    BY <2>2, Held DEF MirrorInv, FifoInv, HeadOwned, FolderInv, Delivered
  <2>4. /\ PendingSnapshots # <<>> /\ Head(PendingSnapshots) = Snap(jobs[upId])
        /\ jobs' = [jobs EXCEPT ![upId] = Absent] => PendingSnapshots' = Tail(PendingSnapshots)
    BY <1>0, <2>3, LogRetires
  <2>5. Head(PendingSnapshots).save = upJob.save /\ Head(PendingSnapshots).snap = upJob.snap
    BY <2>3, <2>4 DEF Snap
  <2>6. CASE jobs' = [jobs EXCEPT ![upId] = Absent]
    BY <2>1, <2>3, <2>4, <2>5, <2>6 DEF Log!Next, Log!Retire
  <2>7. CASE jobs' = jobs
    <3>1. UNCHANGED PendingSnapshots
      BY <2>7, LogStill DEF Present
    <3>2. QED
      BY <2>1, <3>1
  <2>8. QED
    BY <2>1, <2>6, <2>7
<1>3. CASE CapturePublish
  <2>1. /\ UNCHANGED marker /\ capPc = "publish"
        /\ jobs' = jobs \/ jobs' = [jobs EXCEPT ![capId] = building[capId]]
    BY <1>3 DEF CapturePublish
  <2>2. capId \in Ids /\ building[capId] \in Entry /\ \A i \in Present(jobs) : i < capId
    BY <2>1 DEF MirrorInv, TypeInv, TypeOK, CaptureTypeOK, CaptureBusy, BuiltComplete,
                FifoInv, NumberAhead
  <2>3. CASE jobs' = [jobs EXCEPT ![capId] = building[capId]]
    <3>1. PendingSnapshots' = Append(PendingSnapshots, Snap(building[capId]))
      BY <1>0, <2>2, <2>3, LogAppends
    <3>2. Snap(building[capId]) \in Log!Snapshot
      BY <2>2 DEF Snap, Log!Snapshot, Versions, Entry, Manifest
    <3>3. QED
      BY <2>1, <3>1, <3>2 DEF Log!Next, Log!Publish
  <2>4. CASE jobs' = jobs
    <3>1. UNCHANGED PendingSnapshots
      BY <2>4, LogStill DEF Present
    <3>2. QED
      BY <2>1, <3>1
  <2>5. QED
    BY <2>1, <2>3, <2>4
<1>4. CASE UploadFailed
  <2>1. UploadBusy /\ UNCHANGED marker
        /\ (jobs' = jobs \/ jobs' = [jobs EXCEPT ![upId].job = [upJob EXCEPT !.waiting = TRUE]])
    BY <1>4 DEF UploadFailed, UploadBusy
  <2>2. upId \in Ids /\ jobs[upId] \in Entry /\ jobs[upId].job = upJob /\ upJob \in Manifest
    BY <2>1, Held DEF MirrorInv, FifoInv, HeadOwned
  <2>3. /\ [jobs[upId] EXCEPT !.job = [upJob EXCEPT !.waiting = TRUE]] \in Entry
        /\ Snap([jobs[upId] EXCEPT !.job = [upJob EXCEPT !.waiting = TRUE]]) = Snap(jobs[upId])
    BY <2>2 DEF Entry, Manifest, Snap
  <2>4. Present(jobs)' = Present(jobs) /\ \A i \in Present(jobs) : Snap(jobs'[i]) = Snap(jobs[i])
    BY <1>0, <2>1, <2>2, <2>3 DEF Present
  <2>5. QED
    BY <2>1, <2>4, LogStill
<1>5. ASSUME NEW f \in Files, UploadFile(f) PROVE UNCHANGED <<PendingSnapshots, marker>>
  <2>1. UploadBusy /\ UNCHANGED marker /\ (jobs' = jobs \/ jobs' = [jobs EXCEPT ![upId].sent = @ \cup {f}])
    BY <1>5 DEF UploadFile, UploadBusy
  <2>2. upId \in Ids /\ jobs[upId] \in Entry
    BY <2>1, Held DEF MirrorInv
  <2>3. /\ [jobs[upId] EXCEPT !.sent = @ \cup {f}] \in Entry
        /\ Snap([jobs[upId] EXCEPT !.sent = @ \cup {f}]) = Snap(jobs[upId])
    BY <2>2 DEF Entry, Snap
  <2>4. Present(jobs)' = Present(jobs) /\ \A i \in Present(jobs) : Snap(jobs'[i]) = Snap(jobs[i])
    BY <1>0, <2>1, <2>2, <2>3 DEF Present
  <2>5. QED
    BY <2>1, <2>4, LogStill
<1>6. ASSUME NEW k \in Ids, DeadlinePasses(k) PROVE UNCHANGED <<PendingSnapshots, marker>>
  <2>1. UNCHANGED marker /\ jobs[k] \in Entry /\ jobs' = [jobs EXCEPT ![k].job.waiting = FALSE]
    BY <1>0, <1>6 DEF DeadlinePasses, Present
  <2>2. /\ [jobs[k] EXCEPT !.job.waiting = FALSE] \in Entry
        /\ Snap([jobs[k] EXCEPT !.job.waiting = FALSE]) = Snap(jobs[k])
    BY <2>1 DEF Entry, Manifest, Snap
  <2>3. Present(jobs)' = Present(jobs) /\ \A i \in Present(jobs) : Snap(jobs'[i]) = Snap(jobs[i])
    BY <1>0, <2>1, <2>2 DEF Present
  <2>4. QED
    BY <2>1, <2>3, LogStill
<1>7. CASE UNCHANGED <<jobs, marker>>
  BY <1>7, LogStill DEF Present
<1>8. QED
  BY <1>1, <1>2, <1>3, <1>4, <1>5, <1>6, <1>7
     DEF Next, World, Capture, Upload, Pause, Resume, Play, Exclude, Include, CaptureBegin,
         CaptureCopy, CaptureDiscard, UploadPick, UploadOpen, UploadMisses, UploadAbort,
         UploadTreeDone, UploadPrune, UploadPruneBlind, UploadPruneDone, UploadClean, Crash, Start

LEMMA InitOfLog == Init => Log!Init
<1> SUFFICES ASSUME Init PROVE PendingSnapshots = <<>> /\ marker = [s \in Saves |-> 0]
  BY DEF Log!Init
<1>1. Present(jobs) = {}
  BY DEF Init, Present
<1>2. Cardinality(Present(jobs)) = 0
  BY <1>1, FS_EmptySet
<1>3. PendingSnapshots = <<>>
  BY <1>2 DEF PendingSnapshots
<1>4. QED
  BY <1>3 DEF Init

\* The queue directory, its two workers, crashes and recovery implement a
\* first-in first-out log of snapshots: publication appends, only the oldest
\* snapshot is delivered, and it is forgotten only after its delivery was recorded.
THEOREM QueueIsALog == ASSUME ~BlindScan PROVE Spec => ImplementsLog
<1>1. MirrorInv /\ [Next]_vars => [Log!Next]_<<PendingSnapshots, marker>>
  <2>1. CASE UNCHANGED vars
    BY <2>1, LogStill DEF vars, Present
  <2>2. QED
    BY <2>1, StepOfLog
<1>2. QED
  BY <1>1, InitOfLog, MirrorInductive, PTL DEF Spec, ImplementsLog, Log!Spec
=============================================================================
