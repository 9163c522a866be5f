---------------------------- MODULE SnapshotLog ----------------------------
(***************************************************************************)
(* What the snapshot queue promises, with no directory, sequence number,   *)
(* worker or crash in sight: a first-in first-out log of snapshots, of     *)
(* which only the oldest is ever delivered, and which forgets a snapshot   *)
(* only after its delivery was recorded.                                   *)
(***************************************************************************)
EXTENDS Naturals, Sequences

CONSTANTS Saves, MaxVer

VARIABLES
    pending,    \* the published snapshots not yet retired, oldest first
    synced      \* synced[s]: version of save s recorded as delivered, 0 if none

Snapshot == [save: Saves, snap: 1..MaxVer]

Init ==
    /\ pending = <<>>
    /\ synced = [s \in Saves |-> 0]

Publish(x) ==
    /\ pending' = Append(pending, x)
    /\ UNCHANGED synced

\* Recording may happen again for the same snapshot, after a crash.
Deliver ==
    /\ pending # <<>>
    /\ synced' = [synced EXCEPT ![Head(pending).save] = Head(pending).snap]
    /\ UNCHANGED pending

Retire ==
    /\ pending # <<>>
    /\ synced[Head(pending).save] = Head(pending).snap
    /\ pending' = Tail(pending)
    /\ UNCHANGED synced

Next == Deliver \/ Retire \/ \E x \in Snapshot : Publish(x)

Spec == Init /\ [][Next]_<<pending, synced>>
=============================================================================
