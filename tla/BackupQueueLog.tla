--------------------------- MODULE BackupQueueLog ---------------------------
(***************************************************************************)
(* The queue directory implements the snapshot log: sorted by sequence     *)
(* number, the published entries are the log's pending snapshots, and the  *)
(* rev-*.txt markers are its record of deliveries.                         *)
(***************************************************************************)
EXTENDS BackupQueue

\* How many of the numbers P are smaller than i, and the k-th of them.
Rank(P, i) == Cardinality({j \in P : j < i})
Nth(P, k)  == CHOOSE i \in P : Rank(P, i) = k - 1

\* What the log knows of a published entry.
Snap(e) == [save |-> e.job.save, snap |-> e.job.snap]

PendingSnapshots ==
    [k \in 1..Cardinality(Present(jobs)) |-> Snap(jobs[Nth(Present(jobs), k)])]

Log == INSTANCE SnapshotLog WITH pending <- PendingSnapshots, synced <- marker

\* Every step of the queue, including captures that race an upload, crashes and
\* recovery, is a step of the log or invisible to it: publication appends at the
\* end, only the oldest snapshot is delivered, nothing retired comes back.
ImplementsLog == Log!Spec
=============================================================================
