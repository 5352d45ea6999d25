---------------------------- MODULE MCSnapshots ----------------------------
(* The instance of Snapshots for TLC. *)
EXTENDS Snapshots, TLC

CONSTANTS n1, n2,       \* snapshot names
          w1, w2,       \* volumes
          r1            \* a volume to restore

\* A snapshot of each of two volumes, or two of one.
OneEach == n1 :> w1 @@ n2 :> w2
BothOfOne == n1 :> w1 @@ n2 :> w1

OfFirst == [r \in Copies |-> n1]

\* Everything but the reads by which snapshots are found.
NotReads == FaultKinds \ {"VolumeList", "SnapshotList", "SnapshotGet"}

World(kind, asked, sources, restored, kinds, n) ==
    [protocol |-> kind, names |-> asked, sourceOf |-> sources, copies |-> restored,
     faulty |-> kinds, max |-> n]

\* The cluster waits for every answer.
Waits == FaultKinds \ {"Deadline"}

AllWorlds ==
    {World("iscsi", {n1}, BothOfOne, {r1}, FaultKinds, 1),
     World("iscsi", {n1}, BothOfOne, {}, NotReads, 2),
     World("iscsi", Names, BothOfOne, {}, NotReads \cap Waits, 2),
     World("smb", {n1}, BothOfOne, {r1}, FaultKinds, 1),
     World("smb", Names, OneEach, {}, Waits, 1)}

=============================================================================
