--------------------------- MODULE MCIscsiVolumes ---------------------------
(* Instances of IscsiVolumes for TLC. *)
EXTENDS IscsiVolumes, TLC

CONSTANTS v1, v2        \* volume names

Plain == [size |-> 1, source |-> None, multiSession |-> FALSE, dsm |-> None]

\* One volume, attached by several nodes.
OneShared == v1 :> [Plain EXCEPT !.multiSession = TRUE]

\* A volume and a clone of it.
VolumeAndClone == v1 :> Plain @@ v2 :> [Plain EXCEPT !.source = v1]

\* Everything may go wrong.
AllFaults == FaultKinds

\* Everything but the reads by which volumes are found.
NotReads == FaultKinds \ {"TargetList", "LunLookup", "Login"}

\* As NotReads, and the cluster waits for every answer.
Patient == NotReads \ {"Deadline"}

\* Steps of a creation fail, but the driver learns what was done.
Honest == {"Location", "LunCreate", "LunGet", "TargetCreate", "TargetGet",
           "TargetSet", "Crash", "Deadline"}

\* Listings may fail, and answers be late.
Listings == {"TargetList", "Deadline"}

Symmetry == Permutations(Uuids) \cup Permutations(Tids) \cup Permutations(Calls)
                \cup Permutations(Dsms)

=============================================================================
