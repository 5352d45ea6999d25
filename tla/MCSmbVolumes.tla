---------------------------- MODULE MCSmbVolumes ----------------------------
(* The instance of SmbVolumes for TLC. *)
EXTENDS SmbVolumes, TLC

CONSTANTS v1, v2,       \* volume names
          s1, s2,       \* share names
          d1, d2        \* storage servers

\* A volume of one and a half megabytes, of two bytes each, and a clone of it.
Plain == [size |-> 3, source |-> None, dsm |-> None]
VolumeAndClone == v1 :> Plain @@ v2 :> [Plain EXCEPT !.source = v1, !.size = 4]

Distinct == v1 :> s1 @@ v2 :> s2

\* The cluster waits for every answer.
Waits == FaultKinds \ {"Deadline"}

World(two, lost, wished, kinds, n) ==
    [unified |-> two, quotaLost |-> lost,
     wishes |-> v1 :> wished @@ v2 :> {}, faulty |-> kinds, max |-> n]

\* The users of the clone wish for more space.
Expanded(w) == [w EXCEPT !.wishes = v1 :> {} @@ v2 :> {6}]

\* In the last two an abandoned handler may set a quota that is out of date.
AllWorlds ==
    {World({d2}, FALSE, {6}, FaultKinds, 1),
     World({}, TRUE, {}, FaultKinds \ {"ShareList"}, 1),
     World({d2}, FALSE, {5, 8}, Waits, 2),
     World({d2}, FALSE, {5, 8}, {"Deadline"}, 1),
     Expanded(World({d2}, TRUE, {}, {"Deadline"}, 1))}

=============================================================================
