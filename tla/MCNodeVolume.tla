---------------------------- MODULE MCNodeVolume ----------------------------
(* The instance of NodeVolume for TLC. *)
EXTENDS NodeVolume

World(kind, faulty, max, limit) ==
    [kind |-> kind, faulty |-> faulty, max |-> max, size |-> limit]

\* The kubelet waits for every answer.
Waits == FaultKinds \ {"Deadline"}

\* As Waits, and what logoutTarget needs does not fail.
LogsOut == Waits \ {"GetVolume", "SessionList", "Logout"}

AllWorlds == {World("fs", FaultKinds, 1, 1),
              World("fs", Waits, 2, 1), World("fs", Waits, 1, 2),
              World("fs", LogsOut, 2, 1),
              World("block", Waits, 2, 1), World("block", Waits, 1, 2),
              World("smb", FaultKinds, 1, 1), World("smb", Waits, 2, 1)}

=============================================================================
