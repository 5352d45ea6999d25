-------------------------- MODULE MCVolumePlacement --------------------------
(* The instance of VolumePlacement for TLC. *)
EXTENDS VolumePlacement, TLC

CONSTANTS d1, d2,       \* DSMs
          p1, p2,       \* locations
          r1, r2        \* requests

\* The DSMs have a location in common, and one of them a second one.
SamePaths == d1 :> <<p1, p2>> @@ d2 :> <<p1>>

Disk(status, free, fs, esata) == [status |-> status, free |-> free, fs |-> fs, esata |-> esata]

\* With room on either file system, nearly full, broken, external, unreadable.
DiskKinds == {Disk("normal", 4, "ext4", FALSE), Disk("normal", 4, "btrfs", FALSE),
              Disk("normal", 2, "btrfs", FALSE), Disk("crashed", 4, "ext4", FALSE),
              Disk("normal", 4, "ext4", TRUE), Disk("normal", Unreadable, "ext4", FALSE)}

Ask(protocol, location, thin) ==
    [protocol |-> protocol, dsm |-> None, location |-> location, size |-> 2,
     type |-> None, thin |-> thin]

\* A thick LUN at a location and a thin one anywhere; two thick ones, for which one
\* location has no room.
Luns == r1 :> Ask("iscsi", p1, FALSE) @@ r2 :> Ask("iscsi", None, TRUE)
ThickLuns == r1 :> Ask("iscsi", p1, FALSE) @@ r2 :> Ask("iscsi", None, FALSE)

\* In the first world d1, which also has p2, chooses locations but can hold nothing
\* more.
SomeWorlds == {[asked |-> Luns, refusing |-> {d1}], [asked |-> ThickLuns, refusing |-> {}]}

=============================================================================
