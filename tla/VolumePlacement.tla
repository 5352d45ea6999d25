--------------------------- MODULE VolumePlacement ---------------------------
(***************************************************************************)
(* Where CreateVolume puts a new volume: the loop over the DSMs, the       *)
(* choice of a storage volume (a "location" such as /volume1) on each, and *)
(* the type of LUN; and GetCapacity, from which the cluster judges whether *)
(* there is room.                                                          *)
(*                                                                         *)
(* The specification of the volume to make is one record that all turns of *)
(* the loop share: a location chosen on one DSM stays chosen on the next.  *)
(* What happens to a LUN or share after it was made is left to the modules *)
(* IscsiVolumes and SmbVolumes; a creation here succeeds or fails whole.   *)
(* Sizes are in gigabytes.                                                 *)
(*                                                                         *)
(* An operator whose comment begins with "Mutation" is not part of the     *)
(* model: it is a plausible bug of the operator after it.                  *)
(***************************************************************************)
EXTENDS Integers, Sequences, FiniteSetsExt

CONSTANTS
    Dsms,       \* the DSMs
    Layout,     \* Layout[d]: the locations of a DSM, in the order it lists them
    Kinds,      \* the states a storage volume may be in
    Requests,   \* the volumes the cluster wants
    Worlds,     \* what a behaviour may be about; see WorldType
    None,       \* no DSM, location or type
    Faulty,     \* which calls may fail, and whether disks change
    MaxFaults   \* bound on the mishaps of one behaviour

FaultKinds == {"VolumeList", "VolumeGet", "Create", "Change"}
Statuses == {"normal", "crashed", "read_only", "deleting"}
FileSystems == {"ext4", "btrfs", "other"}
LunTypes == {"ADV", "FILE", "BLUN", "BLUN_THICK"}
Unreadable == -1        \* a free size that is no number

Paths(d) == {Layout[d][i] : i \in DOMAIN Layout[d]}
AllPaths == UNION {Paths(d) : d \in Dsms}

DiskType == [status : Statuses, free : Nat \cup {Unreadable}, fs : FileSystems, esata : BOOLEAN]

RequestType ==
    [protocol : {"iscsi", "smb"}, dsm : Dsms \cup {None}, location : AllPaths \cup {None},
     size : Nat, type : LunTypes \cup {None}, thin : BOOLEAN]

\* asked[r]: what the cluster says about a volume; refusing: the DSMs that can hold
\* no more LUNs or shares.
WorldType == [asked : [Requests -> RequestType], refusing : SUBSET Dsms]

ASSUME DsmsFinite == IsFiniteSet(Dsms)
ASSUME LayoutListed == \A d \in Dsms : Layout[d] \in Seq(Paths(d))
ASSUME KindsTyped == Kinds \subseteq DiskType
ASSUME WorldsTyped == Worlds \subseteq WorldType
ASSUME NoneIsNone == None \notin Dsms \cup AllPaths \cup LunTypes
ASSUME FaultyTyped == Faulty \subseteq FaultKinds /\ MaxFaults \in Nat

VARIABLES
    world,      \* the world of this behaviour; it never changes
    disk,       \* disk[d][p]: the storage volume of DSM d at location p
    call,       \* call[r]: the handler of request r
    placed,     \* placed[r]: where the volume was made, and as what
    faults      \* mishaps so far

vars == <<world, disk, call, placed, faults>>

Asked == world.asked
Refusing == world.refusing

-----------------------------------------------------------------------------
\* A handler: the DSM whose turn it is, those its loop has still to visit, the
\* location and type in its spec.
IdleCall == [pc |-> "idle", at |-> None, todo |-> {}, location |-> None, type |-> None]

CallType == [pc : {"idle", "VolumeList", "VolumeGet", "Create"},
             at : Dsms \cup {None}, todo : SUBSET Dsms,
             location : AllPaths \cup {None}, type : LunTypes \cup {None}]

PlaceType == [dsm : Dsms, location : AllPaths, type : LunTypes \cup {None}]

At(r, p) == call[r].pc = p
Dsm(r) == call[r].at
Mishap(kind) == kind \in Faulty /\ faults < MaxFaults /\ faults' = faults + 1

\* The storage volumes getFirstAvailableVolume takes: at least a gigabyte and
\* more than the size free, in a state that can be written, and no eSATA disk.
Available(v, size) ==
    /\ v.free >= 1 /\ v.free > size
    /\ v.status \notin {"crashed", "read_only", "deleting"}
    /\ ~v.esata

\* The first of them; none if a free size before it cannot be read.
FirstAvailable(d, size) ==
    LET v(i) == disk[d][Layout[d][i]]
        hits == {i \in DOMAIN Layout[d] : v(i).free = Unreadable \/ Available(v(i), size)}
    IN  IF hits = {} \/ v(Min(hits)).free = Unreadable THEN None ELSE Layout[d][Min(hits)]

\* getLunTypeByInputParams
LunType(r, fs) ==
    IF Asked[r].type # None THEN Asked[r].type
    ELSE CASE fs = "ext4" -> IF Asked[r].thin THEN "ADV" ELSE "FILE"
           [] fs = "btrfs" -> IF Asked[r].thin THEN "BLUN" ELSE "BLUN_THICK"
           [] OTHER -> None

\* The type of what is made for r on DSM d; a share has none.
TypeAt(r, d, p) == IF Asked[r].protocol = "smb" THEN None ELSE LunType(r, disk[d][p].fs)

\* One of the DSMs that the loop has still to visit, those the request rules out
\* left aside; the call fails when there is none.  The loop ranges over a map: the
\* order is any, and another one on each call.  "spec" is what the handler keeps
\* from its turns.
Turn(r, todo, spec) ==
    LET turns == {d \in todo : Asked[r].dsm \in {None, d}}
    IN  \/ turns = {} /\ call' = [call EXCEPT ![r] = IdleCall]
        \/ \E d \in turns :
             call' = [call EXCEPT ![r] =
               [spec EXCEPT !.at = d, !.todo = turns \ {d},
                            !.pc = IF spec.location = None THEN "VolumeList" ELSE "VolumeGet"]]

Continue(r) == Turn(r, call[r].todo, call[r])

\* Mutation: a DSM on which nothing is available ends the loop.
VolumeListLast(r) ==
    LET found == FirstAvailable(Dsm(r), Asked[r].size)
    IN  /\ At(r, "VolumeList")
        /\ IF found # None THEN call' = [call EXCEPT ![r].pc = "VolumeGet", ![r].location = found]
           ELSE call' = [call EXCEPT ![r] = IdleCall]
        /\ UNCHANGED <<world, disk, placed, faults>>

VolumeList(r) ==
    LET found == FirstAvailable(Dsm(r), Asked[r].size)
    IN  /\ At(r, "VolumeList")
        /\ \/ found # None /\ UNCHANGED faults
              /\ call' = [call EXCEPT ![r].pc = "VolumeGet", ![r].location = found]
           \/ found = None /\ UNCHANGED faults /\ Continue(r)
           \/ Mishap("VolumeList") /\ Continue(r)
        /\ UNCHANGED <<world, disk, placed>>

\* Mutation: a type found on one DSM is kept for the next, as the location is.
VolumeGetOnce(r) ==
    LET p == call[r].location
        type == IF call[r].type # None THEN call[r].type ELSE LunType(r, disk[Dsm(r)][p].fs)
    IN  /\ At(r, "VolumeGet")
        /\ IF p \in Paths(Dsm(r)) THEN call' = [call EXCEPT ![r].pc = "Create", ![r].type = type]
           ELSE Continue(r)
        /\ UNCHANGED <<world, disk, placed, faults>>

\* The location is asked of this DSM, wherever it was chosen; its file system
\* tells the type of a LUN.
VolumeGet(r) ==
    LET p == call[r].location
        type == TypeAt(r, Dsm(r), p)
        ok == p \in Paths(Dsm(r)) /\ (type # None \/ Asked[r].protocol = "smb")
    IN  /\ At(r, "VolumeGet")
        /\ \/ ok /\ UNCHANGED faults
              /\ call' = [call EXCEPT ![r].pc = "Create", ![r].type = type]
           \/ ~ok /\ UNCHANGED faults /\ Continue(r)
           \/ Mishap("VolumeGet") /\ Continue(r)
        /\ UNCHANGED <<world, disk, placed>>

\* What the DSM accepts: any size for a thin LUN or a share, and no more than it
\* has for a thick LUN, which takes the space at once.
Thick(type) == type \in {"FILE", "BLUN_THICK"}
Accepts(d, p, type, size) ==
    /\ d \notin Refusing /\ disk[d][p].status = "normal"
    /\ Thick(type) => disk[d][p].free > size

Create(r) ==
    LET d == Dsm(r)
        p == call[r].location
        type == call[r].type
        ok == Accepts(d, p, type, Asked[r].size)
    IN  /\ At(r, "Create") /\ UNCHANGED world
        /\ \/ /\ ok /\ UNCHANGED faults
              /\ placed' = [placed EXCEPT ![r] = [dsm |-> d, location |-> p, type |-> type]]
              /\ disk' = IF Thick(type) THEN [disk EXCEPT ![d][p].free = @ - Asked[r].size] ELSE disk
              /\ call' = [call EXCEPT ![r] = IdleCall]
           \/ /\ ~ok \/ "Create" \in Faulty
              /\ IF ok THEN Mishap("Create") ELSE UNCHANGED faults
              /\ Continue(r) /\ UNCHANGED <<disk, placed>>

\* The cluster asks until it succeeds, with a new spec each time.
Start(r) ==
    /\ placed[r] = None /\ At(r, "idle")
    /\ Turn(r, Dsms, [IdleCall EXCEPT !.location = Asked[r].location])
    /\ UNCHANGED <<world, disk, placed, faults>>

\* Others use the DSM too, and its disks break and are repaired.
Change(d, p) ==
    /\ Mishap("Change")
    /\ \E k \in Kinds : disk' = [disk EXCEPT ![d][p].free = k.free, ![d][p].status = k.status]
    /\ UNCHANGED <<world, call, placed>>

Finished == (\A r \in Requests : placed[r] # None) /\ UNCHANGED vars

-----------------------------------------------------------------------------
(* GetCapacity.  "up" is the DSMs whose listing does not fail.             *)

ListDsmVolumes(ip, up) == {v \in Dsms \X AllPaths :
                              v[1] \in up /\ ip \in {None, v[1]} /\ v[2] \in Paths(v[1])}

\* Mutation: only the first location of each DSM counts.
GetCapacityFirst(ip, location, up) ==
    MapThenSumSet(LAMBDA v : IF v[2] = Layout[v[1]][1] THEN disk[v[1]][v[2]].free ELSE 0,
                  {v \in ListDsmVolumes(ip, up) : location \in {None, v[2]}})

\* The free space of all locations asked for, whatever their state; a size that
\* is no number counts as nothing.
GetCapacity(ip, location, up) ==
    MapThenSumSet(LAMBDA v : IF disk[v[1]][v[2]].free = Unreadable THEN 0
                             ELSE disk[v[1]][v[2]].free,
                  {v \in ListDsmVolumes(ip, up) : location \in {None, v[2]}})

-----------------------------------------------------------------------------
Init ==
    /\ world \in Worlds
    /\ disk \in {f \in [Dsms -> UNION {[Paths(d) -> Kinds] : d \in Dsms}] :
                    \A d \in Dsms : DOMAIN f[d] = Paths(d)}
    /\ call = [r \in Requests |-> IdleCall]
    /\ placed = [r \in Requests |-> None]
    /\ faults = 0

Step(r) == VolumeList(r) \/ VolumeGet(r) \/ Create(r)

Next ==
    \/ \E r \in Requests : Start(r) \/ Step(r)
    \/ \E d \in Dsms : \E p \in Paths(d) : Change(d, p)
    \/ Finished

Spec == Init /\ [][Next]_vars

\* A handler is scheduled, its calls return, and a failed request is retried.
Fairness == \A r \in Requests : WF_vars(Step(r)) /\ WF_vars(Start(r))
FairSpec == Spec /\ Fairness

-----------------------------------------------------------------------------
(* Properties.                                                             *)

\* The shape of the state: every variable has its type.
TypeOK ==
    /\ world \in Worlds
    /\ \A d \in Dsms : disk[d] \in [Paths(d) -> DiskType]
    /\ call \in [Requests -> CallType]
    /\ placed \in [Requests -> PlaceType \cup {None}]
    /\ faults \in 0..MaxFaults

\* A volume is made on the DSM and at the location asked for, and a LUN whose
\* type was left to the driver is thin or thick as asked and of the kind that the
\* file system under it takes, also when the location was chosen on another DSM.
PlacedAsAsked ==
    \A r \in Requests : placed[r] # None =>
        LET where == placed[r]
            fs == disk[where.dsm][where.location].fs
        IN  /\ Asked[r].dsm \in {None, where.dsm}
            /\ Asked[r].location \in {None, where.location}
            /\ Asked[r].protocol = "iscsi" /\ Asked[r].type = None =>
                 /\ Thick(where.type) <=> ~Asked[r].thin
                 /\ where.type \in {"BLUN", "BLUN_THICK"} <=> fs = "btrfs"

\* The cluster places no pod for which GetCapacity told too little: wherever a
\* DSM that answers has a location that CreateVolume would choose, GetCapacity
\* tells more than the size asked for.
CapacityCovers ==
    \A r \in Requests, up \in SUBSET Dsms : \A d \in up :
        LET ip == Asked[r].dsm
        IN  ip \in {None, d} /\ FirstAvailable(d, Asked[r].size) # None =>
              /\ GetCapacity(ip, None, up) > Asked[r].size
              /\ GetCapacity(ip, FirstAvailable(d, Asked[r].size), up) > Asked[r].size

Allowed(r) == {d \in Dsms : Asked[r].dsm \in {None, d}}

\* The location of a call whose first turn is at d, and whether d takes the volume
\* at a location.
Chooses(r, d) == IF Asked[r].location # None THEN Asked[r].location
                 ELSE FirstAvailable(d, Asked[r].size)

Fits(r, d, p) ==
    /\ p \in Paths(d)
    /\ Asked[r].protocol = "smb" \/ TypeAt(r, d, p) # None
    /\ Accepts(d, p, TypeAt(r, d, p), Asked[r].size)

\* A DSM that takes the volume if it is asked first; one that takes it also at
\* the location that any other DSM would have chosen.
Takes(r, d) == d \in Allowed(r) /\ Fits(r, d, Chooses(r, d))

TakesAnywhere(r, d) ==
    /\ Takes(r, d)
    /\ \A e \in Allowed(r) : Chooses(r, e) # None => Fits(r, d, Chooses(r, e))

First(r, d) == ~At(r, "idle") /\ call[r].at = d /\ call[r].todo = Allowed(r) \ {d}

\* A volume is placed in the end if some DSM could take it all the time and is the
\* first to be asked again and again, or takes it at whatever location the DSMs
\* before it choose.  Neither is a matter of course: the map may go on to bring
\* first a DSM that chooses a location and then refuses, and the location stays in
\* the spec for DSMs that do not have it.
EventuallyPlaced ==
    \A r \in Requests :
        (\E d \in Dsms : <>[]Takes(r, d) /\ ([]<>First(r, d) \/ <>[]TakesAnywhere(r, d)))
          => <>(placed[r] # None)

=============================================================================
