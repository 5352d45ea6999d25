------------------------------ MODULE Snapshots ------------------------------
(***************************************************************************)
(* Snapshots of volumes, and volumes restored from snapshots, on one DSM.  *)
(*                                                                         *)
(* A LUN's snapshot has a name and a uuid, is taken in the background and  *)
(* is ready when the DSM calls it healthy.  A share's snapshot is named by *)
(* the second in which it was taken, keeps the cluster's name for it in    *)
(* its description, and is ready at once.  The driver keeps nothing: it    *)
(* lists all volumes and the snapshots of each to find one, and lists them *)
(* again to answer for the one it has just taken.  One action is one call  *)
(* of the DSM's web API; calls fail before or after their effect.          *)
(*                                                                         *)
(* An operator whose comment begins with "Mutation" is not part of the     *)
(* model: it is a plausible bug of the operator after it.                  *)
(***************************************************************************)
EXTENDS Integers, FiniteSets

CONSTANTS
    Volumes,    \* the volumes that snapshots are taken of
    Names,      \* the snapshots the cluster may ask for
    Copies,     \* the volumes it may want restored
    FromOf,     \* FromOf[r]: the snapshot r is to be restored from
    Uuids,      \* snapshot uuids; a DSM never gives the same one twice
    MaxTime,    \* bound on the seconds that pass
    Calls,      \* the handlers that may run at the same time
    None,       \* no name, volume or snapshot
    Worlds      \* the clusters and environments of the behaviours

FaultKinds == {"VolumeList", "SnapshotList", "SnapshotCreate", "SnapshotDelete",
               "SnapshotGet", "SnapshotClone", "WaitClone", "Map", "Crash", "Deadline"}

ASSUME NoneIsNone == None \notin Volumes \cup Names \cup Copies \cup Uuids
ASSUME NamesApart == Names \cap Copies = {}
ASSUME FromOfTyped == FromOf \in [Copies -> Names]
ASSUME MaxTimePositive == MaxTime \in Nat \ {0}

\* A world fixes the volumes' protocol, the names of the snapshots asked for, the
\* volume each is to be taken of and the copies wanted of them, and which calls
\* may fail and which other mishaps may happen; it bounds their number.
ASSUME WorldsTyped ==
    Worlds \subseteq [protocol : {"iscsi", "smb"}, names : SUBSET Names,
                     sourceOf : [Names -> Volumes], copies : SUBSET Copies,
                     faulty : SUBSET FaultKinds, max : Nat]

VARIABLES
    alive,      \* the volumes that exist
    snap,       \* the snapshots of the DSM
    copy,       \* the restored volumes of the DSM
    clock,      \* the DSM's clock, in seconds
    call,       \* the handlers: program counter, request, local variables
    phase,      \* the cluster's view of each snapshot and each copy
    snapId,     \* the id the cluster was given for each snapshot
    faults,     \* mishaps so far
    world       \* the world of this behaviour, which never changes

dsmVars == <<alive, snap, copy, clock>>
clusterVars == <<phase, snapId>>
vars == <<dsmVars, call, clusterVars, faults>>

-----------------------------------------------------------------------------
Smb == world.protocol = "smb"
SourceOf == world.sourceOf
Faulty == world.faulty
MaxFaults == world.max

Times == 1 .. MaxTime

SnapType == [st : {"unborn", "taking", "healthy", "deleted"}, name : Names \cup {None},
             parent : Volumes \cup {None}, time : Times \cup {0}]
NoSnap == [st |-> "unborn", name |-> None, parent |-> None, time |-> 0]

Live(u) == snap[u].st \in {"taking", "healthy"}
UnbornSnaps == {u \in Uuids : snap[u].st = "unborn"}

\* Which of the unused uuids a new snapshot gets makes no difference.
NewUuid == CHOOSE u \in UnbornSnaps : TRUE

SnapsOf(v) == {u \in Uuids : Live(u) /\ snap[u].parent = v}

\* A restored volume: the snapshot it is a copy of, and whether the driver
\* lists it: a LUN once it is mapped to a target, a share at once.
CopyType == [st : {"none", "cloning", "ready", "listed"}, of : Uuids \cup {None}]
NoCopy == [st |-> "none", of |-> None]

IdleCall == [pc |-> "idle", op |-> "none", name |-> None, by |-> "name", id |-> None,
             time |-> 0, live |-> FALSE, todo |-> {}, found |-> None, ready |-> FALSE]

CallType ==
    [pc : {"idle", "CopyList", "VolumeList", "SnapshotList", "GetVolume", "SnapshotCreate",
           "SnapshotDelete", "SnapshotGet", "SnapshotClone", "WaitClone", "Map"},
     op : {"none", "create", "delete", "restore"},
     name : Names \cup Copies \cup {None},
     by : {"name", "uuid", "made", "gone"},  \* what the listing is for
     id : Uuids \cup {None},                 \* the snapshot asked for, or made
     time : Times \cup {0},                  \* the time of the one made
     live : BOOLEAN,                         \* the cluster waits for the answer
     todo : SUBSET Volumes,                  \* volumes not yet visited by the loop
     found : Uuids \cup {None}, ready : BOOLEAN]

At(c, p) == call[c].pc = p
Busy(c) == call[c].pc # "idle"
Goto(c, p) == call' = [call EXCEPT ![c].pc = p]
Return(c) == call' = [call EXCEPT ![c] = IdleCall]

Mishap(kind) == kind \in Faulty /\ faults < MaxFaults /\ faults' = faults + 1

\* A call is answered, fails without effect, or takes effect and seems to fail.
Outcomes == {"ok", "lost", "mute"}
Outcome(kind, o) == \/ o = "ok" /\ UNCHANGED faults
                    \/ o \in {"lost", "mute"} /\ Mishap(kind)

Refuse(c) == Return(c) /\ UNCHANGED clusterVars
Answers(c, p) == call[c].live /\ phase[call[c].name] = p

\* A snapshot that is not ready yet is asked for again.
CreateDone(c, u, ready) ==
    /\ Return(c)
    /\ IF Answers(c, "wanted") /\ ready
         THEN /\ phase' = [phase EXCEPT ![call[c].name] = "bound"]
              /\ snapId' = [snapId EXCEPT ![call[c].name] = u]
         ELSE UNCHANGED clusterVars

DeleteDone(c) ==
    /\ Return(c)
    /\ IF Answers(c, "released")
         THEN phase' = [phase EXCEPT ![call[c].name] = "deleted"] ELSE UNCHANGED phase
    /\ UNCHANGED snapId

RestoreDone(c) ==
    /\ Return(c)
    /\ IF Answers(c, "wanted")
         THEN phase' = [phase EXCEPT ![call[c].name] = "bound"] ELSE UNCHANGED phase
    /\ UNCHANGED snapId

-----------------------------------------------------------------------------
(* ListAllSnapshots: the volumes are listed, then the snapshots of each.   *)
(* Volumes and snapshots whose listing fails are left out.                 *)

\* Mutation: a share's snapshot is told by its time alone.
WantedByTime(c, u) ==
    CASE call[c].by = "name" -> snap[u].name = call[c].name
      [] call[c].by = "made" /\ Smb -> snap[u].time = call[c].time
      [] OTHER -> u = call[c].id

\* What the listing looks for: the snapshot of this name, the one with this
\* uuid, or the share's snapshot of this time that was taken a moment ago.
Wanted(c, u) ==
    CASE call[c].by = "name" -> snap[u].name = call[c].name
      [] call[c].by = "made" /\ Smb -> /\ snap[u].time = call[c].time
                                       /\ snap[u].parent = SourceOf[call[c].name]
      [] OTHER -> u = call[c].id

\* A failing listing of the targets or shares leaves nothing; a failing read of
\* one LUN leaves that volume out.
VolumeList(c) ==
    /\ At(c, "VolumeList")
    /\ \/ call' = [call EXCEPT ![c].pc = "SnapshotList", ![c].todo = alive] /\ UNCHANGED faults
       \/ /\ Mishap("VolumeList")
          /\ \E seen \in {{}} \cup {alive \ {v} : v \in alive} :
               call' = [call EXCEPT ![c].pc = "SnapshotList", ![c].todo = seen]
    /\ UNCHANGED <<dsmVars, clusterVars>>

SnapshotList(c) ==
    /\ At(c, "SnapshotList")
    /\ \E v \in call[c].todo :
         LET rest == [call EXCEPT ![c].todo = @ \ {v}]
             fit == {u \in SnapsOf(v) : Wanted(c, u)}
         IN  \/ (fit = {} \/ call[c].found # None) /\ call' = rest /\ UNCHANGED faults
             \/ /\ call[c].found = None
                /\ \E u \in fit : call' = [rest EXCEPT ![c].found = u,
                                             ![c].ready = (snap[u].st = "healthy")]
                /\ UNCHANGED faults
             \/ Mishap("SnapshotList") /\ call' = rest
    /\ UNCHANGED <<dsmVars, clusterVars>>

\* Mutation: the snapshot that was found is not returned.
ListEndAgain(c) ==
    LET u == call[c].found
        go(p) == /\ call' = [call EXCEPT ![c].pc = p, ![c].id = u, ![c].found = None]
                 /\ UNCHANGED clusterVars
    IN  /\ At(c, "SnapshotList") /\ call[c].todo = {}
        /\ CASE call[c].by = "name" -> go("GetVolume")
             [] call[c].op = "create" /\ call[c].by # "name" ->
                  IF u = None THEN Refuse(c) ELSE CreateDone(c, u, call[c].ready)
             [] call[c].op = "delete" /\ call[c].by = "uuid" ->
                  IF u = None THEN DeleteDone(c) ELSE go("SnapshotDelete")
             [] call[c].op = "delete" /\ call[c].by = "gone" ->
                  IF u = None THEN DeleteDone(c) ELSE Refuse(c)
             [] call[c].op = "restore" ->
                  IF u = None THEN Refuse(c) ELSE go("SnapshotClone")
        /\ UNCHANGED <<dsmVars, faults>>

\* Mutation: there is nothing to delete, and that is an error.
ListEndStrict(c) ==
    LET u == call[c].found
        go(p) == /\ call' = [call EXCEPT ![c].pc = p, ![c].id = u, ![c].found = None]
                 /\ UNCHANGED clusterVars
    IN  /\ At(c, "SnapshotList") /\ call[c].todo = {}
        /\ CASE call[c].op = "create" /\ u # None -> CreateDone(c, u, call[c].ready)
             [] call[c].op = "create" /\ u = None ->
                  IF call[c].by = "name" THEN go("GetVolume") ELSE Refuse(c)
             [] call[c].op = "delete" ->
                  IF u # None /\ call[c].by = "uuid" THEN go("SnapshotDelete") ELSE Refuse(c)
             [] call[c].op = "restore" ->
                  IF u = None THEN Refuse(c) ELSE go("SnapshotClone")
        /\ UNCHANGED <<dsmVars, faults>>

\* What is done with the snapshot found, or with none.
ListEnd(c) ==
    LET u == call[c].found
        go(p) == /\ call' = [call EXCEPT ![c].pc = p, ![c].id = u, ![c].found = None]
                 /\ UNCHANGED clusterVars
    IN  /\ At(c, "SnapshotList") /\ call[c].todo = {}
        /\ CASE call[c].op = "create" /\ u # None ->
                  IF call[c].by = "name" /\ snap[u].parent # SourceOf[call[c].name]
                    THEN Refuse(c) ELSE CreateDone(c, u, call[c].ready)
             [] call[c].op = "create" /\ u = None ->
                  IF call[c].by = "name" THEN go("GetVolume") ELSE Refuse(c)
             [] call[c].op = "delete" /\ u = None -> DeleteDone(c)
             [] call[c].op = "delete" /\ u # None ->
                  IF call[c].by = "uuid" THEN go("SnapshotDelete") ELSE Refuse(c)
             [] call[c].op = "restore" ->
                  IF u = None THEN Refuse(c) ELSE go("SnapshotClone")
        /\ UNCHANGED <<dsmVars, faults>>

-----------------------------------------------------------------------------
(* CreateSnapshot.                                                         *)

\* The volume is looked up, in a listing of its own.
GetVolume(c) ==
    /\ At(c, "GetVolume")
    /\ \/ SourceOf[call[c].name] \in alive /\ UNCHANGED faults
          /\ Goto(c, "SnapshotCreate") /\ UNCHANGED clusterVars
       \/ SourceOf[call[c].name] \notin alive /\ UNCHANGED faults /\ Refuse(c)
       \/ Mishap("VolumeList") /\ Refuse(c)
    /\ UNCHANGED dsmVars

\* A share takes one snapshot a second.  What was made is listed again to tell
\* its size, time and state, before the request is answered.
SnapshotCreate(c) ==
    LET n == call[c].name
        v == SourceOf[n]
        u == NewUuid
        able == /\ v \in alive /\ UnbornSnaps # {}
                /\ Smb => \A w \in SnapsOf(v) : snap[w].time # clock
    IN  /\ At(c, "SnapshotCreate")
        /\ \E o \in Outcomes :
             /\ Outcome("SnapshotCreate", o)
             /\ snap' = IF o = "lost" \/ ~able THEN snap
                        ELSE [snap EXCEPT ![u] =
                               [st |-> IF Smb THEN "healthy" ELSE "taking", name |-> n,
                                parent |-> v, time |-> clock]]
             /\ IF o = "ok" /\ able
                  THEN /\ call' = [call EXCEPT ![c].pc = "VolumeList", ![c].by = "made",
                                               ![c].id = u, ![c].time = clock]
                       /\ UNCHANGED clusterVars
                  ELSE Refuse(c)
        /\ UNCHANGED <<alive, copy, clock>>

-----------------------------------------------------------------------------
(* DeleteSnapshot.                                                         *)

\* A LUN's snapshot is deleted by its uuid, a share's by its time.
ToDelete(c) == IF Smb THEN {u \in SnapsOf(snap[call[c].id].parent) :
                               snap[u].time = snap[call[c].id].time}
                      ELSE {call[c].id} \cap {u \in Uuids : Live(u)}

\* Mutation: an error of SnapshotDelete is taken to mean that there is none.
SnapshotDeleteTried(c) ==
    LET gone == ToDelete(c)
    IN  /\ At(c, "SnapshotDelete")
        /\ \E o \in Outcomes :
             /\ Outcome("SnapshotDelete", o)
             /\ snap' = [u \in Uuids |-> IF o # "lost" /\ u \in gone
                           THEN [snap[u] EXCEPT !.st = "deleted"] ELSE snap[u]]
        /\ DeleteDone(c)
        /\ UNCHANGED <<alive, copy, clock>>

\* After an error the DSM is asked whether the snapshot is still there.
SnapshotDelete(c) ==
    LET gone == ToDelete(c)
    IN  /\ At(c, "SnapshotDelete")
        /\ \E o \in Outcomes :
             /\ Outcome("SnapshotDelete", o)
             /\ snap' = [u \in Uuids |-> IF o # "lost" /\ u \in gone
                           THEN [snap[u] EXCEPT !.st = "deleted"] ELSE snap[u]]
             /\ IF o = "ok" /\ gone # {}
                  THEN DeleteDone(c)
                  ELSE /\ call' = [call EXCEPT ![c].pc = IF Smb THEN "VolumeList" ELSE "SnapshotGet",
                                               ![c].by = "gone"]
                       /\ UNCHANGED clusterVars
        /\ UNCHANGED <<alive, copy, clock>>

\* Done if SnapshotGet fails, whatever its error.
SnapshotGet(c) ==
    /\ At(c, "SnapshotGet")
    /\ \/ Live(call[c].id) /\ Refuse(c) /\ UNCHANGED faults
       \/ ~Live(call[c].id) /\ DeleteDone(c) /\ UNCHANGED faults
       \/ Mishap("SnapshotGet") /\ DeleteDone(c)
    /\ UNCHANGED dsmVars

-----------------------------------------------------------------------------
(* CreateVolume from a snapshot.                                           *)

\* Mutation: a LUN of this name counts as the volume, mapped or not.
CopyListAny(c) ==
    /\ At(c, "CopyList")
    /\ IF copy[call[c].name].st # "none" THEN RestoreDone(c)
       ELSE Goto(c, "VolumeList") /\ UNCHANGED clusterVars
    /\ UNCHANGED <<dsmVars, faults>>

\* GetVolumeByName: a volume of this name counts as the one asked for.
CopyList(c) ==
    /\ At(c, "CopyList")
    /\ \/ copy[call[c].name].st = "listed" /\ RestoreDone(c) /\ UNCHANGED faults
       \/ /\ copy[call[c].name].st # "listed" /\ UNCHANGED faults
          /\ Goto(c, "VolumeList") /\ UNCHANGED clusterVars
       \/ Mishap("VolumeList") /\ Goto(c, "VolumeList") /\ UNCHANGED clusterVars
    /\ UNCHANGED dsmVars

\* A name already in use is no error.  A share's snapshot is cloned with the
\* help of its share, a LUN's in the background.  The size of the copy, and the
\* quota of a share, are left out: IscsiVolumes and SmbVolumes have them.
SnapshotClone(c) ==
    LET r == call[c].name
        u == call[c].id
        exists == copy[r].st # "none"
        able == snap[u].st = "healthy" /\ snap[u].parent \in alive
    IN  /\ At(c, "SnapshotClone")
        /\ \E o \in Outcomes :
             /\ Outcome("SnapshotClone", o)
             /\ copy' = IF o = "lost" \/ exists \/ ~able THEN copy
                        ELSE [copy EXCEPT ![r] = [st |-> IF Smb THEN "listed" ELSE "cloning",
                                                  of |-> u]]
             /\ IF ~(o = "ok" /\ (exists \/ able)) THEN Refuse(c)
                ELSE IF Smb THEN RestoreDone(c)
                ELSE Goto(c, "WaitClone") /\ UNCHANGED clusterVars
        /\ UNCHANGED <<alive, snap, clock>>

\* Mutation: after 20 seconds the copy is taken as it is.
WaitCloneAtMost(c) ==
    /\ At(c, "WaitClone")
    /\ Goto(c, "Map") /\ UNCHANGED <<dsmVars, clusterVars, faults>>

\* waitCloneFinished: polls until unlocked, an error, or 20 seconds have gone.
WaitClone(c) ==
    LET st == copy[call[c].name].st
    IN  /\ At(c, "WaitClone")
        /\ \/ st # "cloning" /\ Goto(c, "Map") /\ UNCHANGED <<clusterVars, faults>>
           \/ st = "cloning" /\ Refuse(c) /\ UNCHANGED faults
           \/ Mishap("WaitClone") /\ Refuse(c)
        /\ UNCHANGED dsmVars

\* createMappingTarget, whose steps IscsiVolumes has one by one.
Map(c) ==
    LET r == call[c].name
    IN  /\ At(c, "Map")
        /\ \E o \in Outcomes :
             /\ Outcome("Map", o)
             /\ copy' = IF o = "lost" THEN copy ELSE [copy EXCEPT ![r].st = "listed"]
             /\ IF o = "ok" THEN RestoreDone(c) ELSE Refuse(c)
        /\ UNCHANGED <<alive, snap, clock>>

\* One step of a handler.
Step(c) == \/ CopyList(c) \/ VolumeList(c) \/ SnapshotList(c) \/ ListEnd(c)
           \/ GetVolume(c) \/ SnapshotCreate(c)
           \/ SnapshotDelete(c) \/ SnapshotGet(c)
           \/ SnapshotClone(c) \/ WaitClone(c) \/ Map(c)

-----------------------------------------------------------------------------
(* The cluster: one live call per name, retried until it succeeds.         *)

LiveCall(n) == \E c \in Calls : Busy(c) /\ call[c].live /\ call[c].name = n

Start(c, op, n, pc, by, id) ==
    /\ ~Busy(c) /\ ~LiveCall(n)
    /\ call' = [call EXCEPT ![c] = [IdleCall EXCEPT !.pc = pc, !.op = op, !.name = n,
                                    !.by = by, !.id = id, !.live = TRUE]]
    /\ UNCHANGED <<dsmVars, clusterVars, faults>>

StartCreate(c, n) ==
    n \in world.names /\ phase[n] = "wanted" /\ Start(c, "create", n, "VolumeList", "name", None)

StartDelete(c, n) ==
    phase[n] = "released" /\ Start(c, "delete", n, "VolumeList", "uuid", snapId[n])

StartRestore(c, r) ==
    /\ r \in world.copies /\ phase[r] = "wanted" /\ phase[FromOf[r]] = "bound"
    /\ Start(c, "restore", r, "CopyList", "uuid", snapId[FromOf[r]])

Release(n) ==
    /\ phase[n] = "bound" /\ phase' = [phase EXCEPT ![n] = "released"]
    /\ UNCHANGED <<dsmVars, call, snapId, faults>>

Deadline(c) ==
    /\ Busy(c) /\ call[c].live /\ Mishap("Deadline")
    /\ call' = [call EXCEPT ![c].live = FALSE]
    /\ UNCHANGED <<dsmVars, clusterVars>>

Restart ==
    /\ Mishap("Crash") /\ call' = [c \in Calls |-> IdleCall]
    /\ UNCHANGED <<dsmVars, clusterVars>>

-----------------------------------------------------------------------------
(* The DSM.                                                                *)

SnapshotDone(u) ==
    /\ snap[u].st = "taking" /\ snap' = [snap EXCEPT ![u].st = "healthy"]
    /\ UNCHANGED <<alive, copy, clock, call, clusterVars, faults>>

CloneDone(r) ==
    /\ copy[r].st = "cloning" /\ copy' = [copy EXCEPT ![r].st = "ready"]
    /\ UNCHANGED <<alive, snap, clock, call, clusterVars, faults>>

Tick == /\ Smb /\ clock < MaxTime /\ clock' = clock + 1
        /\ UNCHANGED <<alive, snap, copy, call, clusterVars, faults>>

\* A volume is deleted, and its snapshots with it; the cluster does not let that
\* happen while it waits for a snapshot of the volume.
DeleteSource(v) ==
    /\ v \in alive /\ \A n \in world.names : SourceOf[n] = v => phase[n] # "wanted"
    /\ alive' = alive \ {v}
    /\ snap' = [u \in Uuids |-> IF u \in SnapsOf(v)
                  THEN [snap[u] EXCEPT !.st = "deleted"] ELSE snap[u]]
    /\ UNCHANGED <<copy, clock, call, clusterVars, faults>>

\* Nothing can be restored from a snapshot that was given up or has gone.
SourceGone(r) ==
    LET n == FromOf[r]
    IN  phase[n] \in {"released", "deleted"} \/ (phase[n] = "bound" /\ ~Live(snapId[n]))

Finished ==
    /\ \A n \in world.names : phase[n] = "deleted"
    /\ \A c \in Calls : ~Busy(c)
    /\ UNCHANGED vars

-----------------------------------------------------------------------------
Init ==
    /\ world \in Worlds
    /\ alive = {SourceOf[n] : n \in world.names}
    /\ snap = [u \in Uuids |-> NoSnap]
    /\ copy = [r \in Copies |-> NoCopy]
    /\ clock = 1
    /\ call = [c \in Calls |-> IdleCall]
    /\ phase = [n \in Names \cup Copies |-> "wanted"]
    /\ snapId = [n \in Names |-> None]
    /\ faults = 0

Next ==
    \/ \E c \in Calls : Step(c)
    \/ \E c \in Calls, n \in Names : StartCreate(c, n) \/ StartDelete(c, n)
    \/ \E c \in Calls, r \in Copies : StartRestore(c, r)
    \/ \E n \in Names : Release(n)
    \/ \E c \in Calls : Deadline(c)
    \/ Restart
    \/ \E u \in Uuids : SnapshotDone(u)
    \/ \E r \in Copies : CloneDone(r)
    \/ Tick
    \/ \E v \in Volumes : DeleteSource(v)
    \/ Finished

Spec == Init /\ [][Next /\ UNCHANGED world]_<<vars, world>>

(* A running handler is scheduled, the DSM finishes what it does in the     *)
(* background, and the sidecars come back to what they have work for.       *)
Fairness ==
    /\ \A c \in Calls : WF_vars(Step(c))
    /\ \A u \in Uuids : WF_vars(SnapshotDone(u))
    /\ \A r \in Copies : /\ WF_vars(CloneDone(r))
                         /\ SF_vars(\E c \in Calls : StartRestore(c, r))
    /\ WF_vars(Tick)
    /\ \A n \in Names : /\ SF_vars(\E c \in Calls : StartCreate(c, n))
                        /\ SF_vars(\E c \in Calls : StartDelete(c, n))

FairSpec == Spec /\ Fairness

-----------------------------------------------------------------------------
(* Properties.                                                             *)

\* The shape of the state: every variable has its type.
TypeOK ==
    /\ alive \subseteq Volumes
    /\ snap \in [Uuids -> SnapType]
    /\ copy \in [Copies -> CopyType]
    /\ clock \in Times
    /\ call \in [Calls -> CallType]
    /\ phase \in [Names \cup Copies -> {"wanted", "bound", "released", "deleted"}]
    /\ snapId \in [Names -> Uuids \cup {None}]
    /\ faults \in 0..MaxFaults

\* The reads by which snapshots are found do not fail.
LookupsWork == Faulty \cap {"VolumeList", "SnapshotList", "SnapshotGet"} = {}

\* No request has two handlers where that could be told: a deletion that the cluster
\* gave up and repeated would, when both find the share's snapshot, delete another
\* one of the share that was taken in between and in the same second.
Careful == Smb => "Deadline" \notin Faulty

\* The snapshot reported for a name is ready, bears that name, shows the volume
\* it was asked of, and stays while the volume stays until it is released: no
\* deletion of another snapshot takes it, and none is told by its time alone.
SnapshotKept ==
    Careful => \A n \in Names : phase[n] = "bound" /\ SourceOf[n] \in alive =>
        \E u \in Uuids : u = snapId[n] /\ snap[u] = [st |-> "healthy", name |-> n,
                             parent |-> SourceOf[n], time |-> snap[u].time]

\* CreateSnapshot is idempotent: no name has two snapshots, although the name is
\* only looked for before the snapshot is taken and names bind nothing on a DSM:
\* if the listings do not fail and the cluster waits for its answers.
OneSnapshotPerName ==
    LookupsWork /\ "Deadline" \notin Faulty =>
      \A u, w \in Uuids : Live(u) /\ Live(w) /\ snap[u].name = snap[w].name => u = w

\* When DeleteSnapshot reported success the snapshot is gone from its DSM,
\* if the reads by which snapshots are found do not fail.
DeletedGone ==
    LookupsWork => \A n \in Names : phase[n] = "deleted" => snapId[n] # None /\ ~Live(snapId[n])

\* A restored volume that was reported is complete, and a copy of a snapshot of
\* the name it was to be restored from, also when a failed try left it half-made
\* and another finished it.
RestoredComplete ==
    \A r \in Copies : phase[r] = "bound" =>
        /\ copy[r].st = "listed"
        /\ Careful => \E u \in Uuids : u = copy[r].of /\ snap[u].name = FromOf[r]

\* No LUN is mapped to a target, where a node could use it, before its copy from
\* the snapshot is complete.
CopiedFirst ==
    [][\A r \in Copies : copy[r].st = "cloning" => copy'[r].st # "listed"]_vars

\* The retries of the cluster end: again and again every wanted snapshot is
\* taken, every copy restored unless its snapshot went first, and every released
\* snapshot deleted.
EventuallySettled ==
    []<>(/\ \A n \in world.names : phase[n] \notin {"wanted", "released"}
         /\ \A r \in world.copies : phase[r] = "wanted" => SourceGone(r))

=============================================================================
