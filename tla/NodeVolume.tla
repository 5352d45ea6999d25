----------------------------- MODULE NodeVolume -----------------------------
(***************************************************************************)
(* One volume on one node: the node service of the driver.                 *)
(*                                                                         *)
(* The kubelet asks the driver to stage the volume (log in to its iSCSI    *)
(* target and mount it on the staging path, or mount the SMB share there), *)
(* to publish it to pods (bind mounts), to grow its file system, and to    *)
(* undo all that.  Each request is a handler of its own; one action is one *)
(* command run on the node (iscsiadm, mount, umount, rmdir) or one call to *)
(* the DSM, so that handlers interleave between any two of them.  The      *)
(* driver remembers nothing: every handler looks at the sessions, at the   *)
(* mount table and at the DSM's listing again.                             *)
(*                                                                         *)
(* Commands fail, the driver's process crashes, the node reboots, and the  *)
(* kubelet may stop waiting for a handler, which runs on.                  *)
(*                                                                         *)
(* An operator whose comment begins with "Mutation" is not part of the     *)
(* model: it is a plausible bug of the operator after it.                  *)
(***************************************************************************)
EXTENDS Integers, Sequences

CONSTANTS
    Worlds,     \* the volumes and environments of the behaviours
    NPortals,   \* the target's portals: the DSM's own one, perhaps its twin's
    Pods,       \* the pods that use the volume on this node
    Calls,      \* the handlers that may run at the same time
    None        \* no pod

FaultKinds == {"GetVolume", "Portals", "SessionList", "Login", "Device", "Mount",
               "Unmount", "Remove", "Logout", "Permission", "Rescan", "Resize",
               "Crash", "Reboot", "Deadline"}

\* A world fixes the volume (iSCSI, by access type "fs" or "block", or "smb"),
\* which commands may fail and which other mishaps may happen in a behaviour;
\* it bounds their number, and the size to which the volume grows.
ASSUME WorldsTyped ==
    Worlds \subseteq [kind : {"fs", "block", "smb"}, faulty : SUBSET FaultKinds,
                     max : Nat, size : Nat \ {0}]
ASSUME PortalsGiven == NPortals \in {1, 2}
ASSUME NoneIsNoPod == None \notin Pods

VARIABLES
    sessions,   \* the portals with an iSCSI session from this node
    staging,    \* is the volume mounted on its staging path?
    dir,        \* dir[p]: does the target path of p exist?
    path,       \* path[p]: what is mounted on it, the topmost last
    permitted,  \* may the SMB user read and write the share?
    size,       \* of the LUN, the node's device and the file system (0: none)
    call,       \* the handlers: program counter, request, local variables
    pod,        \* the pods' lives
    staged,     \* the kubelet's view of the staging path
    published,  \* and of the pods' target paths
    granted,    \* the file system size the kubelet was last told of
    faults,     \* mishaps so far
    world       \* the world of this behaviour, which never changes

nodeVars == <<sessions, staging, dir, path, permitted, size>>
kubeletVars == <<staged, published, granted>>
vars == <<nodeVars, call, pod, kubeletVars, faults>>

-----------------------------------------------------------------------------
(* The node and its handlers.                                              *)

Kind == world.kind
Faulty == world.faulty
MaxFaults == world.max
MaxSize == world.size

Iscsi == Kind # "smb"
Portals == 1 .. NPortals

\* What a mount shows: the volume, or the bare staging directory below it.
Shown == {"vol", "dir"}

\* Is the volume mounted anywhere on the node?
Mounted == staging \/ \E p \in Pods : \E i \in DOMAIN path[p] : path[p][i] = "vol"

IdleCall == [pc |-> "idle", op |-> "none", pod |-> None, size |-> 0,
             live |-> FALSE, next |-> 1, last |-> 1]

CallType ==
    [pc : {"idle", "Permission", "GetVolume", "Session", "Login", "Device",
           "Probe", "Mount", "MkTarget", "Bind", "Look", "UnmountTarget",
           "RemoveTarget", "Unmount", "HasSession", "Logout", "Rescan", "Resize"},
     op : {"none", "stage", "unstage", "publish", "unpublish", "expand"},
     pod : Pods \cup {None},
     size : 0..MaxSize,           \* the size the kubelet asks for
     live : BOOLEAN,              \* the kubelet still waits for the answer
     next : 1..2, last : 1..2]    \* the portals to log in to: next .. last

At(c, p) == call[c].pc = p
Busy(c) == call[c].pc # "idle"
Goto(c, p) == call' = [call EXCEPT ![c].pc = p]
Return(c) == call' = [call EXCEPT ![c] = IdleCall]

Mishap(kind) == kind \in Faulty /\ faults < MaxFaults /\ faults' = faults + 1

\* A command is done, fails without effect, or is done and reported as failed.
Outcomes == {"ok", "lost", "mute"}
Outcome(kind, o) == \/ o = "ok" /\ UNCHANGED faults
                    \/ o \in {"lost", "mute"} /\ Mishap(kind)

\* An error status: the kubelet keeps wanting what it wanted.
Refuse(c) == Return(c) /\ UNCHANGED kubeletVars

\* Success, taken by the kubelet if it still waits.
Done(c) ==
    LET op == call[c].op
        p == call[c].pod
        heard(o) == call[c].live /\ op = o
    IN  /\ Return(c)
        /\ staged' = IF heard("stage") THEN "yes" ELSE IF heard("unstage") THEN "no" ELSE staged
        /\ published' = IF heard("publish") THEN [published EXCEPT ![p] = "yes"]
                        ELSE IF heard("unpublish") THEN [published EXCEPT ![p] = "no"]
                        ELSE published
        /\ granted' = IF heard("expand") THEN call[c].size ELSE granted

-----------------------------------------------------------------------------
(* loginTarget: find the volume and its portals, and make sure that there  *)
(* is a session and a device for each of them.                             *)

\* The volume is looked for at the DSMs.  A listing that fails looks like a
\* volume that does not exist: an error, except for logoutTarget, which returns
\* silently.  A share needs no expansion on the node.  getPortals adds the other controller's portal if it can find it.
GetVolume(c) ==
    LET found == CASE call[c].op = "unstage" -> "HasSession"
                   [] call[c].op = "expand" -> "Rescan"
                   [] OTHER -> "Session"
    IN  /\ At(c, "GetVolume")
        /\ \/ /\ call[c].op = "expand" /\ ~Iscsi
              /\ Done(c) /\ UNCHANGED faults
           \/ /\ call[c].op = "expand" => Iscsi
              /\ call' = [call EXCEPT ![c].pc = found, ![c].next = 1, ![c].last = NPortals]
              /\ UNCHANGED <<kubeletVars, faults>>
           \/ /\ found = "Session" /\ Mishap("Portals")
              /\ call' = [call EXCEPT ![c].pc = found, ![c].next = 1, ![c].last = 1]
              /\ UNCHANGED kubeletVars
           \/ /\ Mishap("GetVolume")
              /\ IF call[c].op = "unstage" THEN Done(c) ELSE Refuse(c)
        /\ UNCHANGED <<nodeVars, pod>>

\* Mutation: logs in without looking for a session.
SessionNever(c) ==
    /\ At(c, "Session") /\ Goto(c, "Login")
    /\ UNCHANGED <<nodeVars, pod, kubeletVars, faults>>

\* hasSession: a failing "iscsiadm -m session" looks like "no session".
Session(c) ==
    /\ At(c, "Session")
    /\ \/ Goto(c, IF call[c].next \in sessions THEN "Device" ELSE "Login")
          /\ UNCHANGED faults
       \/ Goto(c, "Login") /\ Mishap("SessionList")
    /\ UNCHANGED <<nodeVars, pod, kubeletVars>>

\* Discovery and login; iscsiadm refuses to log in twice.  The first session
\* brings the device, with the size that the LUN has now.
Login(c) ==
    LET p == call[c].next
    IN  /\ At(c, "Login")
        /\ \E o \in Outcomes :
             /\ Outcome("Login", o)
             /\ IF o = "lost" \/ p \in sessions
                  THEN UNCHANGED <<sessions, size>>
                  ELSE /\ sessions' = sessions \cup {p}
                       /\ size' = IF sessions = {} THEN [size EXCEPT !.dev = size.lun] ELSE size
             /\ IF o = "ok" /\ p \notin sessions
                  THEN Goto(c, "Device") /\ UNCHANGED kubeletVars
                  ELSE Refuse(c)
        /\ UNCHANGED <<staging, dir, path, permitted, pod>>

\* waitForDevicePathToExist, then the next portal or, with all of them,
\* getVolumeMountPath and what the handler wanted the device for.
Device(c) ==
    LET last == call[c].next = call[c].last
        then == IF call[c].op = "stage" THEN "Probe" ELSE "Bind"
    IN  /\ At(c, "Device")
        /\ \/ /\ call[c].next \in sessions
              /\ call' = [call EXCEPT ![c].pc = IF last THEN then ELSE "Session",
                                      ![c].next = IF last THEN @ ELSE @ + 1]
              /\ UNCHANGED <<kubeletVars, faults>>
           \/ call[c].next \notin sessions /\ Refuse(c) /\ UNCHANGED faults
           \/ Mishap("Device") /\ Refuse(c)
        /\ UNCHANGED <<nodeVars, pod>>

-----------------------------------------------------------------------------
(* NodeStageVolume.  A raw block volume is staged by doing nothing.        *)

\* setSMBVolumePermission
Permission(c) ==
    /\ At(c, "Permission")
    /\ \E o \in Outcomes :
         /\ Outcome("Permission", o)
         /\ permitted' = (permitted \/ o # "lost")
         /\ IF o = "ok" THEN Goto(c, "Probe") /\ UNCHANGED kubeletVars ELSE Refuse(c)
    /\ UNCHANGED <<sessions, staging, dir, path, size, pod>>

\* A staging path that is a mount point already is a success.
Probe(c) ==
    /\ At(c, "Probe")
    /\ IF staging THEN Done(c) ELSE Goto(c, "Mount") /\ UNCHANGED kubeletVars
    /\ UNCHANGED <<nodeVars, pod, faults>>

\* The mount fails if the volume is there already, or cannot be reached; the
\* mount of a share is tried again for some seconds.  FormatAndMount makes a
\* file system of the device's size if there is none.
Mount(c) ==
    LET able == ~staging /\ (IF Iscsi THEN sessions # {} ELSE permitted)
    IN  /\ At(c, "Mount")
        /\ \E o \in {"ok", "lost"} :
             /\ Outcome("Mount", o)
             /\ staging' = (staging \/ (o = "ok" /\ able))
             /\ size' = IF o = "ok" /\ able /\ Iscsi /\ size.fs = 0
                          THEN [size EXCEPT !.fs = size.dev] ELSE size
             /\ \/ o = "ok" /\ able /\ Done(c)
                \/ ~(o = "ok" /\ able) /\ Refuse(c)
                \/ o = "lost" /\ ~Iscsi /\ UNCHANGED <<call, kubeletVars>>
        /\ UNCHANGED <<sessions, dir, path, permitted, pod>>

-----------------------------------------------------------------------------
(* NodePublishVolume.                                                      *)

\* Mutation: a target path that exists is taken for mounted.
MkTargetExists(c) ==
    LET p == call[c].pod
    IN  /\ At(c, "MkTarget")
        /\ IF dir[p]
             THEN Done(c) /\ UNCHANGED dir
             ELSE /\ dir' = [dir EXCEPT ![p] = TRUE]
                  /\ Goto(c, IF Iscsi THEN "GetVolume" ELSE "Bind")
                  /\ UNCHANGED kubeletVars
        /\ UNCHANGED <<sessions, staging, path, permitted, size, pod, faults>>

\* createTargetMountPath; a target path that is a mount point is a success.
MkTarget(c) ==
    LET p == call[c].pod
    IN  /\ At(c, "MkTarget")
        /\ IF path[p] # <<>>
             THEN Done(c) /\ UNCHANGED dir
             ELSE /\ dir' = [dir EXCEPT ![p] = TRUE]
                  /\ Goto(c, IF Iscsi THEN "GetVolume" ELSE "Bind")
                  /\ UNCHANGED kubeletVars
        /\ UNCHANGED <<sessions, staging, path, permitted, size, pod, faults>>

\* The device of a block volume, else whatever the staging path shows: bind
\* mounts stack, and nothing asks whether the volume is mounted there.
Bind(c) ==
    LET p == call[c].pod
        able == dir[p] /\ (Kind = "block" => sessions # {})
        shown == IF Kind = "block" \/ staging THEN "vol" ELSE "dir"
    IN  /\ At(c, "Bind")
        /\ \E o \in {"ok", "lost"} :
             /\ Outcome("Mount", o)
             /\ IF o = "ok" /\ able
                  THEN path' = [path EXCEPT ![p] = Append(@, shown)] /\ Done(c)
                  ELSE Refuse(c) /\ UNCHANGED path
        /\ UNCHANGED <<sessions, staging, dir, permitted, size, pod>>

-----------------------------------------------------------------------------
(* NodeUnpublishVolume.                                                    *)

\* Nothing is left to do if the path is absent, or not a mount point.
Look(c) ==
    LET p == call[c].pod
    IN  /\ At(c, "Look")
        /\ IF ~dir[p] \/ path[p] = <<>>
             THEN Done(c)
             ELSE Goto(c, "UnmountTarget") /\ UNCHANGED kubeletVars
        /\ UNCHANGED <<nodeVars, pod, faults>>

\* Mutation: a failing umount is taken to mean that nothing is mounted.
UnmountTargetDone(c) ==
    LET p == call[c].pod
        able == path[p] # <<>>
    IN  /\ At(c, "UnmountTarget")
        /\ \E o \in {"ok", "lost"} :
             /\ Outcome("Unmount", o)
             /\ path' = IF o = "ok" /\ able
                          THEN [path EXCEPT ![p] = SubSeq(@, 1, Len(@) - 1)] ELSE path
             /\ IF o = "ok" /\ able
                  THEN Goto(c, "RemoveTarget") /\ UNCHANGED kubeletVars
                  ELSE Done(c)
        /\ UNCHANGED <<sessions, staging, dir, permitted, size, pod>>

\* umount takes the topmost mount away.
UnmountTarget(c) ==
    LET p == call[c].pod
        able == path[p] # <<>>
    IN  /\ At(c, "UnmountTarget")
        /\ \E o \in {"ok", "lost"} :
             /\ Outcome("Unmount", o)
             /\ path' = IF o = "ok" /\ able
                          THEN [path EXCEPT ![p] = SubSeq(@, 1, Len(@) - 1)] ELSE path
             /\ IF o = "ok" /\ able
                  THEN Goto(c, "RemoveTarget") /\ UNCHANGED kubeletVars
                  ELSE Refuse(c)
        /\ UNCHANGED <<sessions, staging, dir, permitted, size, pod>>

\* Mutation: an error of os.Remove is ignored.
RemoveTargetTried(c) ==
    LET p == call[c].pod
    IN  /\ At(c, "RemoveTarget")
        /\ dir' = [dir EXCEPT ![p] = @ /\ path[p] # <<>>]
        /\ Done(c)
        /\ UNCHANGED <<sessions, staging, path, permitted, size, pod, faults>>

\* The path cannot be removed while something else is mounted on it.
RemoveTarget(c) ==
    LET p == call[c].pod
        able == dir[p] /\ path[p] = <<>>
    IN  /\ At(c, "RemoveTarget")
        /\ \E o \in {"ok", "lost"} :
             /\ Outcome("Remove", o)
             /\ dir' = [dir EXCEPT ![p] = @ /\ ~(o = "ok" /\ able)]
             /\ IF o = "ok" /\ able THEN Done(c) ELSE Refuse(c)
        /\ UNCHANGED <<sessions, staging, path, permitted, size, pod>>

-----------------------------------------------------------------------------
(* NodeUnstageVolume.                                                      *)

\* Mutation: a staging path that is no mount point leaves nothing to do.
UnmountOnly(c) ==
    /\ At(c, "Unmount")
    /\ IF staging
         THEN staging' = FALSE /\ Goto(c, "GetVolume") /\ UNCHANGED kubeletVars
         ELSE Done(c) /\ UNCHANGED staging
    /\ UNCHANGED <<sessions, dir, path, permitted, size, pod, faults>>

\* What is mounted on the staging path is unmounted, then the target logged out.
Unmount(c) ==
    /\ At(c, "Unmount")
    /\ \E o \in {"ok", "lost"} :
         /\ Outcome("Unmount", o)
         /\ staging' = (staging /\ o = "lost")
         /\ IF o = "ok" \/ ~staging
              THEN Goto(c, "GetVolume") /\ UNCHANGED kubeletVars
              ELSE Refuse(c)
    /\ UNCHANGED <<sessions, dir, path, permitted, size, pod>>

\* No session, nothing to log out.  A share has none in any case.
HasSession(c) ==
    /\ At(c, "HasSession")
    /\ \/ /\ Iscsi /\ sessions # {}
          /\ Goto(c, "Logout") /\ UNCHANGED <<kubeletVars, faults>>
       \/ ~(Iscsi /\ sessions # {}) /\ Done(c) /\ UNCHANGED faults
       \/ Iscsi /\ Mishap("SessionList") /\ Done(c)
    /\ UNCHANGED <<nodeVars, pod>>

\* All sessions of the target are closed; a failure is only logged.
Logout(c) ==
    /\ At(c, "Logout")
    /\ \E o \in Outcomes :
         /\ Outcome("Logout", o)
         /\ sessions' = IF o = "lost" THEN sessions ELSE {}
    /\ Done(c)
    /\ UNCHANGED <<staging, dir, path, permitted, size, pod>>

-----------------------------------------------------------------------------
(* NodeExpandVolume.                                                       *)

\* Mutation: an error of the rescan is ignored.
RescanTried(c) ==
    /\ At(c, "Rescan")
    /\ \E o \in Outcomes :
         /\ Outcome("Rescan", o)
         /\ size' = IF o = "lost" THEN size ELSE [size EXCEPT !.dev = size.lun]
    /\ Goto(c, "Resize")
    /\ UNCHANGED <<sessions, staging, dir, path, permitted, pod, kubeletVars>>

\* Without a session, or if iscsiadm fails, the device keeps its size.
Rescan(c) ==
    /\ At(c, "Rescan")
    /\ \E o \in Outcomes :
         /\ Outcome("Rescan", o)
         /\ size' = IF o = "lost" \/ sessions = {} THEN size
                    ELSE [size EXCEPT !.dev = size.lun]
         /\ IF o = "ok" /\ sessions # {}
              THEN Goto(c, "Resize") /\ UNCHANGED kubeletVars
              ELSE Refuse(c)
    /\ UNCHANGED <<sessions, staging, dir, path, permitted, pod>>

\* The multipath device, if there is one, is resized, and a file system grows
\* to the size of the device; a block volume has none.
Resize(c) ==
    /\ At(c, "Resize")
    /\ \E o \in Outcomes :
         /\ Outcome("Resize", o)
         /\ size' = IF o = "lost" \/ sessions = {} \/ Kind = "block" THEN size
                    ELSE [size EXCEPT !.fs = size.dev]
         /\ IF o = "ok" /\ sessions # {} THEN Done(c) ELSE Refuse(c)
    /\ UNCHANGED <<sessions, staging, dir, path, permitted, pod>>

\* One step of a handler.
Step(c) == \/ GetVolume(c) \/ Session(c) \/ Login(c) \/ Device(c)
           \/ Permission(c) \/ Probe(c) \/ Mount(c)
           \/ MkTarget(c) \/ Bind(c)
           \/ Look(c) \/ UnmountTarget(c) \/ RemoveTarget(c)
           \/ Unmount(c) \/ HasSession(c) \/ Logout(c)
           \/ Rescan(c) \/ Resize(c)

-----------------------------------------------------------------------------
(* The kubelet: it stages a volume before it publishes it, unstages it     *)
(* when no pod holds it, waits for one request of the volume at a time     *)
(* (several NodeUnpublishVolume of different pods excepted), and repeats a *)
(* request until it succeeds.                                              *)

Live(c) == Busy(c) /\ call[c].live

Request(c, op, p, pc, n) ==
    /\ ~Busy(c)
    /\ call' = [call EXCEPT ![c] = [IdleCall EXCEPT !.pc = pc, !.op = op,
                                    !.pod = p, !.size = n, !.live = TRUE]]

Quiet == \A c \in Calls : ~Live(c)

\* A block volume's NodeStageVolume returns before it does anything.
StartStage(c) ==
    /\ Quiet /\ staged # "yes" /\ \E p \in Pods : pod[p] = "wanted"
    /\ IF Kind = "block"
         THEN ~Busy(c) /\ staged' = "yes" /\ UNCHANGED call
         ELSE /\ staged' = "maybe"
              /\ Request(c, "stage", None, IF Iscsi THEN "GetVolume" ELSE "Permission", 0)
    /\ UNCHANGED <<nodeVars, pod, published, granted, faults>>

StartPublish(c, p) ==
    /\ Quiet /\ staged = "yes" /\ pod[p] = "wanted" /\ published[p] # "yes"
    /\ published' = [published EXCEPT ![p] = "maybe"]
    /\ Request(c, "publish", p, "MkTarget", 0)
    /\ UNCHANGED <<nodeVars, pod, staged, granted, faults>>

StartUnpublish(c, p) ==
    /\ pod[p] = "removed" /\ published[p] # "no"
    /\ \A d \in Calls : Live(d) => call[d].op = "unpublish" /\ call[d].pod # p
    /\ published' = [published EXCEPT ![p] = "maybe"]
    /\ Request(c, "unpublish", p, "Look", 0)
    /\ UNCHANGED <<nodeVars, pod, staged, granted, faults>>

StartUnstage(c) ==
    /\ Quiet /\ staged # "no"
    /\ \A p \in Pods : pod[p] # "wanted" /\ published[p] = "no"
    /\ staged' = "maybe"
    /\ Request(c, "unstage", None, "Unmount", 0)
    /\ UNCHANGED <<nodeVars, pod, published, granted, faults>>

StartExpand(c) ==
    /\ Quiet /\ staged = "yes" /\ 1 < size.lun /\ granted < size.lun
    /\ \E p \in Pods : published[p] = "yes"
    /\ Request(c, "expand", None, "GetVolume", size.lun)
    /\ UNCHANGED <<nodeVars, pod, kubeletVars, faults>>

Schedule(p) ==
    /\ pod[p] = "new" /\ pod' = [pod EXCEPT ![p] = "wanted"]
    /\ UNCHANGED <<nodeVars, call, kubeletVars, faults>>

Remove(p) ==
    /\ pod[p] = "wanted" /\ pod' = [pod EXCEPT ![p] = "removed"]
    /\ UNCHANGED <<nodeVars, call, kubeletVars, faults>>

\* The controller service grows the LUN.
Grow ==
    /\ size.lun < MaxSize /\ size' = [size EXCEPT !.lun = @ + 1]
    /\ UNCHANGED <<sessions, staging, dir, path, permitted, call, pod, kubeletVars, faults>>

\* The kubelet gives up waiting; the handler runs on.
Deadline(c) ==
    /\ Live(c) /\ Mishap("Deadline")
    /\ call' = [call EXCEPT ![c].live = FALSE]
    /\ UNCHANGED <<nodeVars, pod, kubeletVars>>

-----------------------------------------------------------------------------
(* The driver's process and the node.                                      *)

\* Sessions and mounts belong to the node and outlive the process.
Crash ==
    /\ Mishap("Crash")
    /\ call' = [c \in Calls |-> IdleCall]
    /\ UNCHANGED <<nodeVars, pod, kubeletVars>>

\* Directories outlive a reboot; node.startup = manual: no session comes back.
\* What the kubelet finds on its disk it has to make sure of.
Reboot ==
    /\ Mishap("Reboot")
    /\ sessions' = {} /\ staging' = FALSE
    /\ path' = [p \in Pods |-> <<>>]
    /\ call' = [c \in Calls |-> IdleCall]
    /\ staged' = IF staged = "no" THEN "no" ELSE "maybe"
    /\ published' = [p \in Pods |-> IF published[p] = "no" THEN "no" ELSE "maybe"]
    /\ UNCHANGED <<dir, permitted, size, pod, granted>>

\* All pods are gone and the volume has left the node.
Finished ==
    /\ \A p \in Pods : pod[p] = "removed" /\ published[p] = "no"
    /\ staged = "no" /\ \A c \in Calls : ~Busy(c)
    /\ UNCHANGED vars

-----------------------------------------------------------------------------
Init ==
    /\ sessions = {} /\ staging = FALSE /\ permitted = FALSE
    /\ dir = [p \in Pods |-> FALSE]
    /\ path = [p \in Pods |-> <<>>]
    /\ size = [lun |-> 1, dev |-> 1, fs |-> 0]
    /\ call = [c \in Calls |-> IdleCall]
    /\ pod = [p \in Pods |-> "new"]
    /\ staged = "no"
    /\ published = [p \in Pods |-> "no"]
    /\ granted = 0
    /\ faults = 0
    /\ world \in Worlds

Next ==
    \/ \E c \in Calls : Step(c)
    \/ \E c \in Calls : StartStage(c) \/ StartUnstage(c) \/ StartExpand(c)
    \/ \E c \in Calls, p \in Pods : StartPublish(c, p) \/ StartUnpublish(c, p)
    \/ \E p \in Pods : Schedule(p) \/ Remove(p)
    \/ Grow
    \/ \E c \in Calls : Deadline(c)
    \/ Crash \/ Reboot
    \/ Finished

Spec == Init /\ [][Next /\ UNCHANGED world]_<<vars, world>>

(* A running handler is scheduled, and the kubelet's reconciler comes back *)
(* to what it still wants of the volume.                                   *)
Fairness ==
    /\ \A c \in Calls : WF_vars(Step(c))
    /\ SF_vars(\E c \in Calls : StartStage(c))
    /\ SF_vars(\E c \in Calls : StartUnstage(c))
    /\ \A p \in Pods : /\ SF_vars(\E c \in Calls : StartPublish(c, p))
                       /\ SF_vars(\E c \in Calls : StartUnpublish(c, p))

FairSpec == Spec /\ Fairness

-----------------------------------------------------------------------------
(* Properties.                                                             *)

\* The shape of the state: every variable has its type.
TypeOK ==
    /\ sessions \subseteq Portals
    /\ staging \in BOOLEAN /\ permitted \in BOOLEAN
    /\ dir \in [Pods -> BOOLEAN]
    /\ path \in [Pods -> Seq(Shown)]
    /\ size \in [lun : 1..MaxSize, dev : 1..MaxSize, fs : 0..MaxSize]
    /\ call \in [Calls -> CallType]
    /\ pod \in [Pods -> {"new", "wanted", "removed"}]
    /\ staged \in {"no", "maybe", "yes"}
    /\ published \in [Pods -> {"no", "maybe", "yes"}]
    /\ granted \in 0..MaxSize
    /\ faults \in 0..MaxFaults

\* The kubelet waits for every answer.
Patient == "Deadline" \notin Faulty

\* NodeUnstageVolume finds the volume and its sessions, and iscsiadm logs out.
LogoutsWork == Faulty \cap {"GetVolume", "SessionList", "Logout"} = {}

\* A pod whose NodePublishVolume was reported sees the volume on its path, not
\* the bare directory under the staging path, and the volume has a session
\* with its DSM: whatever failed, crashed or rebooted since it was staged, as long
\* as the kubelet waits for its answers.
PublishedServed ==
    Patient => \A p \in Pods : published[p] = "yes" =>
        /\ path[p] # <<>> /\ path[p][Len(path[p])] = "vol"
        /\ Iscsi => sessions # {}

\* The sessions of a target are never closed under a mount of its volume: not
\* by unstaging with pods still bound, nor by unstaging half-way, as long as the
\* kubelet waits for its answers.
MountsBacked == Patient /\ Iscsi /\ Mounted => sessions # {}

\* When NodeUnstageVolume reported success neither a mount of the volume nor a
\* session with its target is left on the node, also when an earlier try got
\* no further than the unmount.  Failures that logoutTarget ignores are excepted.
UnstageLeavesNothing ==
    Patient /\ LogoutsWork => (staged = "no" => ~Mounted /\ sessions = {})

\* NodeUnpublishVolume reports success only when nothing is mounted on the
\* pod's path any more, even if late answers made several binds stack there.
UnpublishHonest ==
    [][\A p \in Pods : published[p] # "no" /\ published'[p] = "no" =>
        path'[p] = <<>>]_vars

\* The file system, or the device of a block volume, has the size that
\* NodeExpandVolume reported, although the node learns the LUN's size only from
\* a rescan or a new login; a late handler or a reboot does not undo it.
ExpandHonest ==
    Iscsi => granted <= (IF Kind = "block" THEN size.dev ELSE size.fs)

\* The reconciler's retries end, whatever is left of the tries before: again and
\* again every wanted pod has the volume and, when all pods have been removed,
\* the volume has left the node.
EventuallySettled ==
    []<>(/\ \A p \in Pods : pod[p] = "wanted" => published[p] = "yes"
         /\ (\A p \in Pods : pod[p] = "removed") => staged = "no")

=============================================================================
