---------------------------- MODULE IscsiVolumes ----------------------------
(***************************************************************************)
(* The life of iSCSI volumes under the Synology CSI driver.                *)
(*                                                                         *)
(* A cluster asks the controller service to create, expand and delete      *)
(* volumes; each request runs as a handler of its own, a sequence of       *)
(* web-API calls to the DSMs (the storage servers).  One action is one     *)
(* web-API call and the driver code that runs when it returns, so that     *)
(* every interleaving of handlers between two calls is explored.  Nothing  *)
(* is kept in the driver between requests: what exists is only known from  *)
(* listing the DSMs again, target by target and LUN by LUN.                *)
(*                                                                         *)
(* Any web-API call may fail: its effect then either happened (the reply   *)
(* was lost) or did not.  The driver may crash and the cluster may give up *)
(* waiting for a handler, which keeps running (no handler looks at ctx).   *)
(*                                                                         *)
(* An operator whose comment begins with "Mutation" is not part of the     *)
(* model: it is a plausible bug of the operator after it, put in its place *)
(* to see that a property notices.                                         *)
(***************************************************************************)
EXTENDS Integers, FiniteSets

CONSTANTS
    Dsms,       \* the storage servers of the client-info file
    Names,      \* the volume names the cluster asks for
    Uuids,      \* LUN uuids; a DSM never gives the same one twice
    Tids,       \* target ids; a DSM never gives the same one twice
    Calls,      \* the handlers that may run at the same time
    Sizes,      \* the capacities asked for
    None,       \* no name, server, LUN or target
    Request,    \* Request[n]: the CreateVolume request for n
    Faulty,     \* which calls may fail, and which other mishaps may happen
    MaxFaults   \* bound on the mishaps of one behaviour

\* A web-API call that may fail, or a mishap that is not a call.
FaultKinds == {"TargetList", "LunLookup", "Location", "LunCreate", "LunClone",
               "LunGet", "TargetCreate", "TargetGet", "TargetSet",
               "LunMapTarget", "LunDelete", "TargetDelete", "LunUpdate",
               "Login", "Crash", "Deadline"}

RequestType == [size : Sizes, source : Names \cup {None},
                multiSession : BOOLEAN, dsm : Dsms \cup {None}]

ASSUME NoneIsNone == None \notin Dsms \cup Names \cup Uuids \cup Tids
ASSUME SizesAreNat == Sizes \subseteq Nat \ {0}
ASSUME RequestsTyped == Request \in [Names -> RequestType]
ASSUME FaultyTyped == Faulty \subseteq FaultKinds
ASSUME MaxFaultsNat == MaxFaults \in Nat

VARIABLES
    lun,        \* the LUNs of the DSMs
    target,     \* the iSCSI targets of the DSMs and the LUNs mapped to them
    dsms,       \* the DSMs the running driver is logged in to
    call,       \* the handlers: program counter, request, local variables
    phase,      \* the cluster's view of each name
    volumeId,   \* the id the cluster was given for each name
    capacity,   \* the capacity the cluster was last promised for each name
    faults      \* mishaps so far

dsmVars == <<lun, target>>
clusterVars == <<phase, volumeId, capacity>>
vars == <<lun, target, dsms, call, phase, volumeId, capacity, faults>>

-----------------------------------------------------------------------------
(* What the DSMs hold.                                                     *)

LunType == [st : {"unborn", "cloning", "ready", "deleted"},
            dsm : Dsms \cup {None}, name : Names \cup {None}, size : Nat]

TargetType == [st : {"unborn", "live", "deleted"}, dsm : Dsms \cup {None},
               name : Names \cup {None}, multiSession : BOOLEAN,
               luns : SUBSET Uuids]

LiveLun(u) == lun[u].st \in {"cloning", "ready"}
LiveTarget(t) == target[t].st = "live"

\* LUN and target names are unique on a DSM.
LunsNamed(d, n) == {u \in Uuids : LiveLun(u) /\ lun[u].dsm = d /\ lun[u].name = n}
TargetsNamed(d, n) ==
    {t \in Tids : LiveTarget(t) /\ target[t].dsm = d /\ target[t].name = n}

UnbornLuns == {u \in Uuids : lun[u].st = "unborn"}
UnbornTargets == {t \in Tids : target[t].st = "unborn"}

\* The targets a LUN is mapped to.
TargetsOf(u) == {t \in Tids : LiveTarget(t) /\ u \in target[t].luns}
Mapped(u) == TargetsOf(u) # {}

-----------------------------------------------------------------------------
(* Handlers.                                                               *)

IdleCall == [pc |-> "idle", op |-> "none", name |-> None, id |-> None,
             size |-> 0, live |-> FALSE, byName |-> FALSE, todo |-> {},
             refs |-> {}, host |-> None, lun |-> None, lunSize |-> 0,
             target |-> None, only |-> FALSE]

\* A mapping seen in a TargetList reply; only: it was the target's only one.
RefType == [lun : Uuids, target : Tids, only : BOOLEAN]

CallType ==
    [pc : {"idle", "List", "Pick", "LunCreate", "LunClone", "WaitClone",
           "LunGet", "TargetCreate", "TargetGet", "TargetSet", "LunMapTarget",
           "LunDelete", "LunCheck", "TargetDelete", "TargetCheck",
           "LunUpdate"},
     op : {"none", "create", "delete", "expand"},
     name : Names \cup {None},
     id : Uuids \cup {None},      \* the volume, or the source volume, asked for
     size : Nat,                  \* the size asked for
     live : BOOLEAN,              \* the cluster still waits for the answer
     byName : BOOLEAN,            \* listing for a name, not for an id
     todo : SUBSET Dsms,          \* servers not yet visited by the loop
     refs : SUBSET RefType,       \* mappings still to look up
     host : Dsms \cup {None},
     lun : Uuids \cup {None}, lunSize : Nat,
     target : Tids \cup {None}, only : BOOLEAN]

At(c, p) == call[c].pc = p
Busy(c) == call[c].pc # "idle"
Clones(c) == Request[call[c].name].source # None

Goto(c, p) == call' = [call EXCEPT ![c].pc = p]

-----------------------------------------------------------------------------
(* Mishaps and the outcome of one web-API call: "ok" (answered, whatever   *)
(* the answer), "lost" (an error, nothing was done) or "mute" (done, but   *)
(* the caller sees an error).                                              *)

Mishap(kind) == kind \in Faulty /\ faults < MaxFaults /\ faults' = faults + 1

Outcome(kind, o) == \/ o = "ok" /\ UNCHANGED faults
                    \/ o \in {"lost", "mute"} /\ Mishap(kind)

Outcomes == {"ok", "lost", "mute"}
Answered == {"ok", "lost"}        \* for a read, a lost reply is a lost request

-----------------------------------------------------------------------------
(* How a handler ends.                                                     *)

Return(c) == call' = [call EXCEPT ![c] = IdleCall]

\* An error status: the cluster keeps wanting what it wanted.
Refuse(c) == Return(c) /\ UNCHANGED clusterVars

\* The cluster takes an answer only from a call it still waits for.
Answers(c, p) == call[c].live /\ phase[call[c].name] = p

CreateDone(c, u) ==
    /\ Return(c)
    /\ IF Answers(c, "wanted")
         THEN /\ phase' = [phase EXCEPT ![call[c].name] = "bound"]
              /\ volumeId' = [volumeId EXCEPT ![call[c].name] = u]
         ELSE UNCHANGED <<phase, volumeId>>
    /\ UNCHANGED capacity

\* The size test that ends CreateVolume, for found and for made volumes.
CreateReply(c, u, size) ==
    IF size = call[c].size THEN CreateDone(c, u) ELSE Refuse(c)

DeleteDone(c) ==
    /\ Return(c)
    /\ IF Answers(c, "released")
         THEN phase' = [phase EXCEPT ![call[c].name] = "deleted"]
         ELSE UNCHANGED phase
    /\ UNCHANGED <<volumeId, capacity>>

ExpandDone(c) ==
    /\ Return(c)
    /\ IF Answers(c, "bound")
         THEN capacity' = [capacity EXCEPT ![call[c].name] = call[c].size]
         ELSE UNCHANGED capacity
    /\ UNCHANGED <<phase, volumeId>>

\* A failed step of a creation: the loop over the DSMs goes on, a clone gives up.
CreateStepFails(c) ==
    IF Clones(c) THEN Refuse(c) ELSE Goto(c, "Pick") /\ UNCHANGED clusterVars

-----------------------------------------------------------------------------
(* GetVolume and GetVolumeByName: the listing every request starts with.   *)
(* A server whose TargetList fails is skipped, a LUN whose LunGet fails is *)
(* skipped; the caller cannot tell either from "no such volume".           *)

RefsOn(d) == {r \in RefType : /\ LiveTarget(r.target)
                              /\ target[r.target].dsm = d
                              /\ r.lun \in target[r.target].luns
                              /\ r.only = (target[r.target].luns = {r.lun})}

\* Mutation: GetVolume returns the first volume listed.
MatchesFirst(c, u) == ~call[c].byName \/ lun[u].name = call[c].name

\* Is this LUN the volume looked for?
Matches(c, u) == IF call[c].byName THEN lun[u].name = call[c].name
                                   ELSE u = call[c].id

\* Mutation: the size is not compared.
NeverTooSmall(c, u) == FALSE

\* The new size is less than the one just read.
WouldShrink(c, u) == lun[u].size > call[c].size

\* The request goes on with the volume found through mapping r.
FoundVolume(c, r) ==
    LET u == r.lun
    IN  \/ /\ call[c].byName
           /\ CreateReply(c, u, lun[u].size)
        \/ /\ call[c].op = "create" /\ ~call[c].byName
           /\ IF call[c].size = lun[u].size
                THEN /\ call' = [call EXCEPT ![c].pc = "LunClone", ![c].refs = {},
                                    ![c].todo = {}, ![c].host = lun[u].dsm]
                     /\ UNCHANGED clusterVars
                ELSE Refuse(c)
        \/ /\ call[c].op = "delete"
           /\ call' = [call EXCEPT ![c].pc = "LunDelete", ![c].refs = {},
                          ![c].todo = {}, ![c].lun = u,
                          ![c].target = r.target, ![c].only = r.only]
           /\ UNCHANGED clusterVars
        \/ /\ call[c].op = "expand"
           /\ IF WouldShrink(c, u)
                THEN Refuse(c)
                ELSE /\ call' = [call EXCEPT ![c].pc = "LunUpdate", ![c].refs = {},
                                    ![c].todo = {}, ![c].lun = u]
                     /\ UNCHANGED clusterVars

\* Mutation: a missing dsm parameter is taken for a server.
HostsAsGiven(c) == dsms \cup {Request[call[c].name].dsm}

\* The servers the loop of CreateVolume may use for this request.
HostsFor(c) == {d \in dsms : Request[call[c].name].dsm \in {None, d}}

\* A volume that is not found counts as deleted.
DeleteNothing(c) == call[c].op = "delete" /\ DeleteDone(c)

\* The request goes on without a volume.
NoVolume(c) ==
    \/ /\ call[c].byName /\ ~Clones(c)
       /\ call' = [call EXCEPT ![c].pc = "Pick", ![c].byName = FALSE,
                               ![c].todo = HostsFor(c)]
       /\ UNCHANGED clusterVars
    \/ /\ call[c].byName /\ Clones(c)
       /\ call' = [call EXCEPT ![c].byName = FALSE, ![c].todo = dsms]
       /\ UNCHANGED clusterVars
    \/ DeleteNothing(c)
    \/ call[c].op \in {"create", "expand"} /\ ~call[c].byName /\ Refuse(c)

\* Mutation: the listing ends with the first server.
TargetListFirst(c) ==
    /\ At(c, "List") /\ call[c].refs = {}
    /\ \E d \in call[c].todo :
         call' = [call EXCEPT ![c].todo = {}, ![c].refs = RefsOn(d)]
    /\ UNCHANGED <<lun, target, dsms, phase, volumeId, capacity, faults>>

TargetList(c) ==
    /\ At(c, "List") /\ call[c].refs = {}
    /\ \E d \in call[c].todo, o \in Answered :
         /\ Outcome("TargetList", o)
         /\ call' = [call EXCEPT ![c].todo = @ \ {d},
                                 ![c].refs = IF o = "ok" THEN RefsOn(d) ELSE {}]
    /\ UNCHANGED <<lun, target, dsms, phase, volumeId, capacity>>

LookupLun(c) ==
    /\ At(c, "List")
    /\ \E r \in call[c].refs, o \in Answered :
         /\ Outcome("LunLookup", o)
         /\ IF o = "ok" /\ LiveLun(r.lun) /\ Matches(c, r.lun)
              THEN FoundVolume(c, r)
              ELSE /\ call' = [call EXCEPT ![c].refs = @ \ {r}]
                   /\ UNCHANGED clusterVars
    /\ UNCHANGED <<lun, target, dsms>>

ListEnd(c) ==
    /\ At(c, "List") /\ call[c].refs = {} /\ call[c].todo = {}
    /\ NoVolume(c)
    /\ UNCHANGED <<lun, target, dsms, faults>>

-----------------------------------------------------------------------------
(* CreateVolume.                                                           *)

\* The next server of the loop, if it has a usable location.
Pick(c) ==
    /\ At(c, "Pick")
    /\ \/ \E d \in call[c].todo :
            /\ call' = [call EXCEPT ![c].pc = "LunCreate", ![c].host = d,
                                    ![c].todo = @ \ {d}]
            /\ UNCHANGED <<phase, volumeId, capacity, faults>>
       \/ \E d \in call[c].todo :
            /\ Mishap("Location")
            /\ call' = [call EXCEPT ![c].todo = @ \ {d}]
            /\ UNCHANGED clusterVars
       \/ call[c].todo = {} /\ Refuse(c) /\ UNCHANGED faults
    /\ UNCHANGED <<lun, target, dsms>>

NewLun(u, st, d, n, size) ==
    lun' = [lun EXCEPT ![u] = [st |-> st, dsm |-> d, name |-> n, size |-> size]]

\* Mutation: a LUN that exists already is an error.
LunCreateOnce(c) ==
    LET d == call[c].host
        n == call[c].name
        able == LunsNamed(d, n) = {} /\ UnbornLuns # {}
    IN  /\ At(c, "LunCreate")
        /\ \E o \in Outcomes :
             /\ Outcome("LunCreate", o)
             /\ IF o = "lost" \/ ~able
                  THEN UNCHANGED lun
                  ELSE \E u \in UnbornLuns : NewLun(u, "ready", d, n, call[c].size)
             /\ IF o = "ok" /\ able
                  THEN Goto(c, "LunGet") /\ UNCHANGED clusterVars
                  ELSE CreateStepFails(c)
        /\ UNCHANGED <<target, dsms>>

\* A name already in use is no error; having no LUN left is one.
LunCreate(c) ==
    LET d == call[c].host
        n == call[c].name
        exists == LunsNamed(d, n) # {}
    IN  /\ At(c, "LunCreate")
        /\ \E o \in Outcomes :
             /\ Outcome("LunCreate", o)
             /\ IF o = "lost" \/ exists \/ UnbornLuns = {}
                  THEN UNCHANGED lun
                  ELSE \E u \in UnbornLuns : NewLun(u, "ready", d, n, call[c].size)
             /\ IF o = "ok" /\ (exists \/ UnbornLuns # {})
                  THEN Goto(c, "LunGet") /\ UNCHANGED clusterVars
                  ELSE CreateStepFails(c)
        /\ UNCHANGED <<target, dsms>>

\* The copy is made in the background; meanwhile the new LUN is action-locked.
LunClone(c) ==
    LET d == call[c].host
        n == call[c].name
        source == call[c].id
        exists == LunsNamed(d, n) # {}
        able == LiveLun(source) /\ UnbornLuns # {}
    IN  /\ At(c, "LunClone")
        /\ \E o \in Outcomes :
             /\ Outcome("LunClone", o)
             /\ IF o = "lost" \/ exists \/ ~able
                  THEN UNCHANGED lun
                  ELSE \E u \in UnbornLuns : NewLun(u, "cloning", d, n, lun[source].size)
             /\ IF o = "ok" /\ (exists \/ able)
                  THEN Goto(c, "WaitClone") /\ UNCHANGED clusterVars
                  ELSE Refuse(c)
        /\ UNCHANGED <<target, dsms>>

\* Mutation: after 20 seconds the clone is taken as it is.
WaitCloneAtMost(c) ==
    /\ At(c, "WaitClone")
    /\ LunsNamed(call[c].host, call[c].name) # {}
    /\ Goto(c, "LunGet")
    /\ UNCHANGED <<lun, target, dsms, phase, volumeId, capacity, faults>>

\* waitCloneFinished: polls until unlocked, an error, or 20 seconds have gone.
WaitClone(c) ==
    LET named == LunsNamed(call[c].host, call[c].name)
    IN  /\ At(c, "WaitClone")
        /\ \/ /\ \E u \in named : lun[u].st = "ready"
              /\ Goto(c, "LunGet") /\ UNCHANGED <<phase, volumeId, capacity, faults>>
           \/ /\ \A u \in named : lun[u].st = "cloning"   \* timeout, or LUN gone
              /\ Refuse(c) /\ UNCHANGED faults
           \/ Mishap("LunGet") /\ Refuse(c)
        /\ UNCHANGED <<lun, target, dsms>>

\* The LUN is read again by name, whoever made it.
LunGet(c) ==
    /\ At(c, "LunGet")
    /\ \/ \E u \in LunsNamed(call[c].host, call[c].name) :
            /\ call' = [call EXCEPT ![c].pc = "TargetCreate", ![c].lun = u,
                                    ![c].lunSize = lun[u].size]
            /\ UNCHANGED <<phase, volumeId, capacity, faults>>
       \/ /\ LunsNamed(call[c].host, call[c].name) = {}
          /\ CreateStepFails(c) /\ UNCHANGED faults
       \/ Mishap("LunGet") /\ CreateStepFails(c)
    /\ UNCHANGED <<lun, target, dsms>>

-----------------------------------------------------------------------------
(* createMappingTarget: the target is made, or found, by name, opened to   *)
(* several initiators if the request says so, and the LUN mapped to it.    *)

TargetCreate(c) ==
    LET d == call[c].host
        n == call[c].name
        exists == TargetsNamed(d, n) # {}
    IN  /\ At(c, "TargetCreate")
        /\ \E o \in Outcomes :
             /\ Outcome("TargetCreate", o)
             /\ IF o = "lost" \/ exists \/ UnbornTargets = {}
                  THEN UNCHANGED target
                  ELSE \E t \in UnbornTargets :
                         target' = [target EXCEPT ![t] =
                                      [st |-> "live", dsm |-> d, name |-> n,
                                       multiSession |-> FALSE, luns |-> {}]]
             /\ IF o = "ok" /\ (exists \/ UnbornTargets # {})
                  THEN Goto(c, "TargetGet") /\ UNCHANGED clusterVars
                  ELSE CreateStepFails(c)
        /\ UNCHANGED <<lun, dsms>>

TargetGet(c) ==
    LET named == TargetsNamed(call[c].host, call[c].name)
        next == IF Request[call[c].name].multiSession THEN "TargetSet" ELSE "LunMapTarget"
    IN  /\ At(c, "TargetGet")
        /\ \/ \E t \in named :
                /\ call' = [call EXCEPT ![c].pc = next, ![c].target = t]
                /\ UNCHANGED <<phase, volumeId, capacity, faults>>
           \/ named = {} /\ CreateStepFails(c) /\ UNCHANGED faults
           \/ Mishap("TargetGet") /\ CreateStepFails(c)
        /\ UNCHANGED <<lun, target, dsms>>

\* max_sessions = 0: any number of initiators may log in.
TargetSet(c) ==
    LET t == call[c].target
    IN  /\ At(c, "TargetSet")
        /\ \E o \in Outcomes :
             /\ Outcome("TargetSet", o)
             /\ target' = IF o = "lost" \/ ~LiveTarget(t) THEN target
                          ELSE [target EXCEPT ![t].multiSession = TRUE]
             /\ IF o = "ok" /\ LiveTarget(t)
                  THEN Goto(c, "LunMapTarget") /\ UNCHANGED clusterVars
                  ELSE CreateStepFails(c)
        /\ UNCHANGED <<lun, dsms>>

\* Mutation: an error of LunMapTarget is ignored.
LunMapTargetTried(c) ==
    LET t == call[c].target
        u == call[c].lun
    IN  /\ At(c, "LunMapTarget")
        /\ \E o \in Outcomes :
             /\ Outcome("LunMapTarget", o)
             /\ target' = IF o = "lost" \/ ~LiveTarget(t) \/ ~LiveLun(u) THEN target
                          ELSE [target EXCEPT ![t].luns = @ \cup {u}]
        /\ CreateReply(c, u, call[c].lunSize)
        /\ UNCHANGED <<lun, dsms>>

LunMapTarget(c) ==
    LET t == call[c].target
        u == call[c].lun
        able == LiveTarget(t) /\ LiveLun(u)
    IN  /\ At(c, "LunMapTarget")
        /\ \E o \in Outcomes :
             /\ Outcome("LunMapTarget", o)
             /\ target' = IF o = "lost" \/ ~able THEN target
                          ELSE [target EXCEPT ![t].luns = @ \cup {u}]
             /\ IF o = "ok" /\ able
                  THEN CreateReply(c, u, call[c].lunSize)
                  ELSE CreateStepFails(c)
        /\ UNCHANGED <<lun, dsms>>

-----------------------------------------------------------------------------
(* DeleteVolume: the LUN, then the target if the LUN was its only one when *)
(* it was listed.                                                          *)

\* A deleted LUN disappears from the targets it was mapped to.
Unmap(u) == [t \in Tids |-> [target[t] EXCEPT !.luns = @ \ {u}]]

\* Mutation: an error of LunDelete is taken to mean that there is no such LUN.
LunDeleteTried(c) ==
    LET u == call[c].lun
    IN  /\ At(c, "LunDelete")
        /\ \E o \in Outcomes :
             /\ Outcome("LunDelete", o)
             /\ IF o = "lost" \/ ~LiveLun(u)
                  THEN UNCHANGED dsmVars
                  ELSE lun' = [lun EXCEPT ![u].st = "deleted"] /\ target' = Unmap(u)
        /\ DeleteDone(c)
        /\ UNCHANGED dsms

LunDelete(c) ==
    LET u == call[c].lun
    IN  /\ At(c, "LunDelete")
        /\ \E o \in Outcomes :
             /\ Outcome("LunDelete", o)
             /\ IF o = "lost" \/ ~LiveLun(u)
                  THEN UNCHANGED dsmVars
                  ELSE lun' = [lun EXCEPT ![u].st = "deleted"] /\ target' = Unmap(u)
             /\ IF o = "ok" /\ LiveLun(u)
                  THEN IF call[c].only
                         THEN Goto(c, "TargetDelete") /\ UNCHANGED clusterVars
                         ELSE DeleteDone(c)
                  ELSE Goto(c, "LunCheck") /\ UNCHANGED clusterVars
        /\ UNCHANGED dsms

\* Mutation: any error of LunGet counts as "no such LUN".
LunCheckAnyError(c) ==
    /\ At(c, "LunCheck")
    /\ \/ ~LiveLun(call[c].lun) /\ DeleteDone(c) /\ UNCHANGED faults
       \/ LiveLun(call[c].lun) /\ Refuse(c) /\ UNCHANGED faults
       \/ Mishap("LunGet") /\ DeleteDone(c)
    /\ UNCHANGED <<lun, target, dsms>>

\* Mutation: the target is deleted even if the LUN could not be.
LunCheckGoesOn(c) ==
    /\ At(c, "LunCheck")
    /\ IF LiveLun(call[c].lun)
         THEN Goto(c, "TargetDelete") /\ UNCHANGED clusterVars
         ELSE DeleteDone(c)
    /\ UNCHANGED <<lun, target, dsms, faults>>

\* After a failed LunDelete: done if the DSM says that there is no such LUN.
LunCheck(c) ==
    /\ At(c, "LunCheck")
    /\ \/ ~LiveLun(call[c].lun) /\ DeleteDone(c) /\ UNCHANGED faults
       \/ LiveLun(call[c].lun) /\ Refuse(c) /\ UNCHANGED faults
       \/ Mishap("LunGet") /\ Refuse(c)
    /\ UNCHANGED <<lun, target, dsms>>

TargetDelete(c) ==
    LET t == call[c].target
    IN  /\ At(c, "TargetDelete")
        /\ \E o \in Outcomes :
             /\ Outcome("TargetDelete", o)
             /\ target' = IF o = "lost" \/ ~LiveTarget(t) THEN target
                          ELSE [target EXCEPT ![t].st = "deleted", ![t].luns = {}]
             /\ IF o = "ok" /\ LiveTarget(t)
                  THEN DeleteDone(c)
                  ELSE Goto(c, "TargetCheck") /\ UNCHANGED clusterVars
        /\ UNCHANGED <<lun, dsms>>

\* After a failed TargetDelete: done if TargetGet fails, whatever its error.
TargetCheck(c) ==
    /\ At(c, "TargetCheck")
    /\ \/ LiveTarget(call[c].target) /\ Refuse(c) /\ UNCHANGED faults
       \/ ~LiveTarget(call[c].target) /\ DeleteDone(c) /\ UNCHANGED faults
       \/ Mishap("TargetGet") /\ DeleteDone(c)
    /\ UNCHANGED <<lun, target, dsms>>

-----------------------------------------------------------------------------
(* ControllerExpandVolume: the size test read the LUN at listing time.     *)

\* Mutation: an error of LunUpdate is ignored.
LunUpdateTried(c) ==
    LET u == call[c].lun
    IN  /\ At(c, "LunUpdate")
        /\ \E o \in Outcomes :
             /\ Outcome("LunUpdate", o)
             /\ lun' = IF o = "lost" \/ ~LiveLun(u) THEN lun
                       ELSE [lun EXCEPT ![u].size = call[c].size]
        /\ ExpandDone(c)
        /\ UNCHANGED <<target, dsms>>

LunUpdate(c) ==
    LET u == call[c].lun
    IN  /\ At(c, "LunUpdate")
        /\ \E o \in Outcomes :
             /\ Outcome("LunUpdate", o)
             /\ lun' = IF o = "lost" \/ ~LiveLun(u) THEN lun
                       ELSE [lun EXCEPT ![u].size = call[c].size]
             /\ IF o = "ok" /\ LiveLun(u) THEN ExpandDone(c) ELSE Refuse(c)
        /\ UNCHANGED <<target, dsms>>

\* One step of a handler.
Step(c) == \/ TargetList(c) \/ LookupLun(c) \/ ListEnd(c)
           \/ Pick(c) \/ LunCreate(c) \/ LunClone(c) \/ WaitClone(c) \/ LunGet(c)
           \/ TargetCreate(c) \/ TargetGet(c) \/ TargetSet(c) \/ LunMapTarget(c)
           \/ LunDelete(c) \/ LunCheck(c) \/ TargetDelete(c) \/ TargetCheck(c)
           \/ LunUpdate(c)

-----------------------------------------------------------------------------
(* The cluster: for each name one PersistentVolume, made once, perhaps     *)
(* grown, and deleted once.  It keeps one live call per name at most, and  *)
(* retries a call that failed.                                             *)

LiveCall(n) == \E c \in Calls : Busy(c) /\ call[c].live /\ call[c].name = n

Start(c, op, n, id, size) ==
    /\ ~Busy(c) /\ ~LiveCall(n)
    /\ call' = [call EXCEPT ![c] = [IdleCall EXCEPT
                   !.pc = "List", !.op = op, !.name = n, !.id = id, !.size = size,
                   !.live = TRUE, !.byName = (op = "create"), !.todo = dsms]]
    /\ UNCHANGED <<lun, target, dsms, phase, volumeId, capacity, faults>>

\* A clone is asked for once its source is bound.
StartCreate(c, n) ==
    LET source == Request[n].source
    IN  /\ phase[n] = "wanted"
        /\ source # None => phase[source] = "bound"
        /\ Start(c, "create", n, IF source = None THEN None ELSE volumeId[source],
                 Request[n].size)

StartExpand(c, n) ==
    /\ phase[n] = "bound"
    /\ \E s \in Sizes : s > capacity[n] /\ Start(c, "expand", n, volumeId[n], s)

StartDelete(c, n) ==
    phase[n] = "released" /\ Start(c, "delete", n, volumeId[n], 0)

Release(n) ==
    /\ phase[n] = "bound"
    /\ phase' = [phase EXCEPT ![n] = "released"]
    /\ UNCHANGED <<lun, target, dsms, call, volumeId, capacity, faults>>

\* The caller's deadline passes; the handler runs on.
Deadline(c) ==
    /\ Busy(c) /\ call[c].live /\ Mishap("Deadline")
    /\ call' = [call EXCEPT ![c].live = FALSE]
    /\ UNCHANGED <<lun, target, dsms, phase, volumeId, capacity>>

-----------------------------------------------------------------------------
(* The driver process and the DSMs.                                        *)

\* A server whose login fails at start-up is left out while the process lives.
Logins == {k \in SUBSET Dsms : k = Dsms \/ "Login" \in Faulty}

Restart ==
    /\ Mishap("Crash")
    /\ dsms' \in Logins
    /\ call' = [c \in Calls |-> IdleCall]
    /\ UNCHANGED <<lun, target, phase, volumeId, capacity>>

CloneDone(u) ==
    /\ lun[u].st = "cloning"
    /\ lun' = [lun EXCEPT ![u].st = "ready"]
    /\ UNCHANGED <<target, dsms, call, phase, volumeId, capacity, faults>>

\* A clone whose source was given up is never asked for again.
SourceGone(n) ==
    \E m \in Names : m = Request[n].source /\ phase[m] \in {"released", "deleted"}

\* No volume is left to make or to delete, and no request runs.
Finished ==
    /\ \A n \in Names : phase[n] = "deleted" \/ (phase[n] = "wanted" /\ SourceGone(n))
    /\ \A c \in Calls : ~Busy(c)
    /\ UNCHANGED vars

-----------------------------------------------------------------------------
Init ==
    /\ lun = [u \in Uuids |-> [st |-> "unborn", dsm |-> None, name |-> None, size |-> 0]]
    /\ target = [t \in Tids |-> [st |-> "unborn", dsm |-> None, name |-> None,
                                 multiSession |-> FALSE, luns |-> {}]]
    /\ dsms \in Logins
    /\ call = [c \in Calls |-> IdleCall]
    /\ phase = [n \in Names |-> "wanted"]
    /\ volumeId = [n \in Names |-> None]
    /\ capacity = [n \in Names |-> Request[n].size]
    /\ faults = 0

Next ==
    \/ \E c \in Calls : Step(c)
    \/ \E c \in Calls, n \in Names :
         StartCreate(c, n) \/ StartExpand(c, n) \/ StartDelete(c, n)
    \/ \E n \in Names : Release(n)
    \/ \E c \in Calls : Deadline(c)
    \/ Restart
    \/ \E u \in Uuids : CloneDone(u)
    \/ Finished

Spec == Init /\ [][Next]_vars

(* A running handler is scheduled, a copy ends, and the provisioner's work *)
(* queue comes back to a name it still has work for.                       *)
Fairness ==
    /\ \A c \in Calls : WF_vars(Step(c))
    /\ \A u \in Uuids : WF_vars(CloneDone(u))
    /\ \A n \in Names : /\ SF_vars(\E c \in Calls : StartCreate(c, n))
                        /\ SF_vars(\E c \in Calls : StartDelete(c, n))

FairSpec == Spec /\ Fairness

-----------------------------------------------------------------------------
(* Properties.                                                             *)

\* The shape of the state: every variable has its type.
TypeOK ==
    /\ lun \in [Uuids -> LunType]
    /\ target \in [Tids -> TargetType]
    /\ dsms \subseteq Dsms
    /\ call \in [Calls -> CallType]
    /\ phase \in [Names -> {"wanted", "bound", "released", "deleted"}]
    /\ volumeId \in [Names -> Uuids \cup {None}]
    /\ capacity \in [Names -> Sizes]
    /\ faults \in 0..MaxFaults

\* LUN u can be attached as the volume of n: copied completely, and mapped to
\* a target that lets in as many initiators as were asked for.
Usable(n, u) ==
    /\ lun[u].st = "ready" /\ lun[u].name = n
    /\ \E t \in TargetsOf(u) : Request[n].multiSession => target[t].multiSession

\* A volume that CreateVolume reported stays attachable until the cluster
\* releases it, whatever other handlers, retries, crashes and DSM failures do:
\* no deletion of another volume, no late handler of the same name and no
\* half-done retry takes its LUN, its target or its mapping away.
BoundUsable ==
    \A n \in Names : phase[n] = "bound" =>
        volumeId[n] # None /\ Usable(n, volumeId[n])

\* When DeleteVolume reported success the LUN is gone from its DSM.
DeletedGone ==
    \A n \in Names : phase[n] = "deleted" =>
        volumeId[n] # None /\ ~LiveLun(volumeId[n])

\* No LUN of a volume the cluster wants or has is offered to initiators while it
\* is still being copied: the wait of createVolumeByVolume covers also the LUN a
\* failed, crashed or abandoned try left behind.
MappedReady ==
    \A u \in Uuids : Mapped(u) /\ phase[lun[u].name] \in {"wanted", "bound"} =>
        lun[u].st = "ready"

\* A LUN leaves the targets it is mapped to by being deleted only: TargetDelete
\* never takes a target away that serves a LUN mapped since it was listed.
UnmapDeletes == [][\A u \in Uuids : Mapped(u) /\ LiveLun(u)' => Mapped(u)']_vars

\* No request makes a LUN smaller, although ExpandVolume compares its new size
\* with a size read some web-API calls earlier.
NeverShrinks ==
    [][\A u \in Uuids : LiveLun(u) /\ LiveLun(u)' => lun'[u].size >= lun[u].size]_vars

\* A bound volume has at least the capacity the cluster was promised last.
CapacityKept ==
    \A n \in Names : phase[n] = "bound" => lun[volumeId[n]].size >= capacity[n]

\* After the deletion of a volume was reported no LUN of its name is left, not
\* even one that a failed try made and nobody was told of.
NothingLeaked ==
    \A n \in Names : phase[n] = "deleted" /\ ~LiveCall(n) =>
        \A u \in Uuids : LiveLun(u) => lun[u].name # n

\* CreateVolume is idempotent: no name has two volumes to attach.
OneVolumePerName ==
    \A u, v \in Uuids : Mapped(u) /\ Mapped(v) /\ lun[u].name = lun[v].name => u = v

\* The retries of the cluster end, whatever failed, crashed and abandoned tries
\* left behind: again and again no volume is wanted that is not bound, unless its
\* source was given up first, and none released that is not deleted.
EventuallySettled ==
    []<>(\A n \in Names : /\ phase[n] = "wanted" => SourceGone(n)
                         /\ phase[n] # "released")

\* The volumes that can be attached under their own name.
UsableVolumes == {u \in Uuids : lun[u].name # None /\ Usable(lun[u].name, u)}

Store == INSTANCE VolumeStore WITH usable <- UsableVolumes

\* The driver and its DSMs keep the promise of VolumeStore, as long as the
\* listings by which volumes are found do not fail.
ImplementsStore == Store!Spec

=============================================================================
