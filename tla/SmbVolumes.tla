----------------------------- MODULE SmbVolumes -----------------------------
(***************************************************************************)
(* The life of SMB volumes: shared folders whose quota is the size of the  *)
(* volume.  As for iSCSI volumes each request of the cluster is a handler  *)
(* that lists the DSMs and then calls their web API, one call an action,   *)
(* and any call may fail before or after its effect.  Unlike a LUN a share *)
(* needs nothing mapped, is found, changed and deleted by its name, and    *)
(* has its size in megabytes.                                              *)
(*                                                                         *)
(* An operator whose comment begins with "Mutation" is not part of the     *)
(* model: it is a plausible bug of the operator after it.                  *)
(***************************************************************************)
EXTENDS Integers, FiniteSets

CONSTANTS
    Dsms,       \* the storage servers the driver is logged in to
    Names,      \* the volume names the cluster asks for
    ShareNames, \* names of shared folders, at most 32 characters long
    ShareOf,    \* ShareOf[n]: the share name made from n, cut if too long
    Uuids,      \* share uuids; a DSM never gives the same one twice
    Calls,      \* the handlers that may run at the same time
    Sizes,      \* the capacities asked for, in bytes
    MB,         \* the bytes of a megabyte (a small number)
    None,       \* no name, server or share
    Request,    \* Request[n]: the CreateVolume request for n
    Worlds      \* the environments of the behaviours

FaultKinds == {"ShareList", "Location", "ShareCreate", "ShareClone", "ShareGet",
               "ShareSet", "ShareDelete", "Crash", "Deadline"}

RequestType == [size : Sizes, source : Names \cup {None}, dsm : Dsms \cup {None}]

ASSUME NoneIsNone == None \notin Dsms \cup Names \cup ShareNames \cup Uuids
ASSUME ShareOfTyped == ShareOf \in [Names -> ShareNames]
ASSUME MBPositive == MB \in Nat \ {0}
ASSUME SizesAreNat == Sizes \subseteq Nat \ {0}
ASSUME RequestsTyped == Request \in [Names -> RequestType]

\* A world fixes the DSMs with two controllers, which have no share API, whether
\* a clone comes without its source's quota, the capacities that the users
\* of each volume may wish for, and which calls may fail and which other mishaps may happen; it bounds
\* their number.
ASSUME WorldsTyped ==
    Worlds \subseteq [unified : SUBSET Dsms, quotaLost : BOOLEAN, wishes : [Names -> SUBSET Sizes],
                     faulty : SUBSET FaultKinds, max : Nat]

VARIABLES
    share,      \* the shared folders of the DSMs
    call,       \* the handlers: program counter, request, local variables
    phase,      \* the cluster's view of each name
    volumeId,   \* the id the cluster was given for each name
    capacity,   \* the capacity in bytes it was last promised for each name
    wish,       \* the capacity it last asked for
    faults,     \* mishaps so far
    world       \* the world of this behaviour, which never changes

clusterVars == <<phase, volumeId, capacity>>
vars == <<share, call, clusterVars, wish, faults>>

-----------------------------------------------------------------------------
(* Sizes, shares and handlers.                                             *)

Unified == world.unified
QuotaLost == world.quotaLost
Faulty == world.faulty
MaxFaults == world.max

MBToBytes(q) == q * MB
BytesToMB(b) == b \div MB

\* Mutation: rounds down.
BytesToMBFloor(b) == b \div MB

BytesToMBCeil(b) == (b + MB - 1) \div MB

Quotas == {0} \cup {BytesToMBCeil(s) : s \in Sizes}

ShareType == [st : {"unborn", "live", "deleted"}, dsm : Dsms \cup {None},
              name : ShareNames \cup {None}, quota : Quotas]

Live(u) == share[u].st = "live"

\* Share names are unique on a DSM.
SharesNamed(d, s) == {u \in Uuids : Live(u) /\ share[u].dsm = d /\ share[u].name = s}
UnbornShares == {u \in Uuids : share[u].st = "unborn"}

\* Which of the unused uuids a new share gets makes no difference.
NewUuid == CHOOSE u \in UnbornShares : TRUE

IdleCall == [pc |-> "idle", op |-> "none", name |-> None, id |-> None, size |-> 0,
             live |-> FALSE, byName |-> FALSE, todo |-> {}, found |-> None,
             quota |-> 0, host |-> None]

CallType ==
    [pc : {"idle", "List", "Pick", "ShareCreate", "ShareClone", "ShareGet",
           "ShareSet", "ShareDelete"},
     op : {"none", "create", "delete", "expand"},
     name : Names \cup {None},
     id : Uuids \cup {None},      \* the volume, or the source volume, asked for
     size : Sizes \cup {0},       \* the size asked for
     live : BOOLEAN,              \* the cluster still waits for the answer
     byName : BOOLEAN,            \* listing for a name, not for an id
     todo : SUBSET Dsms,          \* servers not yet visited by the loop
     found : Uuids \cup {None},   \* the share found, and its quota when read
     quota : Quotas,
     host : Dsms \cup {None}]

At(c, p) == call[c].pc = p
Busy(c) == call[c].pc # "idle"
Clones(c) == Request[call[c].name].source # None
Goto(c, p) == call' = [call EXCEPT ![c].pc = p]
Return(c) == call' = [call EXCEPT ![c] = IdleCall]

Mishap(kind) == kind \in Faulty /\ faults < MaxFaults /\ faults' = faults + 1

\* A call is answered, fails without effect, or takes effect and seems to fail.
Outcomes == {"ok", "lost", "mute"}
Outcome(kind, o) == \/ o = "ok" /\ UNCHANGED faults
                    \/ o \in {"lost", "mute"} /\ Mishap(kind)

\* An error status: the cluster keeps wanting what it wanted.
Refuse(c) == Return(c) /\ UNCHANGED clusterVars

\* The cluster takes an answer only from a call it still waits for.
Answers(c, p) == call[c].live /\ phase[call[c].name] = p

\* Mutation: the sizes are compared in bytes.
CreateReplyBytes(c, u, quota) ==
    IF MBToBytes(quota) # call[c].size
      THEN Refuse(c)
      ELSE /\ Return(c)
           /\ IF Answers(c, "wanted")
                THEN /\ phase' = [phase EXCEPT ![call[c].name] = "bound"]
                     /\ volumeId' = [volumeId EXCEPT ![call[c].name] = u]
                     /\ capacity' = [capacity EXCEPT ![call[c].name] = MBToBytes(quota)]
                ELSE UNCHANGED clusterVars

\* CreateVolume ends by comparing sizes, for found and for made volumes.
CreateReply(c, u, quota) ==
    IF BytesToMB(MBToBytes(quota)) # BytesToMBCeil(call[c].size)
      THEN Refuse(c)
      ELSE /\ Return(c)
           /\ IF Answers(c, "wanted")
                THEN /\ phase' = [phase EXCEPT ![call[c].name] = "bound"]
                     /\ volumeId' = [volumeId EXCEPT ![call[c].name] = u]
                     /\ capacity' = [capacity EXCEPT ![call[c].name] = MBToBytes(quota)]
                ELSE UNCHANGED clusterVars

DeleteDone(c) ==
    /\ Return(c)
    /\ IF Answers(c, "released")
         THEN phase' = [phase EXCEPT ![call[c].name] = "deleted"]
         ELSE UNCHANGED phase
    /\ UNCHANGED <<volumeId, capacity>>

\* What is promised is the rounded size, not the one asked for.
ExpandDone(c) ==
    /\ Return(c)
    /\ IF Answers(c, "bound")
         THEN capacity' = [capacity EXCEPT ![call[c].name] =
                             MBToBytes(BytesToMBCeil(call[c].size))]
         ELSE UNCHANGED capacity
    /\ UNCHANGED <<phase, volumeId>>

\* A failed step of a creation: the loop over the DSMs goes on, a clone gives up.
CreateStepFails(c) ==
    IF Clones(c) THEN Refuse(c) ELSE Goto(c, "Pick") /\ UNCHANGED clusterVars

-----------------------------------------------------------------------------
(* GetVolume and GetVolumeByName list the shares of every DSM and take the *)
(* first that fits; a DSM that fails is skipped, and so are unified ones.  *)

Fits(c, u) == IF call[c].byName THEN share[u].name = ShareOf[call[c].name]
                                ELSE u = call[c].id

ShareList(c) ==
    /\ At(c, "List")
    /\ \E d \in call[c].todo :
         LET rest == [call EXCEPT ![c].todo = @ \ {d}]
             fit == {u \in Uuids : Live(u) /\ share[u].dsm = d /\ Fits(c, u)}
         IN  \/ /\ d \in Unified \/ fit = {} \/ call[c].found # None
                /\ call' = rest /\ UNCHANGED faults
             \/ /\ d \notin Unified /\ call[c].found = None
                /\ \E u \in fit : call' = [rest EXCEPT ![c].found = u, ![c].host = d,
                                                       ![c].quota = share[u].quota]
                /\ UNCHANGED faults
             \/ Mishap("ShareList") /\ call' = rest
    /\ UNCHANGED <<share, clusterVars, wish>>

\* Mutation: expansion does not look at the size the share has.
NeverTooSmall(c) == FALSE

\* The new size is less than the one just read; bytes are compared.
WouldShrink(c) == MBToBytes(call[c].quota) > call[c].size

\* The request goes on with the share found.
FoundShare(c) ==
    \/ call[c].byName /\ CreateReply(c, call[c].found, call[c].quota)
    \/ /\ call[c].op = "create" /\ ~call[c].byName
       /\ IF BytesToMBCeil(call[c].size) = call[c].quota
            THEN Goto(c, "ShareClone") /\ UNCHANGED clusterVars
            ELSE Refuse(c)
    \/ call[c].op = "delete" /\ Goto(c, "ShareDelete") /\ UNCHANGED clusterVars
    \/ /\ call[c].op = "expand"
       /\ IF WouldShrink(c) THEN Refuse(c) ELSE Goto(c, "ShareSet") /\ UNCHANGED clusterVars

\* The servers the loop of CreateVolume may use for this request.
HostsFor(c) == {d \in Dsms : Request[call[c].name].dsm \in {None, d}}

\* A volume that is not found counts as deleted.
DeleteNothing(c) == call[c].op = "delete" /\ DeleteDone(c)

\* The request goes on without a share.
NoShare(c) ==
    \/ /\ call[c].byName
       /\ call' = [call EXCEPT ![c].pc = IF Clones(c) THEN "List" ELSE "Pick",
                               ![c].byName = FALSE,
                               ![c].todo = IF Clones(c) THEN Dsms ELSE HostsFor(c)]
       /\ UNCHANGED clusterVars
    \/ DeleteNothing(c)
    \/ call[c].op \in {"create", "expand"} /\ ~call[c].byName /\ Refuse(c)

ListEnd(c) ==
    /\ At(c, "List") /\ call[c].todo = {}
    /\ IF call[c].found # None THEN FoundShare(c) ELSE NoShare(c)
    /\ UNCHANGED <<share, wish, faults>>

-----------------------------------------------------------------------------
(* CreateVolume.                                                           *)

\* The next server of the loop, if it has a usable location.
Pick(c) ==
    /\ At(c, "Pick")
    /\ \/ \E d \in call[c].todo :
            LET rest == [call EXCEPT ![c].todo = @ \ {d}]
            IN  /\ \/ call' = [rest EXCEPT ![c].pc = "ShareCreate", ![c].host = d]
                      /\ UNCHANGED faults
                   \/ call' = rest /\ Mishap("Location")
                /\ UNCHANGED clusterVars
       \/ call[c].todo = {} /\ Refuse(c) /\ UNCHANGED faults
    /\ UNCHANGED <<share, wish>>

NewShare(u, d, s, quota) ==
    share' = [share EXCEPT ![u] = [st |-> "live", dsm |-> d, name |-> s, quota |-> quota]]

\* A name already in use is no error; having no share left is one.
ShareCreate(c) ==
    LET d == call[c].host
        s == ShareOf[call[c].name]
        exists == SharesNamed(d, s) # {}
        able == d \notin Unified /\ UnbornShares # {}
    IN  /\ At(c, "ShareCreate")
        /\ \E o \in Outcomes :
             /\ Outcome("ShareCreate", o)
             /\ IF o = "lost" \/ exists \/ ~able
                  THEN UNCHANGED share
                  ELSE NewShare(NewUuid, d, s, BytesToMBCeil(call[c].size))
             /\ IF o = "ok" /\ (exists \/ able)
                  THEN Goto(c, "ShareGet") /\ UNCHANGED clusterVars
                  ELSE CreateStepFails(c)
        /\ UNCHANGED wish

\* A copy of the source share under the new name, on the same DSM, with its
\* quota or, on some models, without.
ShareClone(c) ==
    LET d == call[c].host
        s == ShareOf[call[c].name]
        exists == SharesNamed(d, s) # {}
        able == Live(call[c].id) /\ UnbornShares # {}
        quota == IF QuotaLost THEN 0 ELSE share[call[c].id].quota
    IN  /\ At(c, "ShareClone")
        /\ \E o \in Outcomes :
             /\ Outcome("ShareClone", o)
             /\ IF o = "lost" \/ exists \/ ~able
                  THEN UNCHANGED share
                  ELSE NewShare(NewUuid, d, s, quota)
             /\ IF o = "ok" /\ (exists \/ able)
                  THEN Goto(c, "ShareGet") /\ UNCHANGED clusterVars
                  ELSE Refuse(c)
        /\ UNCHANGED wish

\* The share is read by name, whoever made it; a clone without a quota gets one.
ShareGet(c) ==
    LET named == SharesNamed(call[c].host, ShareOf[call[c].name])
    IN  /\ At(c, "ShareGet")
        /\ \/ \E u \in named :
                /\ IF Clones(c) /\ share[u].quota = 0
                     THEN /\ call' = [call EXCEPT ![c].pc = "ShareSet", ![c].found = u]
                          /\ UNCHANGED clusterVars
                     ELSE CreateReply(c, u, share[u].quota)
                /\ UNCHANGED faults
           \/ named = {} /\ CreateStepFails(c) /\ UNCHANGED faults
           \/ Mishap("ShareGet") /\ CreateStepFails(c)
        /\ UNCHANGED <<share, wish>>

-----------------------------------------------------------------------------
(* SetShareQuota, which ends a clone and an expansion; ShareDelete.  Both  *)
(* name the share that was read, not its uuid.                             *)

NameOfFound(c) == share[call[c].found].name

\* Mutation: an error of SetShareQuota is ignored.
ShareSetTried(c) ==
    LET named == SharesNamed(call[c].host, NameOfFound(c))
        quota == BytesToMBCeil(call[c].size)
    IN  /\ At(c, "ShareSet")
        /\ \E o \in Outcomes :
             /\ Outcome("ShareSet", o)
             /\ share' = [u \in Uuids |-> IF o # "lost" /\ u \in named
                            THEN [share[u] EXCEPT !.quota = quota] ELSE share[u]]
        /\ IF call[c].op = "expand" THEN ExpandDone(c)
                                    ELSE CreateReply(c, call[c].found, quota)
        /\ UNCHANGED wish

ShareSet(c) ==
    LET named == SharesNamed(call[c].host, NameOfFound(c))
        quota == BytesToMBCeil(call[c].size)
    IN  /\ At(c, "ShareSet")
        /\ \E o \in Outcomes :
             /\ Outcome("ShareSet", o)
             /\ share' = [u \in Uuids |-> IF o # "lost" /\ u \in named
                            THEN [share[u] EXCEPT !.quota = quota] ELSE share[u]]
             /\ IF o # "ok" \/ named = {} THEN Refuse(c)
                ELSE IF call[c].op = "expand" THEN ExpandDone(c)
                ELSE CreateReply(c, call[c].found, quota)
        /\ UNCHANGED wish

\* Mutation: an error of ShareDelete is taken to mean that there is no share.
ShareDeleteTried(c) ==
    LET named == SharesNamed(call[c].host, NameOfFound(c))
    IN  /\ At(c, "ShareDelete")
        /\ \E o \in Outcomes :
             /\ Outcome("ShareDelete", o)
             /\ share' = [u \in Uuids |-> IF o # "lost" /\ u \in named
                            THEN [share[u] EXCEPT !.st = "deleted"] ELSE share[u]]
        /\ DeleteDone(c)
        /\ UNCHANGED wish

\* Any error ends the request; its retry lists the shares again.
ShareDelete(c) ==
    LET named == SharesNamed(call[c].host, NameOfFound(c))
    IN  /\ At(c, "ShareDelete")
        /\ \E o \in Outcomes :
             /\ Outcome("ShareDelete", o)
             /\ share' = [u \in Uuids |-> IF o # "lost" /\ u \in named
                            THEN [share[u] EXCEPT !.st = "deleted"] ELSE share[u]]
             /\ IF o = "ok" /\ named # {} THEN DeleteDone(c) ELSE Refuse(c)
        /\ UNCHANGED wish

\* One step of a handler.
Step(c) == \/ ShareList(c) \/ ListEnd(c) \/ Pick(c) \/ ShareCreate(c)
           \/ ShareClone(c) \/ ShareGet(c) \/ ShareSet(c) \/ ShareDelete(c)

-----------------------------------------------------------------------------
(* The cluster, as in IscsiVolumes: one live call per name at most, retried *)
(* until it succeeds; an expansion is repeated with the size first wished.  *)

LiveCall(n) == \E c \in Calls : Busy(c) /\ call[c].live /\ call[c].name = n

Start(c, op, n, id, size) ==
    /\ ~Busy(c) /\ ~LiveCall(n)
    /\ call' = [call EXCEPT ![c] = [IdleCall EXCEPT
                   !.pc = "List", !.op = op, !.name = n, !.id = id, !.size = size,
                   !.live = TRUE, !.byName = (op = "create"), !.todo = Dsms]]
    /\ UNCHANGED <<share, clusterVars, wish, faults>>

\* A clone is asked for once its source is bound.
StartCreate(c, n) ==
    LET source == Request[n].source
    IN  /\ phase[n] = "wanted"
        /\ source # None => phase[source] = "bound"
        /\ Start(c, "create", n, IF source = None THEN None ELSE volumeId[source],
                 Request[n].size)

StartExpand(c, n) ==
    /\ phase[n] = "bound" /\ wish[n] > capacity[n]
    /\ Start(c, "expand", n, volumeId[n], wish[n])

StartDelete(c, n) ==
    phase[n] = "released" /\ Start(c, "delete", n, volumeId[n], 0)

\* A user wants more than was promised, or changes his mind about how much.
Wish(n) ==
    /\ phase[n] = "bound"
    /\ \E s \in world.wishes[n] : s > capacity[n] /\ s # wish[n] /\ wish' = [wish EXCEPT ![n] = s]
    /\ UNCHANGED <<share, call, clusterVars, faults>>

Release(n) ==
    /\ phase[n] = "bound"
    /\ phase' = [phase EXCEPT ![n] = "released"]
    /\ UNCHANGED <<share, call, volumeId, capacity, wish, faults>>

\* The caller's deadline passes; the handler runs on.
Deadline(c) ==
    /\ Busy(c) /\ call[c].live /\ Mishap("Deadline")
    /\ call' = [call EXCEPT ![c].live = FALSE]
    /\ UNCHANGED <<share, clusterVars, wish>>

Restart ==
    /\ Mishap("Crash")
    /\ call' = [c \in Calls |-> IdleCall]
    /\ UNCHANGED <<share, clusterVars, wish>>

\* A clone whose source was given up is never asked for again.
SourceGone(n) ==
    \E m \in Names : m = Request[n].source /\ phase[m] \in {"released", "deleted"}

Finished ==
    /\ \A n \in Names : phase[n] = "deleted" \/ (phase[n] = "wanted" /\ SourceGone(n))
    /\ \A c \in Calls : ~Busy(c)
    /\ UNCHANGED vars

-----------------------------------------------------------------------------
Init ==
    /\ share = [u \in Uuids |-> [st |-> "unborn", dsm |-> None, name |-> None, quota |-> 0]]
    /\ call = [c \in Calls |-> IdleCall]
    /\ phase = [n \in Names |-> "wanted"]
    /\ volumeId = [n \in Names |-> None]
    /\ capacity = [n \in Names |-> 0]
    /\ wish = [n \in Names |-> 0]
    /\ faults = 0
    /\ world \in Worlds

Next ==
    \/ \E c \in Calls : Step(c)
    \/ \E c \in Calls, n \in Names :
         StartCreate(c, n) \/ StartExpand(c, n) \/ StartDelete(c, n)
    \/ \E n \in Names : Wish(n) \/ Release(n)
    \/ \E c \in Calls : Deadline(c)
    \/ Restart
    \/ Finished

Spec == Init /\ [][Next /\ UNCHANGED world]_<<vars, world>>

(* A running handler is scheduled, and the provisioner and the resizer come *)
(* back to a name they still have work for.                                 *)
Fairness ==
    /\ \A c \in Calls : WF_vars(Step(c))
    /\ \A n \in Names : /\ SF_vars(\E c \in Calls : StartCreate(c, n))
                        /\ SF_vars(\E c \in Calls : StartExpand(c, n))
                        /\ SF_vars(\E c \in Calls : StartDelete(c, n))

FairSpec == Spec /\ Fairness

-----------------------------------------------------------------------------
(* Properties.                                                             *)

\* The shape of the state: every variable has its type.
TypeOK ==
    /\ share \in [Uuids -> ShareType]
    /\ call \in [Calls -> CallType]
    /\ phase \in [Names -> {"wanted", "bound", "released", "deleted"}]
    /\ volumeId \in [Names -> Uuids \cup {None}]
    /\ capacity \in [Names -> Nat]
    /\ wish \in [Names -> Sizes \cup {0}]
    /\ faults \in 0..MaxFaults

\* No late handler sets a quota that is not wanted any more: either the cluster
\* waits for every answer, or the users of n wish for one size only, and n is
\* not a clone whose missing quota an abandoned CreateVolume may still set.
Steady(n) ==
    \/ "Deadline" \notin Faulty
    \/ \A s, t \in world.wishes[n] : s = t /\ (QuotaLost => Request[n].source = None)

\* A bound volume is a share of its own name that stays until the release, and
\* a quota of 0, no limit at all, is never handed out, whatever retries, late
\* handlers and crashes do; its quota holds the capacity promised last unless
\* an abandoned handler sets a quota that is out of date.
BoundKept ==
    \A n \in Names : phase[n] = "bound" =>
        \E u \in Uuids : /\ u = volumeId[n] /\ Live(u) /\ share[u].name = ShareOf[n]
                         /\ share[u].quota # 0
                         /\ Steady(n) => MBToBytes(share[u].quota) >= capacity[n]

\* The capacity promised covers a size asked for, and exceeds it by less than a
\* megabyte: bytes become megabytes and bytes again in every request, one way
\* rounded up and the other down, and the roundings do not add up.
RoundedOnce ==
    \A n \in Names : phase[n] = "bound" =>
        \E s \in Sizes : Request[n].size <= s /\ s <= capacity[n] /\ capacity[n] < s + MB

\* No request makes a share's quota smaller, although ExpandVolume compares its
\* new size with a quota read some web-API calls earlier, if the
\* cluster waits for its answers.
NeverShrinks ==
    [][\A u \in Uuids : "Deadline" \notin Faulty /\ Live(u) /\ share'[u].st = "live" =>
        share'[u].quota >= share[u].quota]_vars

\* No request can succeed any more: the source was given up or expanded (a clone
\* has its source's size), or a clone was left with a quota of 0, which the
\* retry's CreateVolume finds by name and refuses.
Unmakable(n) ==
    \/ SourceGone(n)
    \/ \E m \in Names : /\ m = Request[n].source /\ phase[m] = "bound"
                        /\ share[volumeId[m]].quota # BytesToMBCeil(Request[n].size)
    \/ \E u \in Uuids : Live(u) /\ share[u].name = ShareOf[n] /\ share[u].quota = 0

\* The quota was set and the answer lost: a retry with a size that is not a
\* whole number of megabytes is less than the quota and is refused.
Overtaken(n) == MBToBytes(share[volumeId[n]].quota) > wish[n]

\* The retries of the cluster end, whatever failed and abandoned tries left:
\* again and again every volume that can be made is bound, every expansion that
\* can be made is reported, and every released volume is deleted.
EventuallySettled ==
    []<>(\A n \in Names :
            /\ phase[n] = "wanted" => Unmakable(n)
            /\ phase[n] = "bound" /\ wish[n] > capacity[n] => Overtaken(n)
            /\ phase[n] # "released")

\* The shares that can be handed out as volumes.
UsableShares == {u \in Uuids : Live(u) /\ share[u].quota # 0}

Store == INSTANCE VolumeStore WITH usable <- UsableShares

\* SMB volumes keep the promise that iSCSI volumes keep: VolumeStore, as long
\* as the listings by which shares are found do not fail.
ImplementsStore ==
    Store!Init /\ [][Store!Next \/ "ShareList" \in Faulty]_(Store!vars)

=============================================================================
