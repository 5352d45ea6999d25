------------------------- MODULE IscsiVolumes_proofs -------------------------
(***************************************************************************)
(* Proofs about IscsiVolumes, for every number of servers, volumes,        *)
(* handlers and mishaps, and what the cluster may rely on when it works    *)
(* with iSCSI volumes.                                                     *)
(*   1. In whatever goes wrong, a bound volume stays usable, and nothing   *)
(*      is mapped before it is copied completely.                          *)
(*   2. IscsiVolumes implements VolumeStore, as long as the reads by       *)
(*      which volumes are found (TargetList and the LunGet of a listing)   *)
(*      and the logins at start-up do not fail.                            *)
(*   3. A cluster that waits for the answer of each of its calls (no       *)
(*      Deadline) gets the capacity it was promised, no LUN ever shrinks,  *)
(*      and no target is taken away from under a LUN.  The driver acts on  *)
(*      a size and on the number of LUNs of a target that it has read some *)
(*      web-API calls earlier, so that all this rests on the cluster       *)
(*      running one call per name at a time.                               *)
(*   4. No name has two volumes: in whatever goes wrong if there is one    *)
(*      server for each name, or on many servers if the reads and the      *)
(*      mapping of LUNs do not fail and no two handlers work for a name.   *)
(*      And nothing of a deleted volume is left if the conditions of 2 and *)
(*      3 hold and there is one server for each name.                      *)
(***************************************************************************)
EXTENDS IscsiVolumes, TLAPS

-----------------------------------------------------------------------------
(* 1. Bound volumes.                                                       *)

CreatePcs == {"Pick", "LunCreate", "LunClone", "WaitClone", "LunGet",
              "TargetCreate", "TargetGet", "TargetSet", "LunMapTarget"}
MappingPcs == {"TargetCreate", "TargetGet", "TargetSet", "LunMapTarget"}
DeletePcs == {"LunDelete", "LunCheck", "TargetDelete", "TargetCheck"}

\* The cluster has not given the volume of n up.
Kept(n) == phase[n] \in {"wanted", "bound"}

BornLun(u) == lun[u].st # "unborn"
BornTarget(t) == target[t].st # "unborn"

\* LUNs carry a name for good, unique among the live ones of a server, and
\* only clones are ever action-locked.
LunInv ==
    /\ \A u \in Uuids : BornLun(u) => lun[u].name \in Names
    /\ \A u \in Uuids : lun[u].st = "cloning" => Request[lun[u].name].source # None
    /\ \A u, v \in Uuids : /\ LiveLun(u) /\ LiveLun(v)
                           /\ lun[u].dsm = lun[v].dsm /\ lun[u].name = lun[v].name
                           => u = v

\* A target serves LUNs of its own name only, opened as far as was asked for,
\* and copied completely unless the cluster has given them up.
TargetInv ==
    \A t \in Tids : \A u \in target[t].luns :
        /\ LiveTarget(t) /\ BornLun(u)
        /\ target[t].name = lun[u].name
        /\ Request[lun[u].name].multiSession => target[t].multiSession
        /\ Kept(lun[u].name) => lun[u].st = "ready"

PhaseInv ==
    \A n \in Names : phase[n] # "wanted" =>
        /\ volumeId[n] \in Uuids
        /\ BornLun(volumeId[n])
        /\ lun[volumeId[n]].name = n

\* The request of a handler and where it may be in serving it.
RequestInv(c) ==
    /\ call[c].op = "none" => call[c].pc = "idle"
    /\ call[c].pc # "List" => call[c].refs = {}
    /\ Busy(c) =>
         /\ call[c].name \in Names
         /\ call[c].pc \in CreatePcs => call[c].op = "create"
         /\ call[c].pc \in DeletePcs => call[c].op = "delete"
         /\ call[c].pc = "LunUpdate" => call[c].op = "expand" /\ call[c].lun \in Uuids
         /\ call[c].byName => call[c].op = "create"
         /\ call[c].op = "create" /\ Clones(c) => call[c].id \in Uuids
         /\ call[c].pc \in {"Pick", "LunCreate"} => ~Clones(c)
         /\ call[c].pc \in {"LunClone", "WaitClone"} => Clones(c)
         /\ call[c].op = "create" /\ call[c].pc = "List" /\ ~call[c].byName => Clones(c)
         /\ call[c].op \in {"create", "expand"} => call[c].size \in Sizes
         /\ call[c].op = "delete" => /\ ~Kept(call[c].name)
                                     /\ call[c].id = volumeId[call[c].name]

\* The mappings of a listing stay attachable while their name is kept.
RefsInv(c) ==
    \A r \in call[c].refs :
        /\ BornLun(r.lun) /\ BornTarget(r.target)
        /\ target[r.target].name = lun[r.lun].name
        /\ Kept(lun[r.lun].name) => Usable(lun[r.lun].name, r.lun)

\* What a creation knows of the LUN and the target it works on.
CreateInv(c) ==
    /\ call[c].pc = "LunGet" /\ Clones(c) /\ Kept(call[c].name) =>
         \E u \in LunsNamed(call[c].host, call[c].name) : lun[u].st = "ready"
    /\ call[c].pc \in MappingPcs =>
         /\ call[c].lun \in Uuids /\ BornLun(call[c].lun)
         /\ lun[call[c].lun].name = call[c].name
         /\ Kept(call[c].name) => lun[call[c].lun].st = "ready"
    /\ call[c].pc \in {"TargetSet", "LunMapTarget"} =>
         /\ call[c].target \in Tids /\ BornTarget(call[c].target)
         /\ target[call[c].target].name = call[c].name
    /\ call[c].pc = "LunMapTarget" /\ Request[call[c].name].multiSession =>
         target[call[c].target].multiSession

\* What a deletion works on belongs to the volume it was asked to delete.
DeleteInv(c) ==
    call[c].pc \in DeletePcs =>
        /\ call[c].lun = call[c].id
        /\ call[c].target \in Tids /\ BornTarget(call[c].target)
        /\ target[call[c].target].name = call[c].name

CallInv(c) == RequestInv(c) /\ RefsInv(c) /\ CreateInv(c) /\ DeleteInv(c)

IInv == /\ TypeOK
        /\ LunInv /\ TargetInv /\ PhaseInv /\ BoundUsable
        /\ \A c \in Calls : CallInv(c)

-----------------------------------------------------------------------------
(* What no step undoes.                                                    *)

\* A name is not taken back once given up, and keeps its volume id.
PhaseMonotone ==
    \A n \in Names :
        /\ Kept(n)' => Kept(n)
        /\ phase[n] # "wanted" => phase'[n] # "wanted" /\ volumeId'[n] = volumeId[n]

\* LUNs and targets keep their identity, names are not taken back once given
\* up, and while a name is kept its usable LUNs stay usable.
Monotone ==
    /\ \A u \in Uuids : BornLun(u) =>
         /\ BornLun(u)' /\ lun'[u].name = lun[u].name /\ lun'[u].dsm = lun[u].dsm
    /\ \A t \in Tids : BornTarget(t) =>
         /\ BornTarget(t)' /\ target'[t].name = target[t].name
         /\ target[t].multiSession => target'[t].multiSession
    /\ \A n \in Names, u \in Uuids : Kept(n)' /\ lun[u].name = n =>
         /\ lun[u].st = "ready" => lun'[u].st = "ready"
         /\ Usable(n, u) => Usable(n, u)'
    /\ PhaseMonotone

\* A step binds a name to a usable volume only.
BindsUsable ==
    \A n \in Names : phase[n] = "wanted" /\ phase'[n] # "wanted" =>
        /\ volumeId'[n] \in Uuids
        /\ Usable(n, volumeId[n])'

LEMMA ClusterKept ==
    ASSUME TypeOK, PhaseInv, BoundUsable, Monotone, BindsUsable
    PROVE  PhaseInv' /\ BoundUsable'
<1> SUFFICES ASSUME NEW n \in Names, phase'[n] # "wanted"
             PROVE  /\ volumeId'[n] \in Uuids
                    /\ BornLun(volumeId[n])'
                    /\ lun'[volumeId'[n]].name = n
                    /\ phase'[n] = "bound" => Usable(n, volumeId[n])'
  BY NoneIsNone DEF PhaseInv, BoundUsable
<1>1. CASE phase[n] = "wanted"
  BY <1>1 DEF BindsUsable, Usable, BornLun
<1>2. CASE phase[n] # "wanted"
  <2>0. PICK u \in Uuids : u = volumeId[n]
    BY <1>2 DEF PhaseInv
  <2>1. volumeId'[n] = u /\ BornLun(u) /\ lun[u].name = n
    BY <2>0, <1>2 DEF PhaseInv, Monotone, PhaseMonotone
  <2>2. BornLun(u)' /\ lun'[u].name = n
    BY <2>1 DEF Monotone, PhaseMonotone
  <2>3. ASSUME phase'[n] = "bound" PROVE Usable(n, volumeId[n])'
    <3>1. Kept(n)' /\ Kept(n)
      BY <2>3 DEF Kept, Monotone, PhaseMonotone
    <3>2. Usable(n, u)
      BY <1>2, <3>1, <2>0 DEF Kept, BoundUsable
    <3>3. Usable(n, u)'
      BY <3>1, <3>2, <2>1 DEF Monotone, PhaseMonotone
    <3> QED BY <3>3, <2>1 DEF Usable, TargetsOf, LiveTarget
  <2> QED BY <2>1, <2>2, <2>3 DEF BornLun
<1> QED BY <1>1, <1>2

\* A handler that does not move keeps its invariant, whatever the others do.
LEMMA OtherCall ==
    ASSUME TypeOK, LunInv, Monotone, NEW c \in Calls, CallInv(c), call'[c] = call[c]
    PROVE  CallInv(c)'
<1>1. RequestInv(c)'
  BY DEF CallInv, RequestInv, Monotone, PhaseMonotone, Clones, Busy, Kept
<1>2. RefsInv(c)'
  <2> SUFFICES ASSUME NEW r \in call[c].refs
               PROVE  /\ BornLun(r.lun)' /\ BornTarget(r.target)'
                      /\ target'[r.target].name = lun'[r.lun].name
                      /\ Kept(lun[r.lun].name)' => Usable(lun[r.lun].name, r.lun)'
    BY DEF RefsInv, BornLun, BornTarget
  <2>1. r.lun \in Uuids /\ r.target \in Tids
    BY DEF TypeOK, CallType, RefType
  <2>2. /\ BornLun(r.lun) /\ BornTarget(r.target)
        /\ target[r.target].name = lun[r.lun].name
        /\ Kept(lun[r.lun].name) => Usable(lun[r.lun].name, r.lun)
    BY DEF CallInv, RefsInv
  <2>3. /\ BornLun(r.lun)' /\ BornTarget(r.target)'
        /\ target'[r.target].name = lun'[r.lun].name
    BY <2>1, <2>2 DEF Monotone, PhaseMonotone
  <2>4. PICK n \in Names : n = lun[r.lun].name
    BY <2>1, <2>2 DEF LunInv
  <2>5. ASSUME Kept(lun[r.lun].name)' PROVE Usable(lun[r.lun].name, r.lun)'
    <3>1. Kept(n)' /\ lun'[r.lun].name = n
      BY <2>5, <2>2, <2>1, <2>4 DEF Kept, Monotone, PhaseMonotone
    <3>2. Usable(n, r.lun)
      BY <2>2, <2>4, <3>1 DEF Monotone, PhaseMonotone
    <3>3. Usable(n, r.lun)'
      BY <3>1, <3>2, <2>1, <2>4 DEF Monotone, PhaseMonotone
    <3> QED BY <3>3, <3>1 DEF Usable, TargetsOf, LiveTarget
  <2> QED BY <2>3, <2>5
<1>3. CreateInv(c)'
  BY DEF CallInv, CreateInv, RequestInv, Monotone, PhaseMonotone, Clones, Busy, MappingPcs, CreatePcs, LunsNamed, LiveLun, BornLun
<1>4. DeleteInv(c)'
  BY DEF CallInv, DeleteInv, Monotone, PhaseMonotone
<1> QED BY <1>1, <1>2, <1>3, <1>4 DEF CallInv

LEMMA IdleCallInv ==
    ASSUME NEW c \in Calls, call'[c] = IdleCall
    PROVE  CallInv(c)'
BY DEF CallInv, RequestInv, RefsInv, CreateInv, DeleteInv, IdleCall, Busy,
       CreatePcs, MappingPcs, DeletePcs

LEMMA IdleCallType == IdleCall \in CallType
BY DEF IdleCall, CallType

-----------------------------------------------------------------------------
(* Steps by their effect.                                                  *)

\* A step of handler c that keeps the DSM and cluster invariants keeps them all.
LEMMA StepOf ==
    ASSUME IInv, TypeOK', LunInv', TargetInv', Monotone, BindsUsable,
           NEW c \in Calls, CallInv(c)',
           \A d \in Calls : d # c => call'[d] = call[d]
    PROVE  IInv'
<1>1. PhaseInv' /\ BoundUsable'
  BY ClusterKept DEF IInv
<1>2. \A d \in Calls : CallInv(d)'
  BY OtherCall DEF IInv
<1> QED BY <1>1, <1>2 DEF IInv

LEMMA DsmUnchanged ==
    ASSUME IInv, UNCHANGED dsmVars,
           \A n \in Names : Kept(n)' => Kept(n)
    PROVE  LunInv' /\ TargetInv'
<1>1. LunInv'
  BY DEF IInv, LunInv, dsmVars, BornLun, LiveLun
<1>2. TargetInv'
  BY DEF IInv, LunInv, TargetInv, TypeOK, TargetType, dsmVars, BornLun, LiveTarget
<1> QED BY <1>1, <1>2

LEMMA UsableUnchanged ==
    ASSUME UNCHANGED dsmVars, NEW n, NEW u
    PROVE  Usable(n, u)' <=> Usable(n, u)
BY DEF dsmVars, Usable, TargetsOf, LiveTarget

\* A handler that only moves on.
LEMMA MoveStep ==
    ASSUME IInv, UNCHANGED <<dsmVars, clusterVars, dsms>>, faults' \in 0..MaxFaults,
           NEW c \in Calls, NEW x \in CallType, call' = [call EXCEPT ![c] = x],
           CallInv(c)'
    PROVE  IInv'
<1>1. TypeOK'
  BY DEF IInv, TypeOK, dsmVars, clusterVars
<1>2. LunInv' /\ TargetInv'
  BY DsmUnchanged DEF clusterVars, Kept
<1>3. Monotone
  BY UsableUnchanged DEF Monotone, PhaseMonotone, dsmVars, clusterVars, Kept, BornLun, BornTarget
<1>4. BindsUsable
  BY DEF BindsUsable, clusterVars
<1>5. \A d \in Calls : d # c => call'[d] = call[d]
  BY DEF IInv, TypeOK
<1> QED BY <1>1, <1>2, <1>3, <1>4, <1>5, StepOf

\* The cluster takes an answer that binds nothing.
Settles ==
    /\ phase' \in [Names -> {"wanted", "bound", "released", "deleted"}]
    /\ volumeId' = volumeId
    /\ capacity' \in [Names -> Sizes]
    /\ \A n \in Names : /\ Kept(n)' => Kept(n)
                        /\ phase'[n] = "wanted" <=> phase[n] = "wanted"

LEMMA Endings ==
    ASSUME IInv, NEW c \in Calls, Busy(c),
           \/ Refuse(c)
           \/ DeleteDone(c) /\ call[c].op = "delete"
           \/ ExpandDone(c) /\ call[c].op = "expand"
    PROVE  /\ Settles
           /\ call' = [call EXCEPT ![c] = IdleCall]
           /\ CallInv(c)'
<1>1. call' = [call EXCEPT ![c] = IdleCall]
  BY DEF Refuse, DeleteDone, ExpandDone, Return
<1>2. CallInv(c)'
  BY <1>1, IdleCallInv DEF IInv, TypeOK
<1>3. call[c].name \in Names /\ (call[c].op = "expand" => call[c].size \in Sizes)
  BY DEF IInv, CallInv, RequestInv
<1>4. ASSUME Refuse(c) PROVE Settles
  BY <1>4 DEF Refuse, clusterVars, Settles, IInv, TypeOK, Kept
<1>5. ASSUME DeleteDone(c) PROVE Settles
  BY <1>5, <1>3 DEF DeleteDone, Answers, Settles, IInv, TypeOK, Kept
<1>6. ASSUME ExpandDone(c), call[c].op = "expand" PROVE Settles
  BY <1>6, <1>3 DEF ExpandDone, Answers, Settles, IInv, TypeOK, Kept
<1> QED BY <1>1, <1>2, <1>4, <1>5, <1>6

\* A handler that ends, and changes nothing on the DSMs in this step.
LEMMA EndStep ==
    ASSUME IInv, UNCHANGED <<dsmVars, dsms>>, faults' \in 0..MaxFaults,
           NEW c \in Calls, Busy(c),
           \/ Refuse(c)
           \/ DeleteDone(c) /\ call[c].op = "delete"
           \/ ExpandDone(c) /\ call[c].op = "expand"
    PROVE  IInv'
<1>0. Settles /\ call' = [call EXCEPT ![c] = IdleCall] /\ CallInv(c)'
  BY Endings
<1>1. TypeOK'
  BY <1>0, IdleCallType DEF Settles, IInv, TypeOK, dsmVars
<1>2. LunInv' /\ TargetInv'
  BY <1>0, DsmUnchanged DEF Settles
<1>3. Monotone
  BY <1>0, UsableUnchanged DEF Monotone, PhaseMonotone, Settles, dsmVars, BornLun, BornTarget
<1>4. BindsUsable
  BY <1>0 DEF BindsUsable, Settles
<1>5. \A d \in Calls : d # c => call'[d] = call[d]
  BY <1>0 DEF IInv, TypeOK
<1> QED BY <1>0, <1>1, <1>2, <1>3, <1>4, <1>5, StepOf

\* What CreateDone does to the cluster's view.
LEMMA Binding ==
    ASSUME IInv, NEW c \in Calls, Busy(c), NEW u \in Uuids, CreateDone(c, u)
    PROVE  /\ call' = [call EXCEPT ![c] = IdleCall]
           /\ CallInv(c)'
           /\ phase' \in [Names -> {"wanted", "bound", "released", "deleted"}]
           /\ volumeId' \in [Names -> Uuids \cup {None}]
           /\ capacity' \in [Names -> Sizes]
           /\ \A n \in Names :
                /\ Kept(n)' => Kept(n)
                /\ phase[n] # "wanted" => phase'[n] # "wanted" /\ volumeId'[n] = volumeId[n]
                /\ phase[n] = "wanted" /\ phase'[n] # "wanted" =>
                     n = call[c].name /\ volumeId'[n] = u
<1>1. call' = [call EXCEPT ![c] = IdleCall]
  BY DEF CreateDone, Return
<1>2. CallInv(c)'
  BY <1>1, IdleCallInv DEF IInv, TypeOK
<1>3. call[c].name \in Names
  BY DEF IInv, CallInv, RequestInv
<1> QED BY <1>1, <1>2, <1>3 DEF CreateDone, Answers, IInv, TypeOK, Kept

\* A creation that ends with a volume that is there already.
LEMMA BindStep ==
    ASSUME IInv, UNCHANGED <<dsmVars, dsms>>, faults' \in 0..MaxFaults,
           NEW c \in Calls, Busy(c), NEW u \in Uuids, CreateDone(c, u),
           Kept(call[c].name) => Usable(call[c].name, u)
    PROVE  IInv'
<1>1. TypeOK'
  BY Binding, IdleCallType DEF IInv, TypeOK, dsmVars
<1>2. LunInv' /\ TargetInv'
  BY Binding, DsmUnchanged
<1>3. Monotone
  BY Binding, UsableUnchanged DEF Monotone, PhaseMonotone, dsmVars, BornLun, BornTarget
<1>4. BindsUsable
  <2> SUFFICES ASSUME NEW n \in Names, phase[n] = "wanted", phase'[n] # "wanted"
               PROVE  volumeId'[n] \in Uuids /\ Usable(n, volumeId[n])'
    BY DEF BindsUsable
  <2>1. n = call[c].name /\ volumeId'[n] = u /\ Usable(n, u)
    BY Binding DEF Kept
  <2>2. Usable(n, u)'
    BY <2>1, UsableUnchanged
  <2> QED BY <2>1, <2>2 DEF Usable, TargetsOf, LiveTarget
<1>5. \A d \in Calls : d # c => call'[d] = call[d]
  BY Binding DEF IInv, TypeOK
<1> QED BY <1>1, <1>2, <1>3, <1>4, <1>5, Binding, StepOf

LEMMA FaultsTyped ==
    ASSUME TypeOK, NEW k, NEW o, \/ Mishap(k) \/ Outcome(k, o) \/ UNCHANGED faults
    PROVE  faults' \in 0..MaxFaults
BY MaxFaultsNat DEF Mishap, Outcome, TypeOK

\* A step of a creation that failed, with or without an effect on the DSM.
LEMMA FailedStep ==
    ASSUME IInv, NEW c \in Calls, call[c].pc \in CreatePcs, CreateStepFails(c)
    PROVE  /\ Settles
           /\ \E x \in CallType : call' = [call EXCEPT ![c] = x]
           /\ CallInv(c)'
<1>1. Busy(c)
  BY DEF Busy, CreatePcs
<1>2. CASE Refuse(c)
  BY <1>1, <1>2, Endings, IdleCallType
<1>3. CASE ~Clones(c) /\ Goto(c, "Pick") /\ UNCHANGED clusterVars
  <2> DEFINE x == [call[c] EXCEPT !.pc = "Pick"]
  <2>1. x \in CallType /\ call' = [call EXCEPT ![c] = x] /\ call'[c] = x
    BY <1>3 DEF Goto, IInv, TypeOK, CallType
  <2>2. Settles
    BY <1>3 DEF Settles, clusterVars, IInv, TypeOK, Kept
  <2>3. CallInv(c)'
    BY <1>3, <2>1, <1>1 DEF IInv, CallInv, RequestInv, RefsInv, CreateInv, DeleteInv,
       CreatePcs, MappingPcs, DeletePcs, Busy, Clones, TypeOK, CallType, clusterVars, Kept
  <2> QED BY <2>1, <2>2, <2>3
<1> QED BY <1>2, <1>3 DEF CreateStepFails

\* The same when the step changed nothing on the DSM.
LEMMA FailStep ==
    ASSUME IInv, UNCHANGED <<dsmVars, dsms>>, faults' \in 0..MaxFaults,
           NEW c \in Calls, call[c].pc \in CreatePcs, CreateStepFails(c)
    PROVE  IInv'
<1>1. CASE Refuse(c)
  BY <1>1, EndStep DEF Busy, CreatePcs
<1>2. CASE UNCHANGED clusterVars
  BY <1>2, FailedStep, MoveStep
<1> QED BY <1>1, <1>2 DEF CreateStepFails

-----------------------------------------------------------------------------
(* The steps that change nothing on the DSMs, one lemma each.              *)

LEMMA TargetListStep ==
    ASSUME IInv, NEW c \in Calls, TargetList(c)
    PROVE  IInv'
<1>1. PICK d \in call[c].todo, o \in Answered, refs \in SUBSET RefType :
        /\ Outcome("TargetList", o)
        /\ refs \subseteq RefsOn(d)
        /\ call' = [call EXCEPT ![c].todo = @ \ {d}, ![c].refs = refs]
  BY DEF TargetList, RefsOn
<1> DEFINE x == [call[c] EXCEPT !.todo = @ \ {d}, !.refs = refs]
<1>2. x \in CallType /\ call' = [call EXCEPT ![c] = x] /\ call'[c] = x
  <2>1. call \in [Calls -> CallType] /\ call[c] \in CallType
    BY DEF IInv, TypeOK
  <2>2. x \in CallType
    BY <2>1 DEF CallType
  <2>3. call' = [call EXCEPT ![c] = x]
    BY <1>1, <2>1
  <2> QED BY <2>1, <2>2, <2>3
<1>3. UNCHANGED <<dsmVars, clusterVars, dsms>> /\ At(c, "List") /\ call[c].refs = {}
  BY DEF TargetList, dsmVars, clusterVars
<1>4. RequestInv(c)' /\ CreateInv(c)' /\ DeleteInv(c)'
  BY <1>2, <1>3 DEF IInv, CallInv, RequestInv, CreateInv, DeleteInv, CreatePcs,
     MappingPcs, DeletePcs, Busy, Clones, At, clusterVars, Kept
<1>5. RefsInv(c)'
  <2> SUFFICES ASSUME NEW r \in refs
               PROVE  /\ BornLun(r.lun) /\ BornTarget(r.target)
                      /\ target[r.target].name = lun[r.lun].name
                      /\ Kept(lun[r.lun].name) => Usable(lun[r.lun].name, r.lun)
    BY <1>2, <1>3 DEF RefsInv, dsmVars, clusterVars, BornLun, BornTarget, Kept, Usable, TargetsOf, LiveTarget
  <2>1. r.lun \in Uuids /\ r.target \in Tids /\ r.lun \in target[r.target].luns
    BY <1>1 DEF RefsOn, RefType
  <2> QED BY <2>1 DEF IInv, TargetInv, LiveTarget, BornTarget, Usable, TargetsOf
<1> QED BY <1>1, <1>2, <1>3, <1>4, <1>5, FaultsTyped, MoveStep DEF CallInv, IInv

LEMMA PickStep ==
    ASSUME IInv, NEW c \in Calls, Pick(c)
    PROVE  IInv'
<1>1. CASE Refuse(c) /\ UNCHANGED faults
  BY <1>1, EndStep, FaultsTyped DEF Pick, Busy, At, dsmVars, IInv
<1>2. /\ call[c] \in CallType /\ call[c].pc = "Pick" /\ call[c].refs = {} /\ ~Clones(c)
      /\ call[c].op = "create" /\ call[c].name \in Names /\ call[c].size \in Sizes
      /\ UNCHANGED dsmVars /\ UNCHANGED dsms
  BY DEF Pick, At, IInv, TypeOK, CallInv, RequestInv, Busy, CreatePcs, dsmVars
<1>3. ASSUME NEW d \in call[c].todo,
             call' = [call EXCEPT ![c].pc = "LunCreate", ![c].host = d, ![c].todo = @ \ {d}],
             UNCHANGED clusterVars, UNCHANGED faults
      PROVE  IInv'
  <2> DEFINE x == [call[c] EXCEPT !.pc = "LunCreate", !.host = d, !.todo = @ \ {d}]
  <2>1. x \in CallType /\ call' = [call EXCEPT ![c] = x] /\ call'[c] = x
    BY <1>2, <1>3 DEF IInv, TypeOK, CallType
  <2>2. CallInv(c)'
    BY <1>2, <2>1 DEF CallInv, RequestInv, RefsInv, CreateInv, DeleteInv,
       CreatePcs, MappingPcs, DeletePcs, Busy, Clones, CallType
  <2> QED BY <1>2, <1>3, <2>1, <2>2, MoveStep, FaultsTyped DEF IInv
<1>4. ASSUME NEW d \in call[c].todo, call' = [call EXCEPT ![c].todo = @ \ {d}],
             UNCHANGED clusterVars, Mishap("Location")
      PROVE  IInv'
  <2> DEFINE x == [call[c] EXCEPT !.todo = @ \ {d}]
  <2>1. x \in CallType /\ call' = [call EXCEPT ![c] = x] /\ call'[c] = x
    BY <1>2, <1>4 DEF IInv, TypeOK, CallType
  <2>2. CallInv(c)'
    BY <1>2, <2>1 DEF CallInv, RequestInv, RefsInv, CreateInv, DeleteInv,
       CreatePcs, MappingPcs, DeletePcs, Busy, Clones, CallType
  <2> QED BY <1>2, <1>4, <2>1, <2>2, MoveStep, FaultsTyped DEF IInv
<1> QED BY <1>1, <1>3, <1>4 DEF Pick, clusterVars

LEMMA LookupLunStep ==
    ASSUME IInv, NEW c \in Calls, LookupLun(c)
    PROVE  IInv'
<1>1. PICK r \in call[c].refs, o \in Answered :
        /\ Outcome("LunLookup", o)
        /\ IF o = "ok" /\ LiveLun(r.lun) /\ Matches(c, r.lun)
             THEN FoundVolume(c, r)
             ELSE /\ call' = [call EXCEPT ![c].refs = @ \ {r}]
                  /\ UNCHANGED clusterVars
  BY DEF LookupLun
<1>2. /\ UNCHANGED dsmVars /\ UNCHANGED dsms /\ call[c].pc = "List" /\ Busy(c)
      /\ call \in [Calls -> CallType] /\ call[c] \in CallType
      /\ faults' \in 0..MaxFaults
  BY <1>1, FaultsTyped DEF LookupLun, At, IInv, TypeOK, dsmVars, Busy
<1>3. /\ r.lun \in Uuids /\ r.target \in Tids /\ r.only \in BOOLEAN
      /\ lun[r.lun] \in LunType
  BY <1>2 DEF CallType, RefType, IInv, TypeOK
<1>4. RequestInv(c) /\ RefsInv(c)
  BY DEF IInv, CallInv
<1>5. ASSUME call' = [call EXCEPT ![c].refs = @ \ {r}], UNCHANGED clusterVars
      PROVE  IInv'
  <2> DEFINE x == [call[c] EXCEPT !.refs = @ \ {r}]
  <2>1. x \in CallType /\ call' = [call EXCEPT ![c] = x] /\ call'[c] = x
    BY <1>2, <1>5 DEF CallType
  <2>2. RefsInv(c)'
    BY <1>2, <1>4, <1>5, <2>1, UsableUnchanged DEF RefsInv, dsmVars, clusterVars, BornLun,
       BornTarget, Kept, Usable, TargetsOf, LiveTarget
  <2>3. RequestInv(c)' /\ CreateInv(c)' /\ DeleteInv(c)'
    BY <1>2, <1>4, <1>5, <2>1 DEF RequestInv, CreateInv, DeleteInv, CreatePcs,
       MappingPcs, DeletePcs, Busy, Clones, clusterVars, Kept
  <2> QED BY <1>2, <1>5, <2>1, <2>2, <2>3, MoveStep DEF CallInv
<1>6. ASSUME LiveLun(r.lun), Matches(c, r.lun), FoundVolume(c, r)
      PROVE  IInv'
  <2>1. CASE Refuse(c)
    BY <2>1, <1>2, EndStep
  <2>2. CASE call[c].byName /\ CreateDone(c, r.lun)
    <3>1. lun[r.lun].name = call[c].name
      BY <1>6, <2>2 DEF Matches
    <3>2. Kept(call[c].name) => Usable(call[c].name, r.lun)
      BY <3>1, <1>4 DEF RefsInv
    <3> QED BY <2>2, <3>2, <1>2, <1>3, BindStep
  <2>3. ASSUME call[c].op = "create", ~call[c].byName, UNCHANGED clusterVars,
               call' = [call EXCEPT ![c].pc = "LunClone", ![c].refs = {}, ![c].todo = {},
                                    ![c].host = lun[r.lun].dsm]
        PROVE  IInv'
    <3> DEFINE x == [call[c] EXCEPT !.pc = "LunClone", !.refs = {}, !.todo = {},
                                    !.host = lun[r.lun].dsm]
    <3>1. lun[r.lun].dsm \in Dsms \cup {None}
      BY <1>3 DEF LunType
    <3>2. x \in CallType
      BY <1>2, <3>1 DEF CallType
    <3>3. call' = [call EXCEPT ![c] = x] /\ call'[c] = x
      BY <1>2, <2>3
    <3>4. CallInv(c)'
      BY <1>2, <1>4, <2>3, <3>3 DEF CallInv, RequestInv, RefsInv, CreateInv, DeleteInv,
         CreatePcs, MappingPcs, DeletePcs, Busy, Clones, clusterVars, Kept
    <3> QED BY <1>2, <2>3, <3>2, <3>3, <3>4, MoveStep
  <2>4. ASSUME call[c].op = "delete", UNCHANGED clusterVars,
               call' = [call EXCEPT ![c].pc = "LunDelete", ![c].refs = {},
                          ![c].todo = {}, ![c].lun = r.lun,
                          ![c].target = r.target, ![c].only = r.only]
        PROVE  IInv'
    <3> DEFINE x == [call[c] EXCEPT !.pc = "LunDelete", !.refs = {}, !.todo = {},
                          !.lun = r.lun, !.target = r.target, !.only = r.only]
    <3>1. x \in CallType
      BY <1>2, <1>3 DEF CallType
    <3>2. call' = [call EXCEPT ![c] = x] /\ call'[c] = x
      BY <1>2, <2>4
    <3>3. ~call[c].byName /\ r.lun = call[c].id
      BY <1>2, <1>4, <1>6, <2>4 DEF Matches, RequestInv
    <3>4. lun[r.lun].name = call[c].name
      BY <1>2, <1>4, <2>4, <3>3 DEF RequestInv, PhaseInv, IInv, Kept
    <3>5. BornTarget(r.target) /\ target[r.target].name = call[c].name
      BY <1>4, <3>4 DEF RefsInv
    <3>6. CallInv(c)'
      BY SMTT(20), <1>2, <1>3, <1>4, <2>4, <3>2, <3>3, <3>5 DEF CallInv, RequestInv, RefsInv, CreateInv,
         DeleteInv, CreatePcs, MappingPcs, DeletePcs, Busy, Clones, clusterVars, Kept,
         dsmVars, BornTarget
    <3> QED BY <1>2, <2>4, <3>1, <3>2, <3>6, MoveStep
  <2>5. ASSUME call[c].op = "expand", UNCHANGED clusterVars,
               call' = [call EXCEPT ![c].pc = "LunUpdate", ![c].refs = {},
                                    ![c].todo = {}, ![c].lun = r.lun]
        PROVE  IInv'
    <3> DEFINE x == [call[c] EXCEPT !.pc = "LunUpdate", !.refs = {}, !.todo = {}, !.lun = r.lun]
    <3>1. x \in CallType
      BY <1>2, <1>3 DEF CallType
    <3>2. call' = [call EXCEPT ![c] = x] /\ call'[c] = x
      BY <1>2, <2>5
    <3>3. CallInv(c)'
      BY <1>2, <1>3, <1>4, <2>5, <3>2 DEF CallInv, RequestInv, RefsInv, CreateInv,
         DeleteInv, CreatePcs, MappingPcs, DeletePcs, Busy, Clones, clusterVars, Kept
    <3> QED BY <1>2, <2>5, <3>1, <3>2, <3>3, MoveStep
  <2> QED BY <1>6, <2>1, <2>2, <2>3, <2>4, <2>5 DEF FoundVolume, CreateReply, WouldShrink
<1> QED BY <1>1, <1>5, <1>6

LEMMA ListEndStep ==
    ASSUME IInv, NEW c \in Calls, ListEnd(c)
    PROVE  IInv'
<1>1. /\ UNCHANGED dsmVars /\ UNCHANGED dsms /\ call[c].pc = "List" /\ Busy(c)
      /\ call \in [Calls -> CallType] /\ call[c] \in CallType /\ call[c].refs = {}
      /\ faults' \in 0..MaxFaults /\ NoVolume(c) /\ dsms \subseteq Dsms
  BY FaultsTyped DEF ListEnd, At, IInv, TypeOK, dsmVars, Busy
<1>2. RequestInv(c)
  BY DEF IInv, CallInv
<1>3. CASE Refuse(c)
  BY <1>3, <1>1, EndStep
<1>4. CASE call[c].op = "delete" /\ DeleteDone(c)
  BY <1>4, <1>1, EndStep
<1>6. CASE call[c].byName /\ ~Clones(c) /\ UNCHANGED clusterVars /\
           call' = [call EXCEPT ![c].pc = "Pick", ![c].byName = FALSE, ![c].todo = HostsFor(c)]
  <2> DEFINE x == [call[c] EXCEPT !.pc = "Pick", !.byName = FALSE, !.todo = HostsFor(c)]
  <2>1. HostsFor(c) \in SUBSET Dsms
    BY <1>1 DEF HostsFor
  <2>2. x \in CallType
    BY <1>1, <2>1 DEF CallType
  <2>3. call' = [call EXCEPT ![c] = x] /\ call'[c] = x
    BY <1>1, <1>6
  <2>4. CallInv(c)'
    BY <1>1, <1>2, <1>6, <2>3 DEF CallInv, RequestInv, RefsInv, CreateInv,
       DeleteInv, CreatePcs, MappingPcs, DeletePcs, Busy, Clones, clusterVars, Kept
  <2> QED BY <1>1, <1>6, <2>2, <2>3, <2>4, MoveStep
<1>7. CASE call[c].byName /\ Clones(c) /\ UNCHANGED clusterVars /\
           call' = [call EXCEPT ![c].byName = FALSE, ![c].todo = dsms]
  <2> DEFINE x == [call[c] EXCEPT !.byName = FALSE, !.todo = dsms]
  <2>1. x \in CallType
    BY <1>1 DEF CallType
  <2>2. call' = [call EXCEPT ![c] = x] /\ call'[c] = x
    BY <1>1, <1>7
  <2>3. CallInv(c)'
    BY <1>1, <1>2, <1>7, <2>2 DEF CallInv, RequestInv, RefsInv, CreateInv,
       DeleteInv, CreatePcs, MappingPcs, DeletePcs, Busy, Clones, clusterVars, Kept
  <2> QED BY <1>1, <1>7, <2>1, <2>2, <2>3, MoveStep
<1> QED BY <1>1, <1>3, <1>4, <1>6, <1>7 DEF NoVolume, DeleteNothing

LEMMA WaitCloneStep ==
    ASSUME IInv, NEW c \in Calls, WaitClone(c)
    PROVE  IInv'
<1>1. /\ UNCHANGED dsmVars /\ UNCHANGED dsms /\ call[c].pc = "WaitClone" /\ Busy(c)
      /\ call \in [Calls -> CallType] /\ call[c] \in CallType /\ RequestInv(c)
      /\ faults' \in 0..MaxFaults
  BY FaultsTyped DEF WaitClone, At, IInv, TypeOK, dsmVars, Busy, CallInv
<1>2. CASE Refuse(c)
  BY <1>1, <1>2, EndStep
<1>3. CASE /\ \E u \in LunsNamed(call[c].host, call[c].name) : lun[u].st = "ready"
           /\ Goto(c, "LunGet") /\ UNCHANGED clusterVars
  <2> DEFINE x == [call[c] EXCEPT !.pc = "LunGet"]
  <2>1. x \in CallType
    BY <1>1 DEF CallType
  <2>2. call' = [call EXCEPT ![c] = x] /\ call'[c] = x
    BY <1>1, <1>3 DEF Goto
  <2>3. RequestInv(c)' /\ RefsInv(c)' /\ DeleteInv(c)'
    BY <1>1, <1>3, <2>2 DEF RequestInv, RefsInv, DeleteInv, CreatePcs, DeletePcs, Busy,
       Clones, clusterVars, Kept
  <2>4. CreateInv(c)'
    BY <1>1, <1>3, <2>2 DEF CreateInv, MappingPcs, LunsNamed, LiveLun, dsmVars
  <2> QED BY <1>1, <1>3, <2>1, <2>2, <2>3, <2>4, MoveStep DEF CallInv
<1> QED BY <1>2, <1>3 DEF WaitClone, clusterVars

LEMMA LunGetStep ==
    ASSUME IInv, NEW c \in Calls, LunGet(c)
    PROVE  IInv'
<1>1. /\ UNCHANGED dsmVars /\ UNCHANGED dsms /\ call[c].pc = "LunGet" /\ Busy(c)
      /\ call \in [Calls -> CallType] /\ call[c] \in CallType /\ RequestInv(c)
      /\ faults' \in 0..MaxFaults
  BY FaultsTyped DEF LunGet, At, IInv, TypeOK, dsmVars, Busy, CallInv
<1>2. CASE CreateStepFails(c)
  BY <1>1, <1>2, FailStep DEF CreatePcs
<1>3. ASSUME NEW u \in LunsNamed(call[c].host, call[c].name), UNCHANGED clusterVars,
             call' = [call EXCEPT ![c].pc = "TargetCreate", ![c].lun = u,
                                    ![c].lunSize = lun[u].size]
      PROVE  IInv'
  <2> DEFINE x == [call[c] EXCEPT !.pc = "TargetCreate", !.lun = u, !.lunSize = lun[u].size]
  <2>1. u \in Uuids /\ LiveLun(u) /\ lun[u].name = call[c].name
        /\ lun[u].dsm = call[c].host /\ lun[u].size \in Nat
    BY DEF LunsNamed, IInv, TypeOK, LunType
  <2>2. x \in CallType
    BY <1>1, <2>1 DEF CallType
  <2>3. call' = [call EXCEPT ![c] = x] /\ call'[c] = x
    BY <1>1, <1>3
  <2>4. RequestInv(c)' /\ RefsInv(c)' /\ DeleteInv(c)'
    BY <1>1, <1>3, <2>3 DEF RequestInv, RefsInv, DeleteInv, CreatePcs, DeletePcs, Busy,
       Clones, clusterVars, Kept
  <2>5. Kept(call[c].name) => lun[u].st = "ready"
    <3>1. CASE Clones(c)
      BY <1>1, <2>1, <3>1 DEF IInv, CallInv, CreateInv, LunInv, LunsNamed
    <3>2. CASE ~Clones(c)
      BY <2>1, <3>2 DEF IInv, LunInv, LiveLun, Clones
    <3> QED BY <3>1, <3>2
  <2>6. CreateInv(c)'
    BY <1>1, <1>3, <2>1, <2>3, <2>5 DEF CreateInv, MappingPcs, LiveLun, dsmVars,
       clusterVars, BornLun, Kept
  <2> QED BY <1>1, <1>3, <2>2, <2>3, <2>4, <2>6, MoveStep DEF CallInv
<1> QED BY <1>2, <1>3 DEF LunGet, clusterVars

LEMMA TargetGetStep ==
    ASSUME IInv, NEW c \in Calls, TargetGet(c)
    PROVE  IInv'
<1>1. /\ UNCHANGED dsmVars /\ UNCHANGED dsms /\ call[c].pc = "TargetGet" /\ Busy(c)
      /\ call \in [Calls -> CallType] /\ call[c] \in CallType
      /\ RequestInv(c) /\ CreateInv(c) /\ faults' \in 0..MaxFaults
  BY FaultsTyped DEF TargetGet, At, IInv, TypeOK, dsmVars, Busy, CallInv
<1>2. CASE CreateStepFails(c)
  BY <1>1, <1>2, FailStep DEF CreatePcs
<1>3. ASSUME NEW t \in TargetsNamed(call[c].host, call[c].name), UNCHANGED clusterVars,
             NEW p \in {"TargetSet", "LunMapTarget"},
             p = "LunMapTarget" => ~Request[call[c].name].multiSession,
             call' = [call EXCEPT ![c].pc = p, ![c].target = t]
      PROVE  IInv'
  <2> DEFINE x == [call[c] EXCEPT !.pc = p, !.target = t]
  <2>1. t \in Tids /\ LiveTarget(t) /\ target[t].name = call[c].name
    BY DEF TargetsNamed
  <2>2. x \in CallType
    BY <1>1, <2>1 DEF CallType
  <2>3. call' = [call EXCEPT ![c] = x] /\ call'[c] = x
    BY <1>1, <1>3
  <2>4. RequestInv(c)' /\ RefsInv(c)' /\ DeleteInv(c)'
    BY <1>1, <1>3, <2>3 DEF RequestInv, RefsInv, DeleteInv, CreatePcs, DeletePcs, Busy,
       Clones, clusterVars, Kept
  <2>5. CreateInv(c)'
    BY <1>1, <1>3, <2>1, <2>3 DEF CreateInv, MappingPcs, LiveTarget, dsmVars,
       clusterVars, BornLun, BornTarget, Kept
  <2> QED BY <1>1, <1>3, <2>2, <2>3, <2>4, <2>5, MoveStep DEF CallInv
<1> QED BY <1>2, <1>3 DEF TargetGet, clusterVars

LEMMA CheckSteps ==
    ASSUME IInv, NEW c \in Calls, LunCheck(c) \/ TargetCheck(c)
    PROVE  IInv'
<1>1. /\ UNCHANGED dsmVars /\ UNCHANGED dsms /\ call[c].pc \in DeletePcs /\ Busy(c)
      /\ RequestInv(c) /\ faults' \in 0..MaxFaults
  BY FaultsTyped DEF LunCheck, TargetCheck, At, IInv, dsmVars, Busy, CallInv, DeletePcs
<1>2. call[c].op = "delete" /\ (Refuse(c) \/ DeleteDone(c))
  BY <1>1 DEF LunCheck, TargetCheck, RequestInv
<1> QED BY <1>1, <1>2, EndStep

-----------------------------------------------------------------------------
(* What each kind of change on a DSM preserves.                            *)

LEMMA NewLunEffect ==
    ASSUME IInv, PhaseMonotone, UNCHANGED target,
           NEW u \in UnbornLuns, NEW st \in {"ready", "cloning"},
           NEW d \in Dsms \cup {None}, NEW n \in Names, NEW size \in Nat,
           LunsNamed(d, n) = {}, st = "cloning" => Request[n].source # None,
           NewLun(u, st, d, n, size)
    PROVE  lun' \in [Uuids -> LunType] /\ LunInv' /\ TargetInv' /\ Monotone
<1>1. /\ u \in Uuids /\ lun[u].st = "unborn" /\ lun \in [Uuids -> LunType]
      /\ target \in [Tids -> TargetType]
  BY DEF UnbornLuns, IInv, TypeOK
<1>2. lun' \in [Uuids -> LunType]
  BY <1>1 DEF NewLun, LunType
<1>3. /\ lun'[u] = [st |-> st, dsm |-> d, name |-> n, size |-> size]
      /\ \A v \in Uuids : v # u => lun'[v] = lun[v]
  BY <1>1 DEF NewLun
<1>4. \A t \in Tids : u \notin target[t].luns
  BY <1>1 DEF IInv, TargetInv, BornLun
<1>5. LunInv'
  <2>1. \A v \in Uuids : BornLun(v)' => lun'[v].name \in Names
    BY <1>1, <1>3 DEF IInv, LunInv, BornLun
  <2>2. \A v \in Uuids : lun'[v].st = "cloning" => Request[lun'[v].name].source # None
    BY <1>1, <1>3 DEF IInv, LunInv
  <2>3. \A v, w \in Uuids : /\ LiveLun(v)' /\ LiveLun(w)'
                            /\ lun'[v].dsm = lun'[w].dsm /\ lun'[v].name = lun'[w].name
                            => v = w
    BY <1>1, <1>3 DEF IInv, LunInv, LiveLun, LunsNamed
  <2> QED BY <2>1, <2>2, <2>3 DEF LunInv
<1>6. TargetInv'
  BY <1>1, <1>3, <1>4 DEF IInv, LunInv, TargetInv, TargetType, BornLun, LiveTarget, PhaseMonotone
<1>7. Monotone
  BY <1>1, <1>3 DEF Monotone, BornLun, BornTarget, Usable, TargetsOf, LiveTarget
<1> QED BY <1>2, <1>5, <1>6, <1>7

LEMMA CloneDoneStep ==
    ASSUME IInv, NEW u \in Uuids, CloneDone(u)
    PROVE  IInv'
<1>1. /\ lun \in [Uuids -> LunType] /\ target \in [Tids -> TargetType]
      /\ lun[u].st = "cloning" /\ lun'[u] = [lun[u] EXCEPT !.st = "ready"]
      /\ \A v \in Uuids : v # u => lun'[v] = lun[v]
      /\ UNCHANGED <<target, dsms, call, clusterVars, faults>>
  BY DEF CloneDone, IInv, TypeOK, clusterVars
<1>2. \A v \in Uuids : /\ lun'[v].name = lun[v].name /\ lun'[v].dsm = lun[v].dsm
                       /\ BornLun(v)' <=> BornLun(v)
                       /\ LiveLun(v)' <=> LiveLun(v)
                       /\ lun[v].st = "ready" => lun'[v].st = "ready"
                       /\ lun'[v].st = "cloning" => lun[v].st = "cloning"
  BY <1>1 DEF LunType, BornLun, LiveLun
<1>3. TypeOK'
  BY <1>1 DEF IInv, TypeOK, clusterVars, CloneDone, LunType
<1>4. LunInv'
  BY <1>2 DEF IInv, LunInv
<1>5. TargetInv'
  BY <1>1, <1>2 DEF IInv, TargetInv, TargetType, LiveTarget, clusterVars, Kept
<1>6. Monotone
  BY <1>1, <1>2 DEF Monotone, PhaseMonotone, BornTarget, Usable, TargetsOf, LiveTarget, clusterVars, Kept
<1>7. BindsUsable
  BY <1>1 DEF BindsUsable, clusterVars
<1>8. \A c \in Calls : CallInv(c)'
  BY <1>1, <1>6, OtherCall DEF IInv
<1> QED BY <1>3, <1>4, <1>5, <1>6, <1>7, <1>8, ClusterKept DEF IInv

LEMMA NewTargetEffect ==
    ASSUME IInv, PhaseMonotone, UNCHANGED lun,
           NEW t \in UnbornTargets, NEW d \in Dsms \cup {None}, NEW n \in Names,
           target' = [target EXCEPT ![t] = [st |-> "live", dsm |-> d, name |-> n,
                                            multiSession |-> FALSE, luns |-> {}]]
    PROVE  target' \in [Tids -> TargetType] /\ LunInv' /\ TargetInv' /\ Monotone
<1>1. /\ t \in Tids /\ target[t].st = "unborn" /\ target \in [Tids -> TargetType]
  BY DEF UnbornTargets, IInv, TypeOK
<1>2. target' \in [Tids -> TargetType]
  BY <1>1 DEF TargetType
<1>3. /\ target'[t] = [st |-> "live", dsm |-> d, name |-> n, multiSession |-> FALSE, luns |-> {}]
      /\ \A s \in Tids : s # t => target'[s] = target[s]
  BY <1>1
<1>4. LunInv'
  BY DEF IInv, LunInv, BornLun, LiveLun
<1>5. TargetInv'
  BY <1>1, <1>3 DEF IInv, LunInv, TargetInv, TargetType, BornLun, LiveTarget, PhaseMonotone
<1>6. Monotone
  BY <1>1, <1>3 DEF Monotone, BornLun, BornTarget, Usable, TargetsOf, LiveTarget
<1> QED BY <1>2, <1>4, <1>5, <1>6

LEMMA OpenTargetEffect ==
    ASSUME IInv, PhaseMonotone, UNCHANGED lun, NEW t \in Tids,
           target' = [target EXCEPT ![t].multiSession = TRUE]
    PROVE  target' \in [Tids -> TargetType] /\ LunInv' /\ TargetInv' /\ Monotone
<1>1. target \in [Tids -> TargetType]
  BY DEF IInv, TypeOK
<1>2. target' \in [Tids -> TargetType]
  BY <1>1 DEF TargetType
<1>3. \A s \in Tids : /\ target'[s].st = target[s].st /\ target'[s].name = target[s].name
                      /\ target'[s].luns = target[s].luns
                      /\ target[s].multiSession => target'[s].multiSession
  BY <1>1 DEF TargetType
<1>4. LunInv'
  BY DEF IInv, LunInv, BornLun, LiveLun
<1>5. TargetInv'
  BY <1>1, <1>3 DEF IInv, LunInv, TargetInv, TargetType, BornLun, LiveTarget, PhaseMonotone
<1>6. Monotone
  BY <1>1, <1>3 DEF Monotone, BornLun, BornTarget, Usable, TargetsOf, LiveTarget
<1> QED BY <1>2, <1>4, <1>5, <1>6

LEMMA MapEffect ==
    ASSUME IInv, PhaseMonotone, UNCHANGED lun, NEW t \in Tids, NEW u \in Uuids,
           LiveTarget(t), LiveLun(u), target[t].name = lun[u].name,
           Request[lun[u].name].multiSession => target[t].multiSession,
           Kept(lun[u].name) => lun[u].st = "ready",
           target' = [target EXCEPT ![t].luns = @ \cup {u}]
    PROVE  /\ target' \in [Tids -> TargetType] /\ LunInv' /\ TargetInv' /\ Monotone
           /\ LiveTarget(t)' /\ u \in target'[t].luns
           /\ target'[t].multiSession = target[t].multiSession
<1>1. target \in [Tids -> TargetType]
  BY DEF IInv, TypeOK
<1>2. target' \in [Tids -> TargetType]
  BY <1>1 DEF TargetType
<1>3. \A s \in Tids : /\ target'[s].st = target[s].st /\ target'[s].name = target[s].name
                      /\ target'[s].luns = IF s = t THEN target[s].luns \cup {u} ELSE target[s].luns
                      /\ target'[s].multiSession = target[s].multiSession
  BY <1>1 DEF TargetType
<1>4. LunInv'
  BY DEF IInv, LunInv, BornLun, LiveLun
<1>5. TargetInv'
  <2> SUFFICES ASSUME NEW s \in Tids, NEW v \in target'[s].luns
               PROVE  /\ LiveTarget(s)' /\ BornLun(v)'
                      /\ target'[s].name = lun'[v].name
                      /\ Request[lun'[v].name].multiSession => target'[s].multiSession
                      /\ Kept(lun[v].name)' => lun'[v].st = "ready"
    BY DEF TargetInv
  <2>1. v \in Uuids
    BY <1>2 DEF TargetType
  <2>2. CASE v \in target[s].luns
    BY <1>3, <2>1, <2>2 DEF IInv, TargetInv, LunInv, LiveTarget, BornLun, PhaseMonotone
  <2>3. CASE s = t /\ v = u
    BY <1>3, <2>3 DEF IInv, LunInv, LiveTarget, LiveLun, BornLun, PhaseMonotone
  <2> QED BY <1>3, <2>2, <2>3
<1>6. Monotone
  BY <1>1, <1>3 DEF Monotone, BornLun, BornTarget, Usable, TargetsOf, LiveTarget
<1> QED BY <1>2, <1>3, <1>4, <1>5, <1>6 DEF LiveTarget

LEMMA DeleteLunEffect ==
    ASSUME IInv, PhaseMonotone, NEW u \in Uuids, LiveLun(u), ~Kept(lun[u].name),
           lun' = [lun EXCEPT ![u].st = "deleted"], target' = Unmap(u)
    PROVE  /\ lun' \in [Uuids -> LunType] /\ target' \in [Tids -> TargetType]
           /\ LunInv' /\ TargetInv' /\ Monotone
<1>1. lun \in [Uuids -> LunType] /\ target \in [Tids -> TargetType]
  BY DEF IInv, TypeOK
<1>2. lun' \in [Uuids -> LunType]
  BY <1>1 DEF LunType
<1>3. target' \in [Tids -> TargetType]
  BY ZenonT(30), <1>1 DEF TargetType, Unmap
<1>4. \A v \in Uuids : /\ lun'[v].name = lun[v].name /\ lun'[v].dsm = lun[v].dsm
                       /\ lun'[v].st = IF v = u THEN "deleted" ELSE lun[v].st
  BY <1>1 DEF LunType
<1>5. \A s \in Tids : /\ target'[s].st = target[s].st /\ target'[s].name = target[s].name
                      /\ target'[s].luns = target[s].luns \ {u}
                      /\ target'[s].multiSession = target[s].multiSession
  BY <1>1 DEF TargetType, Unmap
<1>6. LunInv'
  BY <1>4 DEF IInv, LunInv, BornLun, LiveLun
<1>7. TargetInv'
  BY <1>1, <1>4, <1>5 DEF IInv, LunInv, TargetInv, TargetType, BornLun, LiveTarget, PhaseMonotone
<1>8. lun[u].name \in Names
  BY DEF IInv, LunInv, LiveLun, BornLun
<1>9. Monotone
  BY <1>4, <1>5, <1>8 DEF Monotone, PhaseMonotone, LiveLun, BornLun, BornTarget, Usable, TargetsOf, LiveTarget
<1> QED BY <1>2, <1>3, <1>6, <1>7, <1>9

LEMMA DeleteTargetEffect ==
    ASSUME IInv, PhaseMonotone, UNCHANGED lun, NEW t \in Tids, LiveTarget(t),
           ~Kept(target[t].name), target[t].name \in Names,
           target' = [target EXCEPT ![t].st = "deleted", ![t].luns = {}]
    PROVE  target' \in [Tids -> TargetType] /\ LunInv' /\ TargetInv' /\ Monotone
<1>1. target \in [Tids -> TargetType]
  BY DEF IInv, TypeOK
<1>2. target' \in [Tids -> TargetType]
  BY ZenonT(30), <1>1 DEF TargetType
<1>3. \A s \in Tids : /\ target'[s].st = IF s = t THEN "deleted" ELSE target[s].st
                      /\ target'[s].name = target[s].name
                      /\ target'[s].luns = IF s = t THEN {} ELSE target[s].luns
                      /\ target'[s].multiSession = target[s].multiSession
  BY <1>1 DEF TargetType
<1>4. LunInv'
  BY DEF IInv, LunInv, BornLun, LiveLun
<1>5. TargetInv'
  BY <1>1, <1>3 DEF IInv, LunInv, TargetInv, TargetType, BornLun, LiveTarget, PhaseMonotone
<1>6. \A v \in target[t].luns : lun[v].name = target[t].name
  BY DEF IInv, TargetInv
<1>7. ASSUME NEW n \in Names, NEW u \in Uuids, Kept(n)', Usable(n, u)
      PROVE  Usable(n, u)'
  <2>1. PICK s \in TargetsOf(u) : Request[n].multiSession => target[s].multiSession
    BY <1>7 DEF Usable
  <2>2. s # t
    BY <2>1, <1>6, <1>7 DEF Usable, TargetsOf, PhaseMonotone
  <2>3. s \in Tids /\ LiveTarget(s) /\ u \in target[s].luns
    BY <2>1 DEF TargetsOf
  <2>4. /\ s \in TargetsOf(u)'
        /\ target'[s].multiSession = target[s].multiSession
    BY <2>2, <2>3, <1>3 DEF TargetsOf, LiveTarget
  <2>5. lun'[u].st = "ready" /\ lun'[u].name = n
    BY <1>7 DEF Usable
  <2> QED BY <2>1, <2>4, <2>5 DEF Usable
<1>8. \A u \in Uuids : lun'[u] = lun[u] /\ (BornLun(u) => BornLun(u)')
  BY DEF BornLun
<1>9. \A s \in Tids : BornTarget(s) => BornTarget(s)'
  BY <1>1, <1>3 DEF BornTarget, TargetType
<1>10. Monotone
  BY <1>3, <1>7, <1>8, <1>9 DEF Monotone
<1> QED BY <1>2, <1>4, <1>5, <1>10

LEMMA ResizeEffect ==
    ASSUME IInv, PhaseMonotone, UNCHANGED target, NEW u \in Uuids, NEW size \in Nat,
           lun' = [lun EXCEPT ![u].size = size]
    PROVE  lun' \in [Uuids -> LunType] /\ LunInv' /\ TargetInv' /\ Monotone
<1>1. lun \in [Uuids -> LunType] /\ target \in [Tids -> TargetType]
  BY DEF IInv, TypeOK
<1>2. lun' \in [Uuids -> LunType]
  BY <1>1 DEF LunType
<1>3. \A v \in Uuids : /\ lun'[v].name = lun[v].name /\ lun'[v].dsm = lun[v].dsm
                       /\ lun'[v].st = lun[v].st
  BY <1>1 DEF LunType
<1>4. LunInv'
  BY <1>3 DEF IInv, LunInv, BornLun, LiveLun
<1>5. TargetInv'
  BY <1>1, <1>3 DEF IInv, LunInv, TargetInv, TargetType, BornLun, LiveTarget, PhaseMonotone
<1>6. Monotone
  BY <1>3 DEF Monotone, BornLun, BornTarget, Usable, TargetsOf, LiveTarget
<1> QED BY <1>2, <1>4, <1>5, <1>6

-----------------------------------------------------------------------------
(* The steps that change a DSM.                                            *)

\* A handler's step from its parts: the effect on the DSMs, on the cluster's
\* view and on the handler itself.
LEMMA EffectStep ==
    ASSUME IInv, lun' \in [Uuids -> LunType], target' \in [Tids -> TargetType],
           UNCHANGED dsms, LunInv', TargetInv', Monotone, Settles,
           faults' \in 0..MaxFaults, NEW c \in Calls,
           \E x \in CallType : call' = [call EXCEPT ![c] = x], CallInv(c)'
    PROVE  IInv'
<1>1. TypeOK'
  BY DEF IInv, TypeOK, Settles
<1>2. BindsUsable
  BY DEF BindsUsable, Settles
<1>3. \A d \in Calls : d # c => call'[d] = call[d]
  BY DEF IInv, TypeOK
<1> QED BY <1>1, <1>2, <1>3, StepOf

LEMMA SettlesMonotone ==
    ASSUME Settles PROVE PhaseMonotone
BY DEF Settles, PhaseMonotone

LEMMA Unsettled ==
    ASSUME IInv, UNCHANGED clusterVars PROVE Settles
BY DEF IInv, TypeOK, Settles, clusterVars, Kept

\* A DSM that did not change keeps its part of the invariant.
LEMMA NoEffect ==
    ASSUME IInv, UNCHANGED dsmVars, PhaseMonotone
    PROVE  /\ lun' \in [Uuids -> LunType] /\ target' \in [Tids -> TargetType]
           /\ LunInv' /\ TargetInv' /\ Monotone
<1>1. LunInv' /\ TargetInv'
  BY DsmUnchanged DEF PhaseMonotone
<1>2. Monotone
  BY UsableUnchanged DEF Monotone, dsmVars, BornLun, BornTarget
<1> QED BY <1>1, <1>2 DEF IInv, TypeOK, dsmVars

LEMMA LunCreateStep ==
    ASSUME IInv, NEW c \in Calls, LunCreate(c)
    PROVE  IInv'
<1> DEFINE d == call[c].host
           n == call[c].name
<1>1. /\ UNCHANGED target /\ UNCHANGED dsms /\ call[c].pc = "LunCreate" /\ Busy(c)
      /\ call \in [Calls -> CallType] /\ call[c] \in CallType
      /\ RequestInv(c) /\ faults' \in 0..MaxFaults
  BY FaultsTyped DEF LunCreate, At, IInv, TypeOK, Busy, CallInv
<1>2. \/ UNCHANGED lun
      \/ LunsNamed(d, n) = {} /\ \E u \in UnbornLuns : NewLun(u, "ready", d, n, call[c].size)
  BY DEF LunCreate
<1>3. CreateStepFails(c) \/ (Goto(c, "LunGet") /\ UNCHANGED clusterVars)
  BY DEF LunCreate
<1>4. /\ Settles
      /\ \E x \in CallType : call' = [call EXCEPT ![c] = x]
      /\ CallInv(c)'
  <2>1. CASE CreateStepFails(c)
    BY <1>1, <2>1, FailedStep DEF CreatePcs
  <2>2. CASE Goto(c, "LunGet") /\ UNCHANGED clusterVars
    <3> DEFINE x == [call[c] EXCEPT !.pc = "LunGet"]
    <3>1. x \in CallType /\ call' = [call EXCEPT ![c] = x] /\ call'[c] = x
      BY <1>1, <2>2 DEF Goto, CallType
    <3>2. CallInv(c)'
      BY <1>1, <2>2, <3>1 DEF CallInv, RequestInv, RefsInv, CreateInv, DeleteInv,
         CreatePcs, MappingPcs, DeletePcs, Busy, Clones, clusterVars, Kept
    <3> QED BY <2>2, <3>1, <3>2, Unsettled
  <2> QED BY <1>3, <2>1, <2>2
<1>5. d \in Dsms \cup {None} /\ n \in Names /\ call[c].size \in Nat
  BY <1>1 DEF CallType, RequestInv
<1>6. /\ lun' \in [Uuids -> LunType] /\ target' \in [Tids -> TargetType]
      /\ LunInv' /\ TargetInv' /\ Monotone
  <2>1. PhaseMonotone
    BY <1>4, SettlesMonotone
  <2>2. CASE UNCHANGED lun
    BY <1>1, <2>1, <2>2, NoEffect DEF dsmVars
  <2>3. ASSUME LunsNamed(d, n) = {}, NEW u \in UnbornLuns, NewLun(u, "ready", d, n, call[c].size)
        PROVE  lun' \in [Uuids -> LunType] /\ LunInv' /\ TargetInv' /\ Monotone
    BY <1>1, <1>5, <2>1, <2>3, NewLunEffect
  <2> QED BY <1>1, <1>2, <2>2, <2>3 DEF IInv, TypeOK
<1> QED BY <1>1, <1>4, <1>6, EffectStep

LEMMA LunCloneStep ==
    ASSUME IInv, NEW c \in Calls, LunClone(c)
    PROVE  IInv'
<1> DEFINE d == call[c].host
           n == call[c].name
           size == lun[call[c].id].size
<1>1. /\ UNCHANGED target /\ UNCHANGED dsms /\ call[c].pc = "LunClone" /\ Busy(c)
      /\ call \in [Calls -> CallType] /\ call[c] \in CallType
      /\ RequestInv(c) /\ faults' \in 0..MaxFaults
  BY FaultsTyped DEF LunClone, At, IInv, TypeOK, Busy, CallInv
<1>2. \/ UNCHANGED lun
      \/ LunsNamed(d, n) = {} /\ \E u \in UnbornLuns : NewLun(u, "cloning", d, n, size)
  BY DEF LunClone
<1>3. Refuse(c) \/ (Goto(c, "WaitClone") /\ UNCHANGED clusterVars)
  BY DEF LunClone
<1>4. /\ Settles
      /\ \E x \in CallType : call' = [call EXCEPT ![c] = x]
      /\ CallInv(c)'
  <2>1. CASE Refuse(c)
    BY <1>1, <2>1, Endings, IdleCallType
  <2>2. CASE Goto(c, "WaitClone") /\ UNCHANGED clusterVars
    <3> DEFINE x == [call[c] EXCEPT !.pc = "WaitClone"]
    <3>1. x \in CallType /\ call' = [call EXCEPT ![c] = x] /\ call'[c] = x
      BY <1>1, <2>2 DEF Goto, CallType
    <3>2. CallInv(c)'
      BY <1>1, <2>2, <3>1 DEF CallInv, RequestInv, RefsInv, CreateInv, DeleteInv,
         CreatePcs, MappingPcs, DeletePcs, Busy, Clones, clusterVars, Kept
    <3> QED BY <2>2, <3>1, <3>2, Unsettled
  <2> QED BY <1>3, <2>1, <2>2
<1>5. /\ d \in Dsms \cup {None} /\ n \in Names /\ size \in Nat
      /\ Request[n].source # None
  BY <1>1 DEF CallType, RequestInv, CreatePcs, Clones, IInv, TypeOK, LunType
<1>6. /\ lun' \in [Uuids -> LunType] /\ target' \in [Tids -> TargetType]
      /\ LunInv' /\ TargetInv' /\ Monotone
  <2>1. PhaseMonotone
    BY <1>4, SettlesMonotone
  <2>2. CASE UNCHANGED lun
    BY <1>1, <2>1, <2>2, NoEffect DEF dsmVars
  <2>3. ASSUME LunsNamed(d, n) = {}, NEW u \in UnbornLuns, NewLun(u, "cloning", d, n, size)
        PROVE  lun' \in [Uuids -> LunType] /\ LunInv' /\ TargetInv' /\ Monotone
    BY <1>1, <1>5, <2>1, <2>3, NewLunEffect
  <2> QED BY <1>1, <1>2, <2>2, <2>3 DEF IInv, TypeOK
<1> QED BY <1>1, <1>4, <1>6, EffectStep

LEMMA TargetCreateStep ==
    ASSUME IInv, NEW c \in Calls, TargetCreate(c)
    PROVE  IInv'
<1> DEFINE d == call[c].host
           n == call[c].name
<1>1. /\ UNCHANGED lun /\ UNCHANGED dsms /\ call[c].pc = "TargetCreate" /\ Busy(c)
      /\ call \in [Calls -> CallType] /\ call[c] \in CallType
      /\ RequestInv(c) /\ CreateInv(c) /\ faults' \in 0..MaxFaults
  BY FaultsTyped DEF TargetCreate, At, IInv, TypeOK, Busy, CallInv
<1>2. \/ UNCHANGED target
      \/ \E t \in UnbornTargets :
           target' = [target EXCEPT ![t] = [st |-> "live", dsm |-> d, name |-> n,
                                            multiSession |-> FALSE, luns |-> {}]]
  BY DEF TargetCreate
<1>3. CreateStepFails(c) \/ (Goto(c, "TargetGet") /\ UNCHANGED clusterVars)
  BY DEF TargetCreate
<1>4. /\ Settles
      /\ \E x \in CallType : call' = [call EXCEPT ![c] = x]
      /\ CallInv(c)'
  <2>1. CASE CreateStepFails(c)
    BY <1>1, <2>1, FailedStep DEF CreatePcs
  <2>2. CASE Goto(c, "TargetGet") /\ UNCHANGED clusterVars
    <3> DEFINE x == [call[c] EXCEPT !.pc = "TargetGet"]
    <3>1. x \in CallType /\ call' = [call EXCEPT ![c] = x] /\ call'[c] = x
      BY <1>1, <2>2 DEF Goto, CallType
    <3>2. CallInv(c)'
      BY <1>1, <2>2, <3>1 DEF CallInv, RequestInv, RefsInv, CreateInv, DeleteInv,
         CreatePcs, MappingPcs, DeletePcs, Busy, Clones, clusterVars, Kept, BornLun
    <3> QED BY <2>2, <3>1, <3>2, Unsettled
  <2> QED BY <1>3, <2>1, <2>2
<1>5. d \in Dsms \cup {None} /\ n \in Names
  BY <1>1 DEF CallType, RequestInv
<1>6. /\ lun' \in [Uuids -> LunType] /\ target' \in [Tids -> TargetType]
      /\ LunInv' /\ TargetInv' /\ Monotone
  <2>1. PhaseMonotone
    BY <1>4, SettlesMonotone
  <2>2. CASE UNCHANGED target
    BY <1>1, <2>1, <2>2, NoEffect DEF dsmVars
  <2>3. ASSUME NEW t \in UnbornTargets,
               target' = [target EXCEPT ![t] = [st |-> "live", dsm |-> d, name |-> n,
                                            multiSession |-> FALSE, luns |-> {}]]
        PROVE  target' \in [Tids -> TargetType] /\ LunInv' /\ TargetInv' /\ Monotone
    BY <1>1, <1>5, <2>1, <2>3, NewTargetEffect
  <2> QED BY <1>1, <1>2, <2>2, <2>3 DEF IInv, TypeOK
<1> QED BY <1>1, <1>4, <1>6, EffectStep

LEMMA TargetSetStep ==
    ASSUME IInv, NEW c \in Calls, TargetSet(c)
    PROVE  IInv'
<1> DEFINE t == call[c].target
<1>1. /\ UNCHANGED lun /\ UNCHANGED dsms /\ call[c].pc = "TargetSet" /\ Busy(c)
      /\ call \in [Calls -> CallType] /\ call[c] \in CallType
      /\ RequestInv(c) /\ CreateInv(c) /\ faults' \in 0..MaxFaults
  BY FaultsTyped DEF TargetSet, At, IInv, TypeOK, Busy, CallInv
<1>2. UNCHANGED target \/ target' = [target EXCEPT ![t].multiSession = TRUE]
  BY DEF TargetSet
<1>3. \/ CreateStepFails(c)
      \/ /\ Goto(c, "LunMapTarget") /\ UNCHANGED clusterVars
         /\ target' = [target EXCEPT ![t].multiSession = TRUE]
  BY DEF TargetSet
<1>4. /\ Settles
      /\ \E x \in CallType : call' = [call EXCEPT ![c] = x]
      /\ CallInv(c)'
  <2>1. CASE CreateStepFails(c)
    BY <1>1, <2>1, FailedStep DEF CreatePcs
  <2>2. CASE /\ Goto(c, "LunMapTarget") /\ UNCHANGED clusterVars
             /\ target' = [target EXCEPT ![t].multiSession = TRUE]
    <3> DEFINE x == [call[c] EXCEPT !.pc = "LunMapTarget"]
    <3>1. x \in CallType /\ call' = [call EXCEPT ![c] = x] /\ call'[c] = x
      BY <1>1, <2>2 DEF Goto, CallType
    <3>2. /\ t \in Tids /\ target'[t].st # "unborn" /\ target'[t].name = call[c].name
          /\ target'[t].multiSession
      <4>1. /\ t \in Tids /\ target[t].st # "unborn" /\ target[t].name = call[c].name
            /\ target[t] \in TargetType /\ target \in [Tids -> TargetType]
        BY <1>1 DEF CreateInv, IInv, TypeOK, BornTarget
      <4>2. target'[t] = [target[t] EXCEPT !.multiSession = TRUE]
        BY <2>2, <4>1
      <4> QED BY <4>1, <4>2, <2>2 DEF TargetType, BornTarget
    <3>3. RequestInv(c)' /\ RefsInv(c)' /\ DeleteInv(c)'
      BY <1>1, <2>2, <3>1 DEF RequestInv, RefsInv, DeleteInv,
         CreatePcs, DeletePcs, Busy, Clones, clusterVars, Kept
    <3>4. CreateInv(c)'
      BY <1>1, <2>2, <3>1, <3>2 DEF CreateInv, MappingPcs, clusterVars, Kept, BornLun, BornTarget
    <3> QED BY <2>2, <3>1, <3>3, <3>4, Unsettled DEF CallInv
  <2> QED BY <1>3, <2>1, <2>2
<1>5. t \in Tids
  BY <1>1 DEF CreateInv
<1>6. PhaseMonotone
  BY <1>4, SettlesMonotone
<1>7. /\ lun' \in [Uuids -> LunType] /\ target' \in [Tids -> TargetType]
      /\ LunInv' /\ TargetInv' /\ Monotone
  <2>1. CASE UNCHANGED target
    BY <1>1, <1>6, <2>1, NoEffect DEF dsmVars
  <2>2. CASE target' = [target EXCEPT ![t].multiSession = TRUE]
    BY <1>1, <1>5, <1>6, <2>2, OpenTargetEffect DEF IInv, TypeOK
  <2> QED BY <1>2, <2>1, <2>2
<1> QED BY <1>1, <1>4, <1>7, EffectStep

LEMMA LunMapTargetStep ==
    ASSUME IInv, NEW c \in Calls, LunMapTarget(c)
    PROVE  IInv'
<1>1. /\ UNCHANGED lun /\ UNCHANGED dsms /\ call[c].pc = "LunMapTarget" /\ Busy(c)
      /\ call \in [Calls -> CallType] /\ call[c] \in CallType
      /\ RequestInv(c) /\ CreateInv(c) /\ faults' \in 0..MaxFaults
  BY FaultsTyped DEF LunMapTarget, At, IInv, TypeOK, Busy, CallInv
<1>2. PICK t \in Tids, u \in Uuids : t = call[c].target /\ u = call[c].lun
  BY <1>1 DEF CreateInv, MappingPcs
<1> DEFINE Map == /\ LiveTarget(t) /\ LiveLun(u)
                  /\ target' = [target EXCEPT ![t].luns = @ \cup {u}]
<1>3. \/ UNCHANGED target /\ CreateStepFails(c)
      \/ Map /\ CreateStepFails(c)
      \/ Map /\ CreateReply(c, u, call[c].lunSize)
  BY <1>2 DEF LunMapTarget
<1>4. /\ lun[u].name = call[c].name /\ target[t].name = call[c].name
      /\ Kept(call[c].name) => lun[u].st = "ready"
      /\ Request[call[c].name].multiSession => target[t].multiSession
  BY <1>1, <1>2 DEF CreateInv, MappingPcs
<1>5. ASSUME Map, PhaseMonotone
      PROVE  /\ lun' \in [Uuids -> LunType] /\ target' \in [Tids -> TargetType]
             /\ LunInv' /\ TargetInv' /\ Monotone
             /\ LiveTarget(t)' /\ u \in target'[t].luns
             /\ target'[t].multiSession = target[t].multiSession
  BY <1>1, <1>4, <1>5, MapEffect DEF IInv, TypeOK
<1> HIDE DEF Map
<1>6. CASE CreateStepFails(c)
  <2>1. Settles /\ (\E x \in CallType : call' = [call EXCEPT ![c] = x]) /\ CallInv(c)'
    BY <1>1, <1>6, FailedStep DEF CreatePcs
  <2>2. PhaseMonotone
    BY <2>1, SettlesMonotone
  <2>3. CASE UNCHANGED target
    BY <1>1, <2>1, <2>2, <2>3, NoEffect, EffectStep DEF dsmVars
  <2>4. CASE Map
    BY <1>1, <1>5, <2>1, <2>2, <2>4, EffectStep
  <2> QED BY <1>3, <2>3, <2>4
<1>7. CASE Map /\ Refuse(c)
  <2>1. Settles /\ call' = [call EXCEPT ![c] = IdleCall] /\ CallInv(c)'
    BY <1>1, <1>7, Endings
  <2>2. PhaseMonotone
    BY <2>1, SettlesMonotone
  <2> QED BY <1>1, <1>5, <1>7, <2>1, <2>2, EffectStep, IdleCallType
<1>8. CASE Map /\ CreateDone(c, u)
  <2>1. /\ call' = [call EXCEPT ![c] = IdleCall] /\ CallInv(c)'
        /\ phase' \in [Names -> {"wanted", "bound", "released", "deleted"}]
        /\ volumeId' \in [Names -> Uuids \cup {None}]
        /\ capacity' \in [Names -> Sizes]
        /\ PhaseMonotone
        /\ \A n \in Names : phase[n] = "wanted" /\ phase'[n] # "wanted" =>
             n = call[c].name /\ volumeId'[n] = u
    BY <1>1, <1>8, Binding DEF PhaseMonotone
  <2>2. /\ lun' \in [Uuids -> LunType] /\ target' \in [Tids -> TargetType]
        /\ LunInv' /\ TargetInv' /\ Monotone
        /\ LiveTarget(t)' /\ u \in target'[t].luns
        /\ target'[t].multiSession = target[t].multiSession
    BY <1>5, <1>8, <2>1
  <2>3. TypeOK'
    BY <1>1, <2>1, <2>2, IdleCallType DEF IInv, TypeOK
  <2>4. BindsUsable
    <3> SUFFICES ASSUME NEW n \in Names, phase[n] = "wanted", phase'[n] # "wanted"
                 PROVE  volumeId'[n] \in Uuids /\ Usable(n, volumeId[n])'
      BY DEF BindsUsable
    <3>1. n = call[c].name /\ volumeId'[n] = u /\ Kept(n)
      BY <2>1 DEF Kept
    <3>2. lun'[u].st = "ready" /\ lun'[u].name = n
      BY <1>1, <1>4, <3>1
    <3>3. t \in TargetsOf(u)'
      BY <2>2 DEF TargetsOf
    <3>4. Request[n].multiSession => target'[t].multiSession
      BY <1>4, <2>2, <3>1
    <3> QED BY <3>1, <3>2, <3>3, <3>4 DEF Usable, TargetsOf, LiveTarget
  <2>5. \A d \in Calls : d # c => call'[d] = call[d]
    BY <1>1, <2>1
  <2> QED BY <2>1, <2>2, <2>3, <2>4, <2>5, StepOf
<1> QED BY <1>3, <1>6, <1>7, <1>8 DEF CreateReply

LEMMA LunDeleteStep ==
    ASSUME IInv, NEW c \in Calls, LunDelete(c)
    PROVE  IInv'
<1>1. /\ UNCHANGED dsms /\ call[c].pc = "LunDelete" /\ Busy(c)
      /\ call \in [Calls -> CallType] /\ call[c] \in CallType
      /\ RequestInv(c) /\ DeleteInv(c) /\ faults' \in 0..MaxFaults
  BY FaultsTyped DEF LunDelete, At, IInv, TypeOK, Busy, CallInv
<1>2. /\ call[c].op = "delete" /\ ~Kept(call[c].name) /\ call[c].name \in Names
      /\ call[c].lun = volumeId[call[c].name]
  BY <1>1 DEF RequestInv, DeleteInv, DeletePcs
<1>3. PICK u \in Uuids : u = call[c].lun /\ lun[u].name = call[c].name
  BY <1>2 DEF IInv, PhaseInv, Kept
<1>4. \/ UNCHANGED dsmVars
      \/ LiveLun(u) /\ lun' = [lun EXCEPT ![u].st = "deleted"] /\ target' = Unmap(u)
  BY <1>3 DEF LunDelete
<1>5. \/ DeleteDone(c)
      \/ Goto(c, "TargetDelete") /\ UNCHANGED clusterVars
      \/ Goto(c, "LunCheck") /\ UNCHANGED clusterVars
  BY DEF LunDelete
<1>6. Settles
  BY <1>1, <1>2, <1>5, Endings, Unsettled
<1>7. /\ lun' \in [Uuids -> LunType] /\ target' \in [Tids -> TargetType]
      /\ LunInv' /\ TargetInv' /\ Monotone
  BY <1>2, <1>3, <1>4, <1>6, SettlesMonotone, NoEffect, DeleteLunEffect
<1>8. (\E x \in CallType : call' = [call EXCEPT ![c] = x]) /\ CallInv(c)'
  <2>1. CASE DeleteDone(c)
    BY <1>1, <1>2, <2>1, Endings, IdleCallType
  <2>2. ASSUME NEW p \in {"TargetDelete", "LunCheck"}, Goto(c, p), UNCHANGED clusterVars
        PROVE  (\E x \in CallType : call' = [call EXCEPT ![c] = x]) /\ CallInv(c)'
    <3> DEFINE x == [call[c] EXCEPT !.pc = p]
    <3>1. x \in CallType /\ call' = [call EXCEPT ![c] = x] /\ call'[c] = x
      BY <1>1, <2>2 DEF Goto, CallType
    <3>2. RequestInv(c)' /\ RefsInv(c)' /\ CreateInv(c)'
      BY <1>1, <2>2, <3>1 DEF RequestInv, RefsInv, CreateInv, CreatePcs, MappingPcs,
         DeletePcs, Busy, Clones, clusterVars, Kept
    <3>3. DeleteInv(c)'
      BY <1>1, <1>7, <3>1 DEF DeleteInv, DeletePcs, Monotone, BornTarget
    <3> QED BY <3>1, <3>2, <3>3 DEF CallInv
  <2> QED BY <1>5, <2>1, <2>2
<1> QED BY <1>1, <1>6, <1>7, <1>8, EffectStep

LEMMA TargetDeleteStep ==
    ASSUME IInv, NEW c \in Calls, TargetDelete(c)
    PROVE  IInv'
<1>1. /\ UNCHANGED lun /\ UNCHANGED dsms /\ call[c].pc = "TargetDelete" /\ Busy(c)
      /\ call \in [Calls -> CallType] /\ call[c] \in CallType
      /\ RequestInv(c) /\ DeleteInv(c) /\ faults' \in 0..MaxFaults
  BY FaultsTyped DEF TargetDelete, At, IInv, TypeOK, Busy, CallInv
<1>2. call[c].op = "delete" /\ ~Kept(call[c].name) /\ call[c].name \in Names
  BY <1>1 DEF RequestInv, DeletePcs
<1>3. PICK t \in Tids : t = call[c].target /\ target[t].name = call[c].name
  BY <1>1 DEF DeleteInv, DeletePcs
<1>4. \/ UNCHANGED target
      \/ LiveTarget(t) /\ target' = [target EXCEPT ![t].st = "deleted", ![t].luns = {}]
  BY <1>3 DEF TargetDelete
<1>5. DeleteDone(c) \/ (Goto(c, "TargetCheck") /\ UNCHANGED clusterVars)
  BY DEF TargetDelete
<1>6. Settles
  BY <1>1, <1>2, <1>5, Endings, Unsettled
<1>7. /\ lun' \in [Uuids -> LunType] /\ target' \in [Tids -> TargetType]
      /\ LunInv' /\ TargetInv' /\ Monotone
  <2>1. CASE UNCHANGED target
    BY <1>1, <1>6, <2>1, SettlesMonotone, NoEffect DEF dsmVars
  <2>2. CASE LiveTarget(t) /\ target' = [target EXCEPT ![t].st = "deleted", ![t].luns = {}]
    BY <1>1, <1>2, <1>3, <1>6, <2>2, SettlesMonotone, DeleteTargetEffect DEF IInv, TypeOK
  <2> QED BY <1>4, <2>1, <2>2
<1>8. (\E x \in CallType : call' = [call EXCEPT ![c] = x]) /\ CallInv(c)'
  <2>1. CASE DeleteDone(c)
    BY <1>1, <1>2, <2>1, Endings, IdleCallType
  <2>2. CASE Goto(c, "TargetCheck") /\ UNCHANGED clusterVars
    <3> DEFINE x == [call[c] EXCEPT !.pc = "TargetCheck"]
    <3>1. x \in CallType /\ call' = [call EXCEPT ![c] = x] /\ call'[c] = x
      BY <1>1, <2>2 DEF Goto, CallType
    <3>2. RequestInv(c)' /\ RefsInv(c)' /\ CreateInv(c)'
      BY <1>1, <2>2, <3>1 DEF RequestInv, RefsInv, CreateInv, CreatePcs, MappingPcs,
         DeletePcs, Busy, Clones, clusterVars, Kept
    <3>3. DeleteInv(c)'
      BY <1>1, <1>7, <3>1 DEF DeleteInv, DeletePcs, Monotone, BornTarget
    <3> QED BY <3>1, <3>2, <3>3 DEF CallInv
  <2> QED BY <1>5, <2>1, <2>2
<1> QED BY <1>1, <1>6, <1>7, <1>8, EffectStep

LEMMA LunUpdateStep ==
    ASSUME IInv, NEW c \in Calls, LunUpdate(c)
    PROVE  IInv'
<1>1. /\ UNCHANGED target /\ UNCHANGED dsms /\ call[c].pc = "LunUpdate" /\ Busy(c)
      /\ call[c] \in CallType /\ RequestInv(c) /\ faults' \in 0..MaxFaults
  BY FaultsTyped DEF LunUpdate, At, IInv, TypeOK, Busy, CallInv
<1>2. call[c].op = "expand" /\ call[c].lun \in Uuids /\ call[c].size \in Nat
  BY <1>1 DEF RequestInv, CallType
<1>3. Refuse(c) \/ ExpandDone(c)
  BY DEF LunUpdate
<1>4. Settles /\ call' = [call EXCEPT ![c] = IdleCall] /\ CallInv(c)'
  BY <1>1, <1>2, <1>3, Endings
<1>5. /\ lun' \in [Uuids -> LunType] /\ target' \in [Tids -> TargetType]
      /\ LunInv' /\ TargetInv' /\ Monotone
  <2>1. CASE UNCHANGED lun
    BY <1>1, <1>4, <2>1, SettlesMonotone, NoEffect DEF dsmVars
  <2>2. CASE lun' = [lun EXCEPT ![call[c].lun].size = call[c].size]
    BY <1>1, <1>2, <1>4, <2>2, SettlesMonotone, ResizeEffect DEF IInv, TypeOK
  <2> QED BY <2>1, <2>2 DEF LunUpdate
<1> QED BY <1>1, <1>4, <1>5, EffectStep, IdleCallType

-----------------------------------------------------------------------------
(* The cluster, the driver process, and the theorems.                      *)

LEMMA StartStep ==
    ASSUME IInv, NEW c \in Calls, NEW n \in Names,
           StartCreate(c, n) \/ StartExpand(c, n) \/ StartDelete(c, n)
    PROVE  IInv'
<1>1. PICK op \in {"create", "expand", "delete"}, id \in Uuids \cup {None}, size \in Nat :
        /\ Start(c, op, n, id, size)
        /\ op = "create" /\ Request[n].source # None => id \in Uuids
        /\ op \in {"create", "expand"} => size \in Sizes
        /\ op = "delete" => ~Kept(n) /\ id = volumeId[n]
  <2>1. CASE StartCreate(c, n)
    <3>1. Request[n].size \in Sizes /\ Request[n].source \in Names \cup {None}
      BY RequestsTyped DEF RequestType
    <3>2. Request[n].source # None => volumeId[Request[n].source] \in Uuids
      BY <2>1, <3>1 DEF StartCreate, IInv, PhaseInv
    <3> QED BY <2>1, <3>1, <3>2, SizesAreNat DEF StartCreate
  <2>2. CASE StartExpand(c, n)
    BY <2>2, SizesAreNat DEF StartExpand, IInv, TypeOK
  <2>3. CASE StartDelete(c, n)
    BY <2>3 DEF StartDelete, IInv, TypeOK, Kept
  <2> QED BY <2>1, <2>2, <2>3
<1> DEFINE x == [IdleCall EXCEPT !.pc = "List", !.op = op, !.name = n, !.id = id,
                   !.size = size, !.live = TRUE, !.byName = (op = "create"), !.todo = dsms]
<1>2. /\ call' = [call EXCEPT ![c] = x] /\ UNCHANGED <<dsmVars, clusterVars, dsms, faults>>
      /\ call \in [Calls -> CallType] /\ dsms \subseteq Dsms
  BY <1>1 DEF Start, dsmVars, clusterVars, IInv, TypeOK
<1>3. x \in CallType
  BY <1>2 DEF IdleCall, CallType
<1>4. CallInv(c)'
  BY ZenonT(30), <1>1, <1>2 DEF CallInv, RequestInv, RefsInv, CreateInv, DeleteInv, IdleCall,
     CreatePcs, MappingPcs, DeletePcs, Busy, Clones, clusterVars, Kept
<1> QED BY <1>2, <1>3, <1>4, MoveStep DEF IInv, TypeOK

LEMMA DeadlineStep ==
    ASSUME IInv, NEW c \in Calls, Deadline(c)
    PROVE  IInv'
<1> DEFINE x == [call[c] EXCEPT !.live = FALSE]
<1>1. /\ UNCHANGED <<dsmVars, clusterVars, dsms>> /\ faults' \in 0..MaxFaults
      /\ call \in [Calls -> CallType] /\ call[c] \in CallType /\ CallInv(c)
  BY FaultsTyped DEF Deadline, dsmVars, clusterVars, IInv, TypeOK
<1>2. x \in CallType /\ call' = [call EXCEPT ![c] = x] /\ call'[c] = x
  BY ZenonT(30), <1>1 DEF Deadline, CallType
<1>3. RequestInv(c)' /\ DeleteInv(c)'
  BY <1>1, <1>2 DEF CallInv, RequestInv, DeleteInv, Busy, Clones, clusterVars, dsmVars, Kept, BornTarget
<1>4. RefsInv(c)'
  BY <1>1, <1>2 DEF CallInv, RefsInv, clusterVars, dsmVars, Kept, BornLun, BornTarget, Usable,
     TargetsOf, LiveTarget
<1>5. CreateInv(c)'
  BY <1>1, <1>2 DEF CallInv, CreateInv, clusterVars, dsmVars, Kept, BornLun, BornTarget, Clones,
     LunsNamed, LiveLun
<1> QED BY <1>1, <1>2, <1>3, <1>4, <1>5, MoveStep DEF CallInv

LEMMA ReleaseStep ==
    ASSUME IInv, NEW m \in Names, Release(m)
    PROVE  IInv'
<1>1. /\ UNCHANGED <<dsmVars, dsms, call, capacity, faults>>
      /\ phase' \in [Names -> {"wanted", "bound", "released", "deleted"}]
      /\ PhaseMonotone
      /\ \A n \in Names : phase[n] = "wanted" => phase'[n] = "wanted"
  BY DEF Release, dsmVars, IInv, TypeOK, PhaseMonotone, Kept
<1>2. TypeOK'
  BY <1>1 DEF Release, IInv, TypeOK, dsmVars
<1>3. LunInv' /\ TargetInv' /\ Monotone
  BY <1>1, NoEffect
<1>4. BindsUsable
  BY <1>1 DEF BindsUsable
<1>5. \A c \in Calls : CallInv(c)'
  BY <1>1, <1>3, OtherCall DEF IInv
<1> QED BY <1>2, <1>3, <1>4, <1>5, ClusterKept DEF IInv

LEMMA RestartStep ==
    ASSUME IInv, Restart
    PROVE  IInv'
<1>1. UNCHANGED <<dsmVars, clusterVars>> /\ call' = [c \in Calls |-> IdleCall]
  BY DEF Restart, dsmVars, clusterVars
<1>2. TypeOK'
  BY <1>1, FaultsTyped, IdleCallType DEF Restart, Logins, IInv, TypeOK, dsmVars, clusterVars
<1>3. Settles /\ PhaseMonotone
  BY <1>1, Unsettled, SettlesMonotone
<1>4. LunInv' /\ TargetInv' /\ Monotone
  BY <1>1, <1>3, NoEffect
<1>5. BindsUsable
  BY <1>3 DEF BindsUsable, Settles
<1>6. \A c \in Calls : CallInv(c)'
  BY <1>1, IdleCallInv
<1> QED BY <1>2, <1>4, <1>5, <1>6, ClusterKept DEF IInv

LEMMA InitIInv == Init => IInv
<1> SUFFICES ASSUME Init PROVE IInv
  OBVIOUS
<1>1. TypeOK
  BY IdleCallType, RequestsTyped, MaxFaultsNat
  DEF Init, TypeOK, LunType, TargetType, Logins, RequestType
<1>2. LunInv /\ TargetInv
  BY DEF Init, LunInv, TargetInv, BornLun, LiveLun
<1>3. PhaseInv /\ BoundUsable
  BY DEF Init, PhaseInv, BoundUsable
<1>4. \A c \in Calls : CallInv(c)
  BY DEF Init, CallInv, RequestInv, RefsInv, CreateInv, DeleteInv, IdleCall, Busy,
     CreatePcs, MappingPcs, DeletePcs
<1> QED BY <1>1, <1>2, <1>3, <1>4 DEF IInv

LEMMA StutterStep == ASSUME IInv, UNCHANGED vars PROVE IInv'
<1>1. UNCHANGED <<lun, target, dsms, call, phase, volumeId, capacity, faults>>
  BY DEF vars
<1>2. TypeOK' /\ LunInv' /\ TargetInv' /\ PhaseInv' /\ BoundUsable'
  BY <1>1 DEF IInv, TypeOK, LunInv, TargetInv, PhaseInv, BoundUsable, BornLun, LiveLun,
     LiveTarget, Kept, Usable, TargetsOf
<1>3. Monotone
  BY <1>1 DEF Monotone, PhaseMonotone, BornLun, BornTarget, Kept, Usable, TargetsOf, LiveTarget
<1>4. \A c \in Calls : CallInv(c)'
  BY <1>1, <1>3, OtherCall DEF IInv
<1> QED BY <1>2, <1>4 DEF IInv

LEMMA NextIInv == IInv /\ [Next]_vars => IInv'
<1> SUFFICES ASSUME IInv, [Next]_vars PROVE IInv'
  OBVIOUS
<1>1. ASSUME NEW c \in Calls, Step(c) PROVE IInv'
  BY <1>1, TargetListStep, LookupLunStep, ListEndStep, PickStep, LunCreateStep, LunCloneStep,
     WaitCloneStep, LunGetStep, TargetCreateStep, TargetGetStep, TargetSetStep,
     LunMapTargetStep, LunDeleteStep, CheckSteps, TargetDeleteStep, LunUpdateStep
  DEF Step
<1>2. ASSUME NEW c \in Calls, NEW n \in Names,
             StartCreate(c, n) \/ StartExpand(c, n) \/ StartDelete(c, n)
      PROVE  IInv'
  BY <1>2, StartStep
<1>3. ASSUME NEW n \in Names, Release(n) PROVE IInv'
  BY <1>3, ReleaseStep
<1>4. ASSUME NEW c \in Calls, Deadline(c) PROVE IInv'
  BY <1>4, DeadlineStep
<1>5. CASE Restart
  BY <1>5, RestartStep
<1>6. ASSUME NEW u \in Uuids, CloneDone(u) PROVE IInv'
  BY <1>6, CloneDoneStep
<1>7. CASE Finished \/ UNCHANGED vars
  BY <1>7, StutterStep DEF Finished
<1> QED BY <1>1, <1>2, <1>3, <1>4, <1>5, <1>6, <1>7 DEF Next

\* The invariant from which the others follow holds in every reachable state.
THEOREM Inductive == Spec => []IInv
BY InitIInv, NextIInv, PTL DEF Spec

\* Every variable keeps its type, whatever the servers, requests and mishaps.
THEOREM TypeCorrect == Spec => []TypeOK
<1>1. IInv => TypeOK
  BY DEF IInv
<1> QED BY <1>1, Inductive, PTL

\* A volume reported by CreateVolume stays attachable until it is released,
\* for any number of servers, volumes, overlapping handlers and mishaps.
THEOREM BoundStaysUsable == Spec => []BoundUsable
<1>1. IInv => BoundUsable
  BY DEF IInv
<1> QED BY <1>1, Inductive, PTL

\* No LUN of a volume the cluster wants or has is mapped before it is copied
\* completely, however many handlers, late ones included, work on its name.
THEOREM CopiedWhenMapped == Spec => []MappedReady
<1>1. IInv => MappedReady
  BY DEF IInv, TargetInv, MappedReady, Mapped, TargetsOf, Kept
<1> QED BY <1>1, Inductive, PTL

-----------------------------------------------------------------------------
(* 2. The store that is implemented.                                       *)

ReadsWork == {"TargetList", "LunLookup", "Login"} \cap Faulty = {}

HostPcs == {"LunCreate", "LunClone", "WaitClone", "LunGet"} \cup MappingPcs

\* LUNs and targets are on the servers of the driver, and a LUN is mapped to
\* targets of its own server.
PlaceInv ==
    /\ dsms = Dsms
    /\ \A u \in Uuids : BornLun(u) => lun[u].dsm \in Dsms
    /\ \A t \in Tids : BornTarget(t) => target[t].dsm \in Dsms
    /\ \A t \in Tids : \A u \in target[t].luns : target[t].dsm = lun[u].dsm

\* A volume that was bound once is mapped until its LUN is deleted.
MappedInv ==
    \A n \in Names : phase[n] # "wanted" /\ LiveLun(volumeId[n]) => Mapped(volumeId[n])

\* A creation works on one server.
HostInv(c) ==
    /\ call[c].pc \in HostPcs => call[c].host \in Dsms
    /\ call[c].pc \in MappingPcs => lun[call[c].lun].dsm = call[c].host
    /\ call[c].pc \in {"TargetSet", "LunMapTarget"} =>
         target[call[c].target].dsm = call[c].host

\* A deletion that looks for its volume has a mapping of it before it, or the
\* server of one; one that deletes the target has deleted the LUN.
SeenInv(c) ==
    /\ call[c].pc = "List" /\ call[c].op = "delete" /\ LiveLun(call[c].id) =>
         \/ \E t \in TargetsOf(call[c].id) : target[t].dsm \in call[c].todo
         \/ \E r \in call[c].refs : r.lun = call[c].id
    /\ call[c].pc \in {"TargetDelete", "TargetCheck"} => lun[call[c].lun].st = "deleted"

RInv == /\ IInv
        /\ PlaceInv /\ MappedInv /\ DeletedGone
        /\ \A c \in Calls : HostInv(c) /\ SeenInv(c)

-----------------------------------------------------------------------------
(* What one step of a handler does to the DSMs, by kinds.                  *)

\* Only sizes change.
Quiet ==
    /\ UNCHANGED target
    /\ \A u \in Uuids : /\ lun'[u].st = lun[u].st /\ lun'[u].name = lun[u].name
                        /\ lun'[u].dsm = lun[u].dsm

MakesLun(c) ==
    /\ call[c].pc \in {"LunCreate", "LunClone"} /\ UNCHANGED target
    /\ \E u \in UnbornLuns, st \in {"ready", "cloning"}, size \in Nat :
         NewLun(u, st, call[c].host, call[c].name, size)

MakesTarget(c) ==
    /\ call[c].pc = "TargetCreate" /\ UNCHANGED lun
    /\ \E t \in UnbornTargets :
         target' = [target EXCEPT ![t] = [st |-> "live", dsm |-> call[c].host,
                      name |-> call[c].name, multiSession |-> FALSE, luns |-> {}]]

OpensTarget(c) ==
    /\ call[c].pc = "TargetSet" /\ UNCHANGED lun
    /\ target' = [target EXCEPT ![call[c].target].multiSession = TRUE]

MapsLun(c) ==
    /\ call[c].pc = "LunMapTarget" /\ UNCHANGED lun
    /\ LiveTarget(call[c].target) /\ LiveLun(call[c].lun)
    /\ target' = [target EXCEPT ![call[c].target].luns = @ \cup {call[c].lun}]

DeletesLun(c) ==
    /\ call[c].pc = "LunDelete" /\ LiveLun(call[c].lun)
    /\ lun' = [lun EXCEPT ![call[c].lun].st = "deleted"]
    /\ target' = Unmap(call[c].lun)

DeletesTarget(c) ==
    /\ call[c].pc = "TargetDelete" /\ UNCHANGED lun
    /\ target' = [target EXCEPT ![call[c].target].st = "deleted",
                                ![call[c].target].luns = {}]

DsmEffect(c) ==
    \/ Quiet \/ MakesLun(c) \/ MakesTarget(c) \/ OpensTarget(c) \/ MapsLun(c)
    \/ DeletesLun(c) \/ DeletesTarget(c)

LEMMA StepDsm ==
    ASSUME IInv, NEW c \in Calls, Step(c)
    PROVE  DsmEffect(c) /\ UNCHANGED dsms
<1>1. /\ lun \in [Uuids -> LunType] /\ RequestInv(c) /\ call[c] \in CallType
  BY DEF IInv, TypeOK, CallInv
<1>2. ASSUME UNCHANGED <<lun, target>> PROVE Quiet
  BY <1>2 DEF Quiet
<1>3. CASE TargetList(c) \/ LookupLun(c) \/ ListEnd(c) \/ Pick(c) \/ WaitClone(c) \/ LunGet(c)
           \/ TargetGet(c) \/ LunCheck(c) \/ TargetCheck(c)
  BY <1>2, <1>3 DEF TargetList, LookupLun, ListEnd, Pick, WaitClone, LunGet, TargetGet, LunCheck,
     TargetCheck, DsmEffect
<1>4. CASE LunCreate(c)
  <2>1. call[c].size \in Nat
    BY <1>1 DEF CallType
  <2> QED BY <1>2, <1>4, <2>1 DEF LunCreate, At, MakesLun, DsmEffect
<1>5. CASE LunClone(c)
  <2>1. call[c].id \in Uuids /\ lun[call[c].id].size \in Nat
    BY <1>1, <1>5 DEF LunClone, At, RequestInv, CreatePcs, Busy, LunType
  <2> QED BY <1>2, <1>5, <2>1 DEF LunClone, At, MakesLun, DsmEffect
<1>6. CASE TargetCreate(c)
  BY <1>2, <1>6 DEF TargetCreate, At, MakesTarget, DsmEffect
<1>7. CASE TargetSet(c)
  BY <1>2, <1>7 DEF TargetSet, At, OpensTarget, DsmEffect
<1>8. CASE LunMapTarget(c)
  BY <1>2, <1>8 DEF LunMapTarget, At, MapsLun, DsmEffect
<1>9. CASE LunDelete(c)
  BY <1>2, <1>9 DEF LunDelete, At, DeletesLun, DsmEffect, dsmVars
<1>10. CASE TargetDelete(c)
  BY <1>2, <1>10 DEF TargetDelete, At, DeletesTarget, DsmEffect
<1>11. CASE LunUpdate(c)
  <2>1. CASE lun' = [lun EXCEPT ![call[c].lun].size = call[c].size]
    <3>1. \A u \in Uuids : /\ lun'[u].st = lun[u].st /\ lun'[u].name = lun[u].name
                           /\ lun'[u].dsm = lun[u].dsm
      BY <1>1, <2>1 DEF LunType
    <3> QED BY <1>11, <3>1 DEF LunUpdate, Quiet, DsmEffect
  <2> QED BY <1>2, <1>11, <2>1 DEF LunUpdate, DsmEffect
<1>12. UNCHANGED dsms
  BY DEF Step, TargetList, LookupLun, ListEnd, Pick, LunCreate, LunClone, WaitClone, LunGet,
     TargetCreate, TargetGet, TargetSet, LunMapTarget, LunDelete, LunCheck, TargetDelete,
     TargetCheck, LunUpdate
<1> QED BY <1>3, <1>4, <1>5, <1>6, <1>7, <1>8, <1>9, <1>10, <1>11, <1>12 DEF Step

\* What no step takes back on the DSMs.  A mapping of a LUN that lives on goes
\* only with a target that is deleted because its volume's LUN is.
Lasting ==
    /\ \A u \in Uuids : BornLun(u) =>
         /\ lun'[u].name = lun[u].name /\ lun'[u].dsm = lun[u].dsm
         /\ BornLun(u)' /\ (LiveLun(u)' => LiveLun(u))
    /\ \A t \in Tids : BornTarget(t) =>
         BornTarget(t)' /\ target'[t].name = target[t].name /\ target'[t].dsm = target[t].dsm

MappingsLast ==
    \A n \in Names, u \in Uuids :
        phase[n] # "wanted" /\ u = volumeId[n] /\ LiveLun(u)' =>
            TargetsOf(u) \subseteq TargetsOf(u)'

\* The targets a handler works on.
LEMMA Own ==
    ASSUME RInv, NEW c \in Calls, Busy(c)
    PROVE  /\ lun \in [Uuids -> LunType] /\ target \in [Tids -> TargetType]
           /\ call \in [Calls -> CallType] /\ call[c] \in CallType
           /\ call[c].name \in Names
           /\ call[c].pc \in HostPcs => call[c].host \in Dsms
           /\ call[c].pc \in MappingPcs => /\ call[c].lun \in Uuids
                                           /\ lun[call[c].lun].dsm = call[c].host
                                           /\ lun[call[c].lun].name = call[c].name
           /\ call[c].pc \in {"TargetSet", "LunMapTarget"} =>
                /\ call[c].target \in Tids /\ BornTarget(call[c].target)
                /\ target[call[c].target].dsm = call[c].host
                /\ target[call[c].target].name = call[c].name
           /\ call[c].pc \in DeletePcs =>
                /\ call[c].op = "delete" /\ ~Kept(call[c].name)
                /\ call[c].lun = volumeId[call[c].name] /\ call[c].lun = call[c].id
                /\ call[c].lun \in Uuids /\ BornLun(call[c].lun)
                /\ lun[call[c].lun].name = call[c].name
                /\ call[c].target \in Tids /\ BornTarget(call[c].target)
                /\ target[call[c].target].name = call[c].name
<1>1. RequestInv(c) /\ CreateInv(c) /\ DeleteInv(c) /\ HostInv(c)
  BY DEF RInv, IInv, CallInv
<1>2. call[c].pc \in DeletePcs =>
        /\ call[c].op = "delete" /\ ~Kept(call[c].name)
        /\ call[c].lun = volumeId[call[c].name] /\ call[c].lun = call[c].id
        /\ call[c].target \in Tids /\ BornTarget(call[c].target)
        /\ target[call[c].target].name = call[c].name
  BY <1>1 DEF RequestInv, DeleteInv
<1>3. call[c].pc \in DeletePcs =>
        /\ call[c].lun \in Uuids /\ BornLun(call[c].lun)
        /\ lun[call[c].lun].name = call[c].name
  BY <1>1, <1>2 DEF RequestInv, RInv, IInv, PhaseInv, Kept
<1> QED BY <1>1, <1>2, <1>3 DEF RInv, IInv, TypeOK, RequestInv, CreateInv, HostInv

LEMMA EffectLasts ==
    ASSUME IInv, NEW c \in Calls, Busy(c), DsmEffect(c)
    PROVE  Lasting
<1>1. lun \in [Uuids -> LunType] /\ target \in [Tids -> TargetType]
  BY DEF IInv, TypeOK
<1>2. CASE Quiet
  BY <1>2 DEF Quiet, Lasting, BornLun, BornTarget, LiveLun
<1>3. CASE MakesLun(c)
  BY <1>1, <1>3 DEF MakesLun, NewLun, UnbornLuns, Lasting, BornLun, BornTarget, LiveLun
<1>4. CASE MakesTarget(c)
  BY <1>1, <1>4 DEF MakesTarget, UnbornTargets, Lasting, BornLun, BornTarget, LiveLun
<1>5. CASE OpensTarget(c) \/ MapsLun(c)
  <2>1. \A s \in Tids : /\ target'[s].st = target[s].st /\ target'[s].dsm = target[s].dsm
                        /\ target'[s].name = target[s].name
    BY <1>1, <1>5 DEF OpensTarget, MapsLun, TargetType
  <2> QED BY <1>5, <2>1 DEF OpensTarget, MapsLun, Lasting, BornLun, BornTarget, LiveLun
<1>6. CASE DeletesLun(c)
  <2>1. \A s \in Tids : /\ target'[s].st = target[s].st /\ target'[s].dsm = target[s].dsm
                        /\ target'[s].name = target[s].name
    BY <1>1, <1>6 DEF DeletesLun, Unmap, TargetType
  <2>2. \A v \in Uuids : /\ lun'[v].name = lun[v].name /\ lun'[v].dsm = lun[v].dsm
                         /\ lun'[v].st = IF v = call[c].lun THEN "deleted" ELSE lun[v].st
    BY <1>1, <1>6 DEF DeletesLun, LunType
  <2> QED BY <2>1, <2>2 DEF Lasting, BornLun, BornTarget, LiveLun
<1>7. CASE DeletesTarget(c)
  <2>1. \A s \in Tids : /\ target'[s].dsm = target[s].dsm /\ target'[s].name = target[s].name
                        /\ target'[s].st \in {target[s].st, "deleted"}
    BY <1>1, <1>7 DEF DeletesTarget, TargetType
  <2> QED BY <1>7, <2>1 DEF DeletesTarget, Lasting, BornLun, BornTarget, LiveLun
<1> QED BY <1>2, <1>3, <1>4, <1>5, <1>6, <1>7 DEF DsmEffect

LEMMA EffectMappings ==
    ASSUME RInv, NEW c \in Calls, Busy(c), DsmEffect(c)
    PROVE  MappingsLast
<1> SUFFICES ASSUME NEW n \in Names, NEW v \in Uuids, phase[n] # "wanted", v = volumeId[n],
                    LiveLun(v)', NEW t \in TargetsOf(v)
             PROVE  target'[t].st = "live" /\ v \in target'[t].luns
  BY DEF MappingsLast, TargetsOf, LiveTarget
<1>0. /\ lun \in [Uuids -> LunType] /\ target \in [Tids -> TargetType]
      /\ t \in Tids /\ target[t].st = "live" /\ v \in target[t].luns
      /\ lun[v].name = n /\ target[t].name = n
  BY Own DEF TargetsOf, LiveTarget, RInv, IInv, PhaseInv, TargetInv
<1>1. CASE Quiet \/ MakesLun(c)
  BY <1>0, <1>1 DEF Quiet, MakesLun
<1>2. CASE MakesTarget(c)
  BY <1>0, <1>2 DEF MakesTarget, UnbornTargets
<1>3. CASE OpensTarget(c) \/ MapsLun(c)
  <2>1. target'[t].st = target[t].st /\ target[t].luns \subseteq target'[t].luns
    BY <1>0, <1>3 DEF OpensTarget, MapsLun, TargetType
  <2> QED BY <1>0, <2>1
<1>4. CASE DeletesLun(c)
  <2>1. v # call[c].lun
    BY <1>0, <1>4 DEF DeletesLun, LiveLun, LunType
  <2> QED BY <1>0, <1>4, <2>1 DEF DeletesLun, Unmap, TargetType
<1>5. CASE DeletesTarget(c)
  <2>1. t # call[c].target
    <3> SUFFICES ASSUME t = call[c].target PROVE FALSE
      OBVIOUS
    <3>1. call[c].name = n /\ call[c].lun = v
      BY <1>0, <1>5, Own DEF DeletesTarget, DeletePcs
    <3>2. lun[v].st = "deleted"
      BY <1>5, <3>1 DEF RInv, SeenInv, DeletesTarget
    <3> QED BY <1>5, <3>2 DEF DeletesTarget, LiveLun
  <2> QED BY <1>0, <1>5, <2>1 DEF DeletesTarget
<1> QED BY <1>1, <1>2, <1>3, <1>4, <1>5 DEF DsmEffect

LEMMA EffectPlace ==
    ASSUME RInv, NEW c \in Calls, Busy(c), DsmEffect(c), UNCHANGED dsms
    PROVE  PlaceInv'
<1>0. /\ lun \in [Uuids -> LunType] /\ target \in [Tids -> TargetType] /\ PlaceInv /\ TargetInv
      /\ call[c].pc \in HostPcs => call[c].host \in Dsms
  BY Own DEF RInv, IInv
<1>1. CASE Quiet
  BY <1>0, <1>1 DEF Quiet, PlaceInv, BornLun, BornTarget, TargetType
<1>2. CASE MakesLun(c)
  <2>1. PICK u \in Uuids : /\ lun[u].st = "unborn" /\ lun'[u].dsm = call[c].host
                           /\ \A v \in Uuids : v # u => lun'[v] = lun[v]
    BY <1>0, <1>2 DEF MakesLun, NewLun, UnbornLuns
  <2>2. \A t \in Tids : u \notin target[t].luns
    BY <1>0, <2>1 DEF TargetInv, BornLun
  <2> QED BY <1>0, <1>2, <2>1, <2>2 DEF MakesLun, PlaceInv, BornLun, BornTarget, TargetType, HostPcs
<1>3. CASE MakesTarget(c)
  <2>1. PICK t \in Tids : /\ target'[t].luns = {} /\ target'[t].dsm = call[c].host
                          /\ \A s \in Tids : s # t => target'[s] = target[s]
    BY <1>0, <1>3 DEF MakesTarget, UnbornTargets
  <2> QED BY <1>0, <1>3, <2>1 DEF MakesTarget, PlaceInv, BornLun, BornTarget, HostPcs, MappingPcs
<1>4. CASE OpensTarget(c) \/ DeletesTarget(c)
  <2>1. \A s \in Tids : /\ target'[s].dsm = target[s].dsm
                        /\ BornTarget(s)' => BornTarget(s)
                        /\ target'[s].luns \subseteq target[s].luns
    <3>1. CASE OpensTarget(c)
      BY <1>0, <3>1 DEF OpensTarget, TargetType, BornTarget
    <3>2. CASE DeletesTarget(c)
      <4>1. call[c].target \in Tids /\ BornTarget(call[c].target)
        BY <3>2, Own DEF DeletesTarget, DeletePcs
      <4> QED BY <1>0, <3>2, <4>1 DEF DeletesTarget, TargetType, BornTarget
    <3> QED BY <1>4, <3>1, <3>2
  <2> QED BY <1>0, <1>4, <2>1 DEF OpensTarget, DeletesTarget, PlaceInv, BornLun
<1>5. CASE MapsLun(c)
  <2>1. /\ call[c].lun \in Uuids /\ call[c].target \in Tids
        /\ lun[call[c].lun].dsm = target[call[c].target].dsm
    BY <1>5, Own DEF MapsLun, MappingPcs
  <2>2. \A s \in Tids : /\ target'[s].dsm = target[s].dsm /\ target'[s].st = target[s].st
                        /\ target'[s].luns = IF s = call[c].target THEN target[s].luns \cup {call[c].lun}
                                                                   ELSE target[s].luns
    BY <1>0, <1>5 DEF MapsLun, TargetType
  <2> QED BY <1>0, <1>5, <2>1, <2>2 DEF MapsLun, PlaceInv, BornLun, BornTarget
<1>6. CASE DeletesLun(c)
  <2>1. \A s \in Tids : /\ target'[s].dsm = target[s].dsm /\ target'[s].st = target[s].st
                        /\ target'[s].luns \subseteq target[s].luns
    BY <1>0, <1>6 DEF DeletesLun, Unmap, TargetType
  <2>2. \A v \in Uuids : /\ lun'[v].dsm = lun[v].dsm
                         /\ lun'[v].st = IF v = call[c].lun THEN "deleted" ELSE lun[v].st
    BY <1>0, <1>6 DEF DeletesLun, LunType
  <2>3. BornLun(call[c].lun)
    BY <1>6 DEF DeletesLun, LiveLun, BornLun
  <2> QED BY <1>0, <1>6, <2>1, <2>2, <2>3 DEF PlaceInv, BornLun, BornTarget, TargetType
<1> QED BY <1>1, <1>2, <1>3, <1>4, <1>5, <1>6 DEF DsmEffect

-----------------------------------------------------------------------------
(* What a step changes about the volumes that can be attached.             *)

Attachable(u) == lun[u].name # None /\ Usable(lun[u].name, u)

\* At most one volume becomes attachable, or stops being so.
UsablesChange(c) ==
    \/ UsableVolumes' = UsableVolumes
    \/ call[c].pc = "LunMapTarget" /\ UsableVolumes' = UsableVolumes \cup {call[c].lun}
    \/ call[c].pc \in DeletePcs /\ \E u \in Uuids : UsableVolumes' = UsableVolumes \ {u}

LEMMA SameUsables ==
    ASSUME \A u \in Uuids : Attachable(u)' <=> Attachable(u)
    PROVE  UsableVolumes' = UsableVolumes
BY DEF UsableVolumes, Attachable

LEMMA OneUsable ==
    ASSUME NEW u \in Uuids, \A v \in Uuids : v # u => (Attachable(v)' <=> Attachable(v))
    PROVE  \/ UsableVolumes' = UsableVolumes
           \/ Attachable(u)' /\ UsableVolumes' = UsableVolumes \cup {u}
           \/ ~Attachable(u)' /\ UsableVolumes' = UsableVolumes \ {u}
BY DEF UsableVolumes, Attachable

LEMMA EffectUsables ==
    ASSUME RInv, NEW c \in Calls, Busy(c), DsmEffect(c)
    PROVE  UsablesChange(c)
<1>0. /\ lun \in [Uuids -> LunType] /\ target \in [Tids -> TargetType]
      /\ TargetInv /\ LunInv /\ PlaceInv
  BY Own DEF RInv, IInv
<1>1. CASE Quiet
  <2>1. \A u \in Uuids : Attachable(u)' <=> Attachable(u)
    BY <1>1 DEF Quiet, Attachable, Usable, TargetsOf, LiveTarget
  <2> QED BY <2>1, SameUsables DEF UsablesChange
<1>2. CASE MakesLun(c)
  <2>1. PICK u \in Uuids : /\ lun[u].st = "unborn"
                           /\ \A v \in Uuids : v # u => lun'[v] = lun[v]
    BY <1>0, <1>2 DEF MakesLun, NewLun, UnbornLuns
  <2>2. \A t \in Tids : u \notin target[t].luns
    BY <1>0, <2>1 DEF TargetInv, BornLun
  <2>3. ~Attachable(u) /\ ~Attachable(u)'
    BY <1>2, <2>1, <2>2 DEF MakesLun, Attachable, Usable, TargetsOf, LiveTarget
  <2>4. \A v \in Uuids : v # u => (Attachable(v)' <=> Attachable(v))
    BY <1>2, <2>1 DEF MakesLun, Attachable, Usable, TargetsOf, LiveTarget
  <2> QED BY <2>3, <2>4, SameUsables DEF UsablesChange
<1>3. CASE MakesTarget(c)
  <2>1. PICK t \in Tids : /\ target'[t].luns = {} /\ target[t].st = "unborn"
                          /\ \A s \in Tids : s # t => target'[s] = target[s]
    BY <1>0, <1>3 DEF MakesTarget, UnbornTargets
  <2>2. \A u \in Uuids : TargetsOf(u)' = TargetsOf(u)
    BY <2>1 DEF TargetsOf, LiveTarget
  <2>3. \A u \in Uuids : \A s \in TargetsOf(u) : target'[s] = target[s]
    BY <2>1 DEF TargetsOf, LiveTarget
  <2>4. \A u \in Uuids : Attachable(u)' <=> Attachable(u)
    BY <1>3, <2>2, <2>3 DEF MakesTarget, Attachable, Usable
  <2> QED BY <2>4, SameUsables DEF UsablesChange
<1>4. CASE OpensTarget(c)
  <2>1. \A s \in Tids : /\ target'[s].st = target[s].st /\ target'[s].luns = target[s].luns
                        /\ s # call[c].target => target'[s] = target[s]
    BY <1>0, <1>4 DEF OpensTarget, TargetType
  <2>2. \A u \in Uuids : TargetsOf(u)' = TargetsOf(u)
    BY <2>1 DEF TargetsOf, LiveTarget
  <2>3. \A u \in Uuids : \A s \in TargetsOf(u) :
          Request[lun[u].name].multiSession => target[s].multiSession
    BY <1>0 DEF TargetInv, TargetsOf
  <2>4. \A s \in Tids : target[s].multiSession => target'[s].multiSession
    BY <1>0, <1>4 DEF OpensTarget, TargetType
  <2>5. \A u \in Uuids : Attachable(u)' <=> Attachable(u)
    <3> SUFFICES ASSUME NEW u \in Uuids PROVE Attachable(u)' <=> Attachable(u)
      OBVIOUS
    <3>1. \A s \in TargetsOf(u) : s \in Tids
      BY DEF TargetsOf
    <3>2. lun' = lun /\ TargetsOf(u)' = TargetsOf(u)
      BY <1>4, <2>2 DEF OpensTarget
    <3>3. Attachable(u) <=> /\ lun[u].name # None /\ lun[u].st = "ready"
                            /\ TargetsOf(u) # {}
      BY <2>3 DEF Attachable, Usable
    <3>4. Attachable(u)' <=> /\ lun[u].name # None /\ lun[u].st = "ready"
                             /\ TargetsOf(u) # {}
      BY <2>3, <2>4, <3>1, <3>2 DEF Attachable, Usable
    <3> QED BY <3>3, <3>4
  <2> QED BY <2>5, SameUsables DEF UsablesChange
<1>5. CASE MapsLun(c)
  <2>1. PICK u \in Uuids : u = call[c].lun
    BY <1>5, Own DEF MapsLun, MappingPcs
  <2>2. \A s \in Tids :
          /\ target'[s].st = target[s].st /\ target'[s].multiSession = target[s].multiSession
          /\ target[s].luns \subseteq target'[s].luns
          /\ target'[s].luns \subseteq target[s].luns \cup {u}
    BY <1>0, <1>5, <2>1 DEF MapsLun, TargetType
  <2>3. \A v \in Uuids : v # u => (Attachable(v)' <=> Attachable(v))
    BY <1>5, <2>2 DEF MapsLun, Attachable, Usable, TargetsOf, LiveTarget
  <2>4. Attachable(u) => Attachable(u)'
    BY <1>5, <2>2 DEF MapsLun, Attachable, Usable, TargetsOf, LiveTarget
  <2>5. ~Attachable(u)' => \A v \in Uuids : Attachable(v)' <=> Attachable(v)
    BY <2>3, <2>4
  <2> QED BY <1>5, <2>1, <2>3, <2>5, OneUsable, SameUsables DEF MapsLun, UsablesChange
<1>6. CASE DeletesLun(c)
  <2>1. PICK u \in Uuids : u = call[c].lun
    BY <1>6, Own DEF DeletesLun, DeletePcs
  <2>2. \A v \in Uuids : v # u => lun'[v] = lun[v]
    BY <1>0, <1>6, <2>1 DEF DeletesLun
  <2>3. lun'[u].st = "deleted" /\ call[c].pc \in DeletePcs
    BY <1>0, <1>6, <2>1 DEF DeletesLun, LunType, DeletePcs
  <2>4. \A s \in Tids : /\ target'[s].st = target[s].st /\ target'[s].luns = target[s].luns \ {u}
                        /\ target'[s].multiSession = target[s].multiSession
    BY <1>0, <1>6, <2>1 DEF DeletesLun, Unmap, TargetType
  <2>5. ~Attachable(u)'
    BY <2>3 DEF Attachable, Usable
  <2>6. \A v \in Uuids : v # u => (Attachable(v)' <=> Attachable(v))
    BY <2>2, <2>4 DEF Attachable, Usable, TargetsOf, LiveTarget
  <2> QED BY <2>3, <2>5, <2>6, OneUsable DEF UsablesChange
<1>7. CASE DeletesTarget(c)
  <2> DEFINE t == call[c].target
  <2>1. t \in Tids /\ call[c].pc \in DeletePcs
    BY <1>7, Own DEF DeletesTarget, DeletePcs
  <2>2. \A v, w \in target[t].luns : v \in Uuids /\ (LiveLun(v) /\ LiveLun(w) => v = w)
    BY <1>0, <2>1 DEF TargetType, TargetInv, PlaceInv, LunInv
  <2>3. \A s \in Tids : s # t => target'[s] = target[s]
    BY <1>0, <1>7 DEF DeletesTarget
  <2>4. target'[t].luns = {}
    BY <1>0, <1>7, <2>1 DEF DeletesTarget, TargetType
  <2>5. ASSUME NEW v \in Uuids, v \notin target[t].luns \/ ~LiveLun(v)
        PROVE  Attachable(v)' <=> Attachable(v)
    <3>1. CASE ~LiveLun(v)
      BY <1>7, <3>1 DEF DeletesTarget, Attachable, Usable, LiveLun
    <3>2. CASE v \notin target[t].luns
      <4>1. TargetsOf(v)' = TargetsOf(v)
        BY <2>3, <2>4, <3>2 DEF TargetsOf, LiveTarget
      <4>2. \A s \in TargetsOf(v) : target'[s] = target[s]
        BY <2>3, <3>2 DEF TargetsOf
      <4> QED BY <1>7, <4>1, <4>2 DEF DeletesTarget, Attachable, Usable
    <3> QED BY <2>5, <3>1, <3>2
  <2>6. \A v \in Uuids : Attachable(v)' => Attachable(v)
    BY <1>7, <2>3, <2>4 DEF DeletesTarget, Attachable, Usable, TargetsOf, LiveTarget
  <2>7. CASE \E u \in target[t].luns : LiveLun(u)
    <3>1. PICK u \in target[t].luns : LiveLun(u)
      BY <2>7
    <3>2. u \in Uuids /\ \A v \in Uuids : v # u => (Attachable(v)' <=> Attachable(v))
      BY <2>2, <2>5, <3>1
    <3>3. Attachable(u)' => \A v \in Uuids : Attachable(v)' <=> Attachable(v)
      BY <2>6, <3>2
    <3> QED BY <2>1, <3>2, <3>3, OneUsable, SameUsables DEF UsablesChange
  <2>8. CASE ~\E u \in target[t].luns : LiveLun(u)
    BY <2>5, <2>8, SameUsables DEF UsablesChange
  <2> QED BY <2>7, <2>8
<1> QED BY <1>1, <1>2, <1>3, <1>4, <1>5, <1>6, <1>7 DEF DsmEffect

-----------------------------------------------------------------------------
(* What a step does to its handler and to the cluster's view.              *)

\* The cluster is told of a volume that was found or mapped, or of a deletion of
\* a LUN that is gone, or of nothing that VolumeStore knows of.
Tells(c) ==
    \/ UNCHANGED <<phase, volumeId>>
    \/ /\ Answers(c, "wanted")
       /\ \E u \in Uuids : /\ CreateDone(c, u)
                           /\ \/ call[c].pc = "List"
                              \/ call[c].pc = "LunMapTarget" /\ u = call[c].lun
    \/ /\ Answers(c, "released") /\ DeleteDone(c)
       /\ call[c].op = "delete" /\ call[c].pc \in {"List"} \cup DeletePcs
       /\ \A u \in Uuids : u = call[c].id => ~LiveLun(u)'

Acts(c) == Tells(c) /\ HostInv(c)' /\ SeenInv(c)'

LEMMA EndActs ==
    ASSUME RInv, NEW c \in Calls, Return(c)
    PROVE  HostInv(c)' /\ SeenInv(c)'
<1>1. call'[c].pc = "idle"
  BY DEF RInv, IInv, TypeOK, Return, IdleCall
<1> QED BY <1>1 DEF HostInv, SeenInv, HostPcs, MappingPcs

LEMMA RefuseActs ==
    ASSUME RInv, NEW c \in Calls, Refuse(c)
    PROVE  Acts(c)
BY EndActs DEF Refuse, Acts, Tells, clusterVars

LEMMA FailActs ==
    ASSUME RInv, NEW c \in Calls, CreateStepFails(c)
    PROVE  Acts(c)
<1>1. CASE Goto(c, "Pick") /\ UNCHANGED clusterVars
  <2>1. call'[c].pc = "Pick"
    BY <1>1 DEF RInv, IInv, TypeOK, CallType, Goto
  <2> QED BY <1>1, <2>1 DEF Acts, Tells, HostInv, SeenInv, HostPcs, MappingPcs, clusterVars
<1> QED BY <1>1, RefuseActs DEF CreateStepFails

\* A reported deletion of a LUN that is gone.
LEMMA DeleteActs ==
    ASSUME RInv, NEW c \in Calls, DeleteDone(c), call[c].op = "delete",
           call[c].pc \in {"List"} \cup DeletePcs,
           \A u \in Uuids : u = call[c].id => ~LiveLun(u)'
    PROVE  Acts(c)
BY EndActs DEF DeleteDone, Acts, Tells

LEMMA ListActs ==
    ASSUME ReadsWork, RInv, NEW c \in Calls, TargetList(c) \/ ListEnd(c)
    PROVE  Acts(c)
<1>1. /\ call \in [Calls -> CallType] /\ call[c] \in CallType /\ call[c].pc = "List"
      /\ UNCHANGED <<lun, target>> /\ SeenInv(c) /\ RequestInv(c) /\ PlaceInv
      /\ target \in [Tids -> TargetType] /\ lun \in [Uuids -> LunType]
  BY DEF RInv, IInv, TypeOK, CallInv, TargetList, ListEnd, At
<1>2. CASE TargetList(c)
  <2>1. PICK d \in call[c].todo, refs \in SUBSET RefType :
          /\ call' = [call EXCEPT ![c].todo = @ \ {d}, ![c].refs = refs]
          /\ refs = RefsOn(d)
    BY <1>2 DEF TargetList, RefsOn, Outcome, Mishap, Answered, ReadsWork
  <2>2. call'[c] = [call[c] EXCEPT !.todo = @ \ {d}, !.refs = refs]
    BY <1>1, <2>1
  <2>3. /\ call'[c].refs = RefsOn(d) /\ call'[c].todo = call[c].todo \ {d}
        /\ call'[c].pc = "List" /\ call'[c].op = call[c].op /\ call'[c].id = call[c].id
        /\ call[c].refs = {}
    BY <1>1, <1>2, <2>1, <2>2 DEF CallType, TargetList
  <2>4. SeenInv(c)'
    <3> SUFFICES ASSUME call[c].op = "delete", LiveLun(call[c].id)
                 PROVE  \/ \E t \in TargetsOf(call[c].id) : target[t].dsm \in call'[c].todo
                        \/ \E r \in call'[c].refs : r.lun = call[c].id
      BY <1>1, <2>3 DEF SeenInv, LiveLun, TargetsOf, LiveTarget
    <3>1. PICK t \in TargetsOf(call[c].id) : target[t].dsm \in call[c].todo
      BY <1>1, <2>3 DEF SeenInv
    <3>2. CASE target[t].dsm = d
      <4> DEFINE u == call[c].id
                 r == [lun |-> u, target |-> t, only |-> (target[t].luns = {u})]
      <4>1. t \in Tids /\ LiveTarget(t) /\ u \in target[t].luns /\ u \in Uuids
        BY <1>1 DEF TargetsOf, TargetType
      <4>2. r \in RefsOn(d)
        BY <3>2, <4>1 DEF RefsOn, RefType
      <4> QED BY <2>3, <4>2
    <3>3. CASE target[t].dsm # d
      BY <2>3, <3>1, <3>3
    <3> QED BY <3>2, <3>3
  <2> QED BY <1>2, <2>3, <2>4 DEF Acts, Tells, HostInv, HostPcs, MappingPcs, TargetList
<1>3. CASE ListEnd(c)
  <2>1. CASE call[c].op = "delete"
    <3>1. ~LiveLun(call[c].id)
      BY <1>1, <1>3, <2>1 DEF SeenInv, ListEnd
    <3>2. DeleteDone(c)
      BY <1>1, <1>3, <2>1 DEF ListEnd, NoVolume, DeleteNothing, RequestInv, Busy
    <3> QED BY <1>1, <2>1, <3>1, <3>2, DeleteActs DEF LiveLun
  <2>2. CASE call[c].op # "delete" /\ UNCHANGED clusterVars
             /\ \/ call' = [call EXCEPT ![c].pc = "Pick", ![c].byName = FALSE,
                                        ![c].todo = HostsFor(c)]
                \/ call' = [call EXCEPT ![c].byName = FALSE, ![c].todo = dsms]
    <3>1. call'[c] = [call[c] EXCEPT !.pc = "Pick", !.byName = FALSE, !.todo = HostsFor(c)]
          \/ call'[c] = [call[c] EXCEPT !.byName = FALSE, !.todo = dsms]
      BY <1>1, <2>2
    <3>2. call'[c].pc \in {"Pick", "List"} /\ call'[c].op = call[c].op
      BY <1>1, <3>1 DEF CallType
    <3> QED BY <2>2, <3>2 DEF Acts, Tells, HostInv, SeenInv, HostPcs, MappingPcs, clusterVars
  <2> QED BY <1>1, <1>3, <2>1, <2>2, RefuseActs DEF ListEnd, NoVolume, DeleteNothing, RequestInv
<1> QED BY <1>2, <1>3

LEMMA LookupActs ==
    ASSUME ReadsWork, RInv, NEW c \in Calls, LookupLun(c)
    PROVE  Acts(c)
<1>1. /\ call \in [Calls -> CallType] /\ call[c] \in CallType /\ call[c].pc = "List" /\ Busy(c)
      /\ UNCHANGED <<lun, target>> /\ SeenInv(c) /\ RequestInv(c) /\ RefsInv(c) /\ PlaceInv
  BY DEF RInv, IInv, TypeOK, CallInv, LookupLun, At, Busy
<1>2. PICK r \in call[c].refs :
        IF LiveLun(r.lun) /\ Matches(c, r.lun)
          THEN FoundVolume(c, r)
          ELSE call' = [call EXCEPT ![c].refs = @ \ {r}] /\ UNCHANGED clusterVars
  BY DEF LookupLun, Outcome, Mishap, Answered, ReadsWork
<1>3. r.lun \in Uuids /\ BornLun(r.lun)
  BY <1>1 DEF CallType, RefType, RefsInv
<1>4. CASE /\ ~(LiveLun(r.lun) /\ Matches(c, r.lun))
           /\ call' = [call EXCEPT ![c].refs = @ \ {r}] /\ UNCHANGED clusterVars
  <2>1. call'[c] = [call[c] EXCEPT !.refs = @ \ {r}]
    BY <1>1, <1>4
  <2>2. /\ call'[c].refs = call[c].refs \ {r} /\ call'[c].todo = call[c].todo
        /\ call'[c].pc = "List" /\ call'[c].op = call[c].op /\ call'[c].id = call[c].id
    BY <1>1, <2>1 DEF CallType
  <2>3. call[c].op = "delete" /\ LiveLun(call[c].id) => r.lun # call[c].id
    BY <1>1, <1>4 DEF Matches, RequestInv
  <2>4. SeenInv(c)'
    BY <1>1, <2>2, <2>3 DEF SeenInv, LiveLun, TargetsOf, LiveTarget
  <2> QED BY <1>4, <2>2, <2>4 DEF Acts, Tells, HostInv, HostPcs, MappingPcs, clusterVars
<1>5. CASE call[c].byName /\ CreateDone(c, r.lun)
  <2>1. Tells(c)
    BY <1>1, <1>3, <1>5 DEF Tells, CreateDone
  <2> QED BY <1>5, <2>1, EndActs DEF Acts, CreateDone
<1>6. CASE /\ UNCHANGED clusterVars
           /\ call' = [call EXCEPT ![c].pc = "LunClone", ![c].refs = {},
                                   ![c].todo = {}, ![c].host = lun[r.lun].dsm]
  <2>1. call'[c] = [call[c] EXCEPT !.pc = "LunClone", !.refs = {}, !.todo = {},
                                   !.host = lun[r.lun].dsm]
    BY <1>1, <1>6
  <2>2. call'[c].pc = "LunClone" /\ call'[c].host \in Dsms
    BY <1>1, <1>3, <2>1 DEF CallType, PlaceInv
  <2> QED BY <1>6, <2>2 DEF Acts, Tells, HostInv, SeenInv, MappingPcs, clusterVars
<1>7. ASSUME NEW p \in {"LunDelete", "LunUpdate"}, UNCHANGED clusterVars, call'[c].pc = p
      PROVE  Acts(c)
  BY <1>7 DEF Acts, Tells, HostInv, SeenInv, HostPcs, MappingPcs, clusterVars
<1>8. CASE /\ UNCHANGED clusterVars
           /\ call' = [call EXCEPT ![c].pc = "LunDelete", ![c].refs = {},
                          ![c].todo = {}, ![c].lun = r.lun,
                          ![c].target = r.target, ![c].only = r.only]
  <2>1. call'[c] = [call[c] EXCEPT !.pc = "LunDelete", !.refs = {}, !.todo = {},
                      !.lun = r.lun, !.target = r.target, !.only = r.only]
    BY <1>1, <1>8
  <2> QED BY <1>1, <1>7, <1>8, <2>1 DEF CallType
<1>9. CASE /\ UNCHANGED clusterVars
           /\ call' = [call EXCEPT ![c].pc = "LunUpdate", ![c].refs = {},
                                   ![c].todo = {}, ![c].lun = r.lun]
  <2>1. call'[c] = [call[c] EXCEPT !.pc = "LunUpdate", !.refs = {}, !.todo = {}, !.lun = r.lun]
    BY <1>1, <1>9
  <2> QED BY <1>1, <1>7, <1>9, <2>1 DEF CallType
<1> QED BY <1>2, <1>4, <1>5, <1>6, <1>8, <1>9, RefuseActs DEF FoundVolume, CreateReply

LEMMA CreateActs ==
    ASSUME RInv, NEW c \in Calls,
           Pick(c) \/ LunCreate(c) \/ LunClone(c) \/ WaitClone(c) \/ LunGet(c)
    PROVE  Acts(c)
<1>1. /\ call \in [Calls -> CallType] /\ call[c] \in CallType /\ Busy(c)
      /\ call[c].pc \in {"Pick", "LunCreate", "LunClone", "WaitClone", "LunGet"}
      /\ HostInv(c) /\ PlaceInv
  BY DEF RInv, IInv, TypeOK, Pick, LunCreate, LunClone, WaitClone, LunGet, At, Busy
<1>2. ASSUME NEW p \in {"LunGet", "WaitClone"}, Goto(c, p), UNCHANGED clusterVars,
             call[c].pc # "Pick"
      PROVE  Acts(c)
  <2>1. call'[c] = [call[c] EXCEPT !.pc = p]
    BY <1>1, <1>2 DEF Goto
  <2>2. call'[c].pc = p /\ call'[c].host = call[c].host
    BY <1>1, <2>1 DEF CallType
  <2> QED BY <1>1, <1>2, <2>2 DEF Acts, Tells, HostInv, SeenInv, HostPcs, MappingPcs, clusterVars
<1>3. CASE Pick(c)
  <2>1. ASSUME NEW d \in call[c].todo, UNCHANGED clusterVars,
               \/ call' = [call EXCEPT ![c].pc = "LunCreate", ![c].host = d, ![c].todo = @ \ {d}]
               \/ call' = [call EXCEPT ![c].todo = @ \ {d}]
        PROVE  Acts(c)
    <3>1. \/ call'[c] = [call[c] EXCEPT !.pc = "LunCreate", !.host = d, !.todo = @ \ {d}]
          \/ call'[c] = [call[c] EXCEPT !.todo = @ \ {d}]
      BY <1>1, <2>1
    <3>2. \/ call'[c].pc = "LunCreate" /\ call'[c].host \in Dsms
          \/ call'[c].pc = "Pick"
      BY <1>1, <1>3, <3>1 DEF CallType, Pick, At
    <3> QED BY <2>1, <3>2 DEF Acts, Tells, HostInv, SeenInv, HostPcs, MappingPcs, clusterVars
  <2> QED BY <1>3, <2>1, RefuseActs DEF Pick, clusterVars
<1>4. CASE LunCreate(c)
  BY <1>2, <1>4, FailActs DEF LunCreate, At
<1>5. CASE LunClone(c)
  BY <1>2, <1>5, RefuseActs DEF LunClone, At
<1>6. CASE WaitClone(c)
  BY <1>2, <1>6, RefuseActs DEF WaitClone, At, clusterVars
<1>7. CASE LunGet(c)
  <2>1. ASSUME NEW u \in LunsNamed(call[c].host, call[c].name), UNCHANGED clusterVars,
               call' = [call EXCEPT ![c].pc = "TargetCreate", ![c].lun = u,
                                    ![c].lunSize = lun[u].size]
        PROVE  Acts(c)
    <3>1. call'[c] = [call[c] EXCEPT !.pc = "TargetCreate", !.lun = u, !.lunSize = lun[u].size]
      BY <1>1, <2>1
    <3>2. /\ call'[c].pc = "TargetCreate" /\ call'[c].lun = u /\ call'[c].host = call[c].host
          /\ lun[u].dsm = call[c].host /\ call[c].host \in Dsms /\ UNCHANGED lun
      BY <1>1, <1>7, <3>1 DEF CallType, LunsNamed, HostInv, HostPcs, LunGet, At
    <3> QED BY <2>1, <3>2 DEF Acts, Tells, HostInv, SeenInv, HostPcs, MappingPcs, clusterVars
  <2> QED BY <1>7, <2>1, FailActs DEF LunGet, clusterVars
<1> QED BY <1>3, <1>4, <1>5, <1>6, <1>7

LEMMA MapActs ==
    ASSUME RInv, NEW c \in Calls, Lasting,
           TargetCreate(c) \/ TargetGet(c) \/ TargetSet(c) \/ LunMapTarget(c)
    PROVE  Acts(c)
<1>1. /\ call \in [Calls -> CallType] /\ call[c] \in CallType /\ Busy(c)
      /\ call[c].pc \in MappingPcs /\ UNCHANGED lun /\ HostInv(c)
  BY DEF RInv, IInv, TypeOK, TargetCreate, TargetGet, TargetSet, LunMapTarget, At, Busy,
     MappingPcs
<1>2. call[c].pc \in {"TargetSet", "LunMapTarget"} =>
        /\ call[c].target \in Tids /\ BornTarget(call[c].target)
        /\ target'[call[c].target].dsm = target[call[c].target].dsm
  BY <1>1, Own DEF Lasting
<1>3. ASSUME NEW p \in {"TargetGet", "LunMapTarget"}, Goto(c, p), UNCHANGED clusterVars,
             p = "LunMapTarget" => call[c].pc = "TargetSet"
      PROVE  Acts(c)
  <2>1. call'[c] = [call[c] EXCEPT !.pc = p]
    BY <1>1, <1>3 DEF Goto
  <2>2. /\ call'[c].pc = p /\ call'[c].host = call[c].host /\ call'[c].lun = call[c].lun
        /\ call'[c].target = call[c].target
    BY <1>1, <2>1 DEF CallType
  <2> QED BY <1>1, <1>2, <1>3, <2>2 DEF Acts, Tells, HostInv, SeenInv, HostPcs, MappingPcs, clusterVars
<1>4. CASE TargetCreate(c) \/ TargetSet(c)
  BY <1>3, <1>4, FailActs DEF TargetCreate, TargetSet, At
<1>5. CASE TargetGet(c)
  <2>1. ASSUME NEW t \in TargetsNamed(call[c].host, call[c].name), UNCHANGED clusterVars,
               NEW p \in {"TargetSet", "LunMapTarget"},
               call' = [call EXCEPT ![c].pc = p, ![c].target = t]
        PROVE  Acts(c)
    <3>1. call'[c] = [call[c] EXCEPT !.pc = p, !.target = t]
      BY <1>1, <2>1
    <3>2. /\ call'[c].pc = p /\ call'[c].host = call[c].host /\ call'[c].lun = call[c].lun
          /\ call'[c].target = t /\ target'[t].dsm = call[c].host
      BY <1>1, <1>5, <3>1 DEF CallType, TargetsNamed, TargetGet
    <3> QED BY <1>1, <2>1, <3>2 DEF Acts, Tells, HostInv, SeenInv, HostPcs, MappingPcs, clusterVars
  <2> QED BY <1>5, <2>1, FailActs DEF TargetGet, clusterVars
<1>6. CASE LunMapTarget(c)
  <2>1. CASE CreateDone(c, call[c].lun)
    <3>1. call[c].lun \in Uuids /\ call[c].pc = "LunMapTarget"
      BY <1>1, <1>6, Own DEF LunMapTarget, At
    <3> QED BY <2>1, <3>1, EndActs DEF Acts, Tells, CreateDone
  <2> QED BY <1>6, <2>1, FailActs, RefuseActs DEF LunMapTarget, CreateReply
<1> QED BY <1>4, <1>5, <1>6

LEMMA DeletingActs ==
    ASSUME RInv, NEW c \in Calls,
           LunDelete(c) \/ LunCheck(c) \/ TargetDelete(c) \/ TargetCheck(c)
    PROVE  Acts(c)
<1>1. /\ call \in [Calls -> CallType] /\ call[c] \in CallType /\ Busy(c)
      /\ call[c].pc \in DeletePcs /\ SeenInv(c) /\ lun \in [Uuids -> LunType]
  BY DEF RInv, IInv, TypeOK, LunDelete, LunCheck, TargetDelete, TargetCheck, At, Busy, DeletePcs
<1>2. /\ call[c].op = "delete" /\ call[c].lun = call[c].id /\ call[c].lun \in Uuids
  BY <1>1, Own
<1>3. ASSUME DeleteDone(c), ~LiveLun(call[c].lun), UNCHANGED lun PROVE Acts(c)
  BY <1>1, <1>2, <1>3, DeleteActs DEF LiveLun
<1>4. ASSUME NEW p \in DeletePcs, Goto(c, p), UNCHANGED clusterVars,
             p \in {"TargetDelete", "TargetCheck"} => lun'[call[c].lun].st = "deleted"
      PROVE  Acts(c)
  <2>1. call'[c] = [call[c] EXCEPT !.pc = p]
    BY <1>1, <1>4 DEF Goto
  <2>2. call'[c].pc = p /\ call'[c].lun = call[c].lun
    BY <1>1, <2>1 DEF CallType
  <2> QED BY <1>4, <2>2 DEF Acts, Tells, HostInv, SeenInv, HostPcs, MappingPcs, DeletePcs,
             clusterVars
<1>5. CASE LunDelete(c)
  <2>1. CASE Goto(c, "LunCheck") /\ UNCHANGED clusterVars
    BY <1>4, <2>1 DEF DeletePcs
  <2>2. CASE /\ lun' = [lun EXCEPT ![call[c].lun].st = "deleted"]
             /\ (Goto(c, "TargetDelete") /\ UNCHANGED clusterVars) \/ DeleteDone(c)
    <3>1. lun'[call[c].lun].st = "deleted"
      BY <1>1, <1>2, <2>2 DEF LunType
    <3>2. \A u \in Uuids : u = call[c].id => ~LiveLun(u)'
      BY <1>2, <3>1 DEF LiveLun
    <3> QED BY <1>1, <1>2, <1>4, <2>2, <3>1, <3>2, DeleteActs DEF DeletePcs
  <2> QED BY <1>5, <2>1, <2>2 DEF LunDelete
<1>6. CASE LunCheck(c)
  BY <1>3, <1>6, RefuseActs DEF LunCheck
<1>7. CASE TargetDelete(c) \/ TargetCheck(c)
  <2>1. UNCHANGED lun /\ lun[call[c].lun].st = "deleted" /\ ~LiveLun(call[c].lun)
    BY <1>1, <1>7 DEF SeenInv, TargetDelete, TargetCheck, At, LiveLun
  <2> QED BY <1>3, <1>4, <1>7, <2>1, RefuseActs DEF TargetDelete, TargetCheck, DeletePcs
<1> QED BY <1>5, <1>6, <1>7

LEMMA UpdateActs ==
    ASSUME RInv, NEW c \in Calls, LunUpdate(c)
    PROVE  Acts(c)
BY EndActs, RefuseActs DEF LunUpdate, ExpandDone, Acts, Tells

LEMMA StepCalls ==
    ASSUME TypeOK, NEW c \in Calls, Step(c), NEW d \in Calls, d # c
    PROVE  call'[d] = call[d]
<1>0. call \in [Calls -> CallType]
  BY DEF TypeOK
<1>1. ASSUME Return(c) \/ CreateStepFails(c) \/ (\E p : Goto(c, p)) PROVE call'[d] = call[d]
  BY <1>0, <1>1 DEF Return, CreateStepFails, Refuse, Goto
<1>2. CASE TargetList(c) \/ LookupLun(c) \/ ListEnd(c)
  BY <1>0, <1>1, <1>2 DEF TargetList, LookupLun, ListEnd, FoundVolume, CreateReply, CreateDone,
     Refuse, NoVolume, DeleteNothing, DeleteDone
<1>3. CASE Pick(c) \/ LunCreate(c) \/ LunClone(c) \/ WaitClone(c) \/ LunGet(c)
  BY <1>0, <1>1, <1>3 DEF Pick, LunCreate, LunClone, WaitClone, LunGet, Refuse
<1>4. CASE TargetCreate(c) \/ TargetGet(c) \/ TargetSet(c) \/ LunMapTarget(c)
  BY <1>0, <1>1, <1>4 DEF TargetCreate, TargetGet, TargetSet, LunMapTarget, CreateReply,
     CreateDone, Refuse
<1>5. CASE LunDelete(c) \/ LunCheck(c) \/ TargetDelete(c) \/ TargetCheck(c) \/ LunUpdate(c)
  BY <1>0, <1>1, <1>5 DEF LunDelete, LunCheck, TargetDelete, TargetCheck, LunUpdate, DeleteDone,
     ExpandDone, Refuse
<1> QED BY <1>2, <1>3, <1>4, <1>5 DEF Step

LEMMA StepActs ==
    ASSUME ReadsWork, RInv, NEW c \in Calls, Step(c)
    PROVE  /\ Busy(c) /\ DsmEffect(c) /\ Acts(c) /\ UNCHANGED dsms
           /\ \A d \in Calls : d # c => call'[d] = call[d]
<1>1. Busy(c)
  BY DEF Step, TargetList, LookupLun, ListEnd, Pick, LunCreate, LunClone, WaitClone, LunGet,
     TargetCreate, TargetGet, TargetSet, LunMapTarget, LunDelete, LunCheck, TargetDelete,
     TargetCheck, LunUpdate, At, Busy
<1>2. DsmEffect(c) /\ UNCHANGED dsms /\ Lasting
  BY <1>1, StepDsm, EffectLasts DEF RInv
<1>3. Acts(c)
  BY <1>2, ListActs, LookupActs, CreateActs, MapActs, DeletingActs, UpdateActs DEF Step
<1>4. \A d \in Calls : d # c => call'[d] = call[d]
  BY StepCalls DEF RInv, IInv
<1> QED BY <1>1, <1>2, <1>3, <1>4

-----------------------------------------------------------------------------
(* The invariant.                                                          *)

\* What the cluster was told is not taken back.
PhasesLast ==
    \A n \in Names : phase[n] # "wanted" => phase'[n] # "wanted" /\ volumeId'[n] = volumeId[n]

LEMMA TellsLast ==
    ASSUME RInv, NEW c \in Calls, Tells(c)
    PROVE  PhasesLast
BY DEF RInv, IInv, TypeOK, Tells, CreateDone, DeleteDone, Answers, PhasesLast

\* A handler at rest keeps what it knows.
LEMMA OtherActs ==
    ASSUME RInv, IInv', NEW d \in Calls, call'[d] = call[d], Lasting, MappingsLast
    PROVE  HostInv(d)' /\ SeenInv(d)'
<1>1. HostInv(d) /\ SeenInv(d) /\ RequestInv(d) /\ CreateInv(d) /\ DeleteInv(d)
      /\ call[d] \in CallType
  BY DEF RInv, IInv, CallInv, TypeOK
<1>2. call[d].pc \in MappingPcs => /\ call[d].lun \in Uuids
                                   /\ lun'[call[d].lun].dsm = lun[call[d].lun].dsm
  BY <1>1 DEF CreateInv, Lasting
<1>3. call[d].pc \in {"TargetSet", "LunMapTarget"} =>
        target'[call[d].target].dsm = target[call[d].target].dsm
  BY <1>1 DEF CreateInv, Lasting
<1>4. HostInv(d)'
  BY <1>1, <1>2, <1>3 DEF HostInv
<1>5. ASSUME call[d].pc = "List", call[d].op = "delete", NEW u \in Uuids, u = call[d].id,
             LiveLun(u)'
      PROVE  \/ \E t \in TargetsOf(u)' : target'[t].dsm \in call[d].todo
             \/ \E r \in call[d].refs : r.lun = u
  <2>1. /\ phase[call[d].name] # "wanted" /\ u = volumeId[call[d].name]
        /\ call[d].name \in Names
    BY <1>1, <1>5 DEF RequestInv, Busy, Kept
  <2>2. BornLun(u) /\ LiveLun(u)
    BY <1>5, <2>1 DEF RInv, IInv, PhaseInv, Lasting
  <2>3. TargetsOf(u) \subseteq TargetsOf(u)'
    BY <1>5, <2>1 DEF MappingsLast
  <2>4. \A t \in TargetsOf(u) : t \in Tids /\ BornTarget(t)
    BY DEF TargetsOf, LiveTarget, BornTarget
  <2>5. \A t \in TargetsOf(u) : target'[t].dsm = target[t].dsm
    BY <2>4 DEF Lasting
  <2> QED BY <1>1, <1>5, <2>2, <2>3, <2>5 DEF SeenInv
<1>6. call[d].pc = "List" /\ call[d].op = "delete" => call[d].id \in Uuids
  BY <1>1 DEF RequestInv, Busy, Kept, RInv, IInv, PhaseInv
<1>7. call[d].pc \in {"TargetDelete", "TargetCheck"} => lun'[call[d].lun].st = "deleted"
  <2> SUFFICES ASSUME call[d].pc \in {"TargetDelete", "TargetCheck"}
               PROVE  lun'[call[d].lun].st = "deleted"
    OBVIOUS
  <2>1. call[d].lun \in Uuids /\ lun[call[d].lun].st = "deleted"
    BY <1>1, Own DEF SeenInv, DeletePcs, Busy
  <2>2. BornLun(call[d].lun) /\ ~LiveLun(call[d].lun)
    BY <2>1 DEF BornLun, LiveLun
  <2>3. lun'[call[d].lun].st \notin {"unborn", "cloning", "ready"}
    BY <2>1, <2>2 DEF Lasting, BornLun, LiveLun
  <2>4. lun'[call[d].lun] \in LunType
    BY <2>1 DEF IInv, TypeOK
  <2> QED BY <2>3, <2>4 DEF LunType
<1>8. SeenInv(d)'
  BY <1>5, <1>6, <1>7 DEF SeenInv, LiveLun
<1> QED BY <1>4, <1>8

\* A name moves from wanted to bound only, and to deleted when its LUN is gone.
PhasesMove ==
    \A n \in Names :
        /\ phase[n] = "wanted" => phase'[n] \in {"wanted", "bound"}
        /\ phase'[n] = "deleted" /\ phase[n] # "deleted" =>
             /\ phase[n] # "wanted"
             /\ \A u \in Uuids : u = volumeId[n] => ~LiveLun(u)'

LEMMA NextParts ==
    ASSUME RInv, IInv', PlaceInv', Lasting, MappingsLast, PhasesLast, PhasesMove,
           \A c \in Calls : HostInv(c)' /\ SeenInv(c)'
    PROVE  RInv'
<1>1. ASSUME NEW n \in Names, NEW u \in Uuids, phase[n] # "wanted", u = volumeId[n]
      PROVE  /\ LiveLun(u)' => LiveLun(u)
             /\ LiveLun(u)' => Mapped(u)'
  <2>1. LiveLun(u)' => LiveLun(u)
    BY <1>1 DEF RInv, IInv, PhaseInv, Lasting
  <2>2. LiveLun(u) => Mapped(u)
    BY <1>1 DEF RInv, MappedInv
  <2>3. LiveLun(u)' => TargetsOf(u) \subseteq TargetsOf(u)'
    BY <1>1 DEF MappingsLast
  <2> QED BY <2>1, <2>2, <2>3 DEF Mapped
<1>2. ASSUME NEW n \in Names, NEW u \in Uuids, phase'[n] # "wanted", u = volumeId'[n],
             LiveLun(u)'
      PROVE  Mapped(u)'
  <2>1. CASE phase[n] # "wanted"
    BY <1>1, <1>2, <2>1 DEF PhasesLast
  <2>2. CASE phase[n] = "wanted"
    <3>1. phase'[n] = "bound"
      BY <1>2, <2>2 DEF PhasesMove
    <3>2. Usable(n, volumeId[n])'
      BY <3>1 DEF IInv, BoundUsable
    <3> QED BY <1>2, <3>2 DEF Usable, Mapped, TargetsOf, LiveTarget
  <2> QED BY <2>1, <2>2
<1>3. MappedInv'
  BY <1>2 DEF MappedInv, IInv, PhaseInv, LiveLun, Mapped, TargetsOf, LiveTarget
<1>4. DeletedGone'
  <2> SUFFICES ASSUME NEW n \in Names, phase'[n] = "deleted"
               PROVE  volumeId'[n] # None /\ lun'[volumeId'[n]].st \notin {"cloning", "ready"}
    BY DEF DeletedGone, LiveLun
  <2>1. PICK u \in Uuids : u = volumeId'[n]
    BY DEF IInv, PhaseInv
  <2>2. phase[n] # "wanted" /\ u = volumeId[n]
    BY <2>1 DEF PhasesLast, PhasesMove
  <2>3. ~LiveLun(u)'
    BY <1>1, <2>2 DEF PhasesMove, RInv, DeletedGone
  <2> QED BY <2>1, <2>3, NoneIsNone DEF LiveLun
<1> QED BY <1>3, <1>4 DEF RInv

LEMMA StepRInv ==
    ASSUME ReadsWork, RInv, IInv', NEW c \in Calls, Step(c)
    PROVE  RInv'
<1>1. /\ Busy(c) /\ DsmEffect(c) /\ Acts(c) /\ UNCHANGED dsms
      /\ \A d \in Calls : d # c => call'[d] = call[d]
  BY StepActs
<1>2. Lasting /\ MappingsLast /\ PlaceInv' /\ PhasesLast
  BY <1>1, EffectLasts, EffectMappings, EffectPlace, TellsLast DEF Acts, RInv
<1>3. PhasesMove
  <2>1. Tells(c)
    BY <1>1 DEF Acts
  <2>2. CASE UNCHANGED <<phase, volumeId>>
    BY <2>2 DEF PhasesMove
  <2>3. ASSUME NEW u, CreateDone(c, u) PROVE PhasesMove
    BY <2>3 DEF RInv, IInv, TypeOK, CreateDone, Answers, PhasesMove
  <2>4. CASE /\ DeleteDone(c) /\ call[c].op = "delete"
             /\ \A u \in Uuids : u = call[c].id => ~LiveLun(u)'
    <3>1. call[c].id = volumeId[call[c].name]
      BY <1>1, <2>4 DEF RInv, IInv, CallInv, RequestInv
    <3> QED BY <2>4, <3>1 DEF RInv, IInv, TypeOK, DeleteDone, Answers, PhasesMove
  <2> QED BY <2>1, <2>2, <2>3, <2>4 DEF Tells
<1>4. \A d \in Calls : HostInv(d)' /\ SeenInv(d)'
  BY <1>1, <1>2, OtherActs DEF Acts
<1> QED BY <1>2, <1>3, <1>4, NextParts

LEMMA RestLasts ==
    ASSUME RInv, UNCHANGED target, UNCHANGED lun \/ \E u \in Uuids : CloneDone(u)
    PROVE  /\ Lasting /\ MappingsLast
           /\ UNCHANGED dsms => PlaceInv'
<1>1. /\ lun \in [Uuids -> LunType] /\ target \in [Tids -> TargetType]
  BY DEF RInv, IInv, TypeOK
<1>2. \A v \in Uuids : /\ lun'[v].name = lun[v].name /\ lun'[v].dsm = lun[v].dsm
                       /\ BornLun(v)' <=> BornLun(v)
                       /\ LiveLun(v)' <=> LiveLun(v)
  BY <1>1 DEF CloneDone, LunType, BornLun, LiveLun
<1>3. Lasting
  BY <1>2 DEF Lasting, BornTarget
<1>4. MappingsLast
  BY DEF MappingsLast, TargetsOf, LiveTarget
<1>5. UNCHANGED dsms => PlaceInv'
  BY <1>1, <1>2 DEF RInv, PlaceInv, BornTarget, TargetType
<1> QED BY <1>3, <1>4, <1>5

LEMMA StartRInv ==
    ASSUME RInv, IInv', NEW c \in Calls, NEW n \in Names,
           StartCreate(c, n) \/ StartExpand(c, n) \/ StartDelete(c, n)
    PROVE  RInv'
<1>1. PICK op, id, size :
        /\ Start(c, op, n, id, size)
        /\ op = "delete" => id = volumeId[n] /\ phase[n] # "wanted"
  BY DEF StartCreate, StartExpand, StartDelete
<1>2. /\ UNCHANGED <<lun, target, dsms, phase, volumeId>>
      /\ \A d \in Calls : d # c => call'[d] = call[d]
      /\ call'[c].pc = "List" /\ call'[c].op = op /\ call'[c].id = id /\ call'[c].todo = Dsms
  BY <1>1 DEF Start, RInv, IInv, TypeOK, PlaceInv, IdleCall
<1>3. Lasting /\ MappingsLast /\ PlaceInv'
  BY <1>2, RestLasts
<1>4. PhasesLast /\ PhasesMove
  BY <1>2 DEF PhasesLast, PhasesMove
<1>5. HostInv(c)'
  BY <1>2 DEF HostInv, HostPcs, MappingPcs
<1>6. SeenInv(c)'
  <2> SUFFICES ASSUME op = "delete", LiveLun(id)
               PROVE  \E t \in TargetsOf(id) : target[t].dsm \in Dsms
    BY <1>2 DEF SeenInv, LiveLun, TargetsOf, LiveTarget
  <2>1. Mapped(id)
    BY <1>1 DEF RInv, MappedInv
  <2> QED BY <2>1 DEF Mapped, TargetsOf, LiveTarget, BornTarget, RInv, PlaceInv
<1> QED BY <1>2, <1>3, <1>4, <1>5, <1>6, OtherActs, NextParts

LEMMA InitRInv ==
    ASSUME ReadsWork, Init
    PROVE  RInv
<1>1. IInv
  BY InitIInv
<1>2. PlaceInv /\ MappedInv /\ DeletedGone
  BY DEF Init, Logins, ReadsWork, PlaceInv, MappedInv, DeletedGone, BornLun, BornTarget
<1>3. \A c \in Calls : HostInv(c) /\ SeenInv(c)
  BY DEF Init, HostInv, SeenInv, HostPcs, MappingPcs, IdleCall
<1> QED BY <1>1, <1>2, <1>3 DEF RInv

\* A step that is no handler's and changes nothing the cluster was told, but
\* for a release.
LEMMA QuietRInv ==
    ASSUME RInv, IInv', UNCHANGED <<target, volumeId>>, PlaceInv',
           UNCHANGED lun \/ \E u \in Uuids : CloneDone(u),
           \A n \in Names : phase'[n] = phase[n] \/ (phase[n] = "bound" /\ phase'[n] = "released"),
           \A c \in Calls : call'[c] = call[c] \/ (HostInv(c)' /\ SeenInv(c)')
    PROVE  RInv'
<1>1. Lasting /\ MappingsLast
  BY RestLasts
<1>2. PhasesLast /\ PhasesMove
  BY DEF PhasesLast, PhasesMove
<1> QED BY <1>1, <1>2, OtherActs, NextParts

LEMMA NextRInv ==
    ASSUME ReadsWork, RInv, [Next]_vars
    PROVE  RInv'
<1>0. IInv'
  BY NextIInv DEF RInv
<1>1. ASSUME NEW c \in Calls, Step(c) PROVE RInv'
  BY <1>0, <1>1, StepRInv
<1>2. ASSUME NEW c \in Calls, NEW n \in Names,
             StartCreate(c, n) \/ StartExpand(c, n) \/ StartDelete(c, n)
      PROVE  RInv'
  BY <1>0, <1>2, StartRInv
<1>3. ASSUME NEW n \in Names, Release(n) PROVE RInv'
  <2>1. PlaceInv'
    BY <1>3, RestLasts DEF Release
  <2>2. \A m \in Names : phase'[m] = phase[m] \/ (phase[m] = "bound" /\ phase'[m] = "released")
    BY <1>3 DEF Release, RInv, IInv, TypeOK
  <2> QED BY <1>0, <1>3, <2>1, <2>2, QuietRInv DEF Release
<1>4. ASSUME NEW c \in Calls, Deadline(c) PROVE RInv'
  <2>1. PlaceInv'
    BY <1>4, RestLasts DEF Deadline
  <2>2. /\ call[c] \in CallType /\ call'[c] = [call[c] EXCEPT !.live = FALSE]
        /\ \A d \in Calls : d # c => call'[d] = call[d]
    BY <1>4 DEF Deadline, RInv, IInv, TypeOK
  <2>3. /\ call'[c].pc = call[c].pc /\ call'[c].host = call[c].host /\ call'[c].op = call[c].op
        /\ call'[c].lun = call[c].lun /\ call'[c].target = call[c].target
        /\ call'[c].id = call[c].id /\ call'[c].todo = call[c].todo
        /\ call'[c].refs = call[c].refs
    BY <2>2 DEF CallType
  <2>4. HostInv(c)' /\ SeenInv(c)'
    BY <1>4, <2>3 DEF RInv, HostInv, SeenInv, Deadline, LiveLun, TargetsOf, LiveTarget
  <2> QED BY <1>0, <1>4, <2>1, <2>2, <2>4, QuietRInv DEF Deadline
<1>5. CASE Restart
  <2>1. dsms' = Dsms
    BY <1>5 DEF Restart, Logins, ReadsWork
  <2>2. PlaceInv'
    BY <1>5, <2>1 DEF Restart, RInv, PlaceInv, BornLun, BornTarget
  <2>3. \A c \in Calls : HostInv(c)' /\ SeenInv(c)'
    BY <1>5 DEF Restart, HostInv, SeenInv, HostPcs, MappingPcs, IdleCall
  <2> QED BY <1>0, <1>5, <2>2, <2>3, QuietRInv DEF Restart, clusterVars
<1>6. ASSUME NEW u \in Uuids, CloneDone(u) PROVE RInv'
  <2>1. PlaceInv'
    BY <1>6, RestLasts DEF CloneDone
  <2> QED BY <1>0, <1>6, <2>1, QuietRInv DEF CloneDone
<1>7. CASE Finished \/ UNCHANGED vars
  <2>1. UNCHANGED <<lun, target, dsms, call, phase, volumeId>>
    BY <1>7 DEF Finished, vars
  <2>2. PlaceInv'
    BY <2>1, RestLasts
  <2> QED BY <1>0, <2>1, <2>2, QuietRInv
<1> QED BY <1>1, <1>2, <1>3, <1>4, <1>5, <1>6, <1>7 DEF Next

-----------------------------------------------------------------------------
(* The refinement.                                                         *)

\* What is bound after a step can be attached then.
LEMMA BoundAttachable ==
    ASSUME IInv'
    PROVE  \A n \in Names : phase'[n] = "bound" => volumeId'[n] \in UsableVolumes'
<1> SUFFICES ASSUME NEW n \in Names, phase'[n] = "bound"
             PROVE  volumeId'[n] \in UsableVolumes'
  OBVIOUS
<1>1. PICK u : u = volumeId'[n]
  OBVIOUS
<1>2. u \in Uuids /\ Usable(n, u)' /\ n # None
  BY <1>1, NoneIsNone DEF IInv, BoundUsable, PhaseInv, Usable, TargetsOf, LiveTarget
<1> QED BY <1>1, <1>2 DEF UsableVolumes, Usable

\* A change of one volume that the cluster is told nothing of.
LEMMA UntoldStep ==
    ASSUME IInv, IInv', UNCHANGED <<phase, volumeId>>, NEW u \in Uuids,
           \/ UsableVolumes' = UsableVolumes
           \/ UsableVolumes' = UsableVolumes \cup {u}
           \/ UsableVolumes' = UsableVolumes \ {u}
    PROVE  Store!Next \/ UNCHANGED Store!vars
<1>1. CASE UsableVolumes' = UsableVolumes
  BY <1>1 DEF Store!vars
<1>2. CASE UsableVolumes' = UsableVolumes \cup {u}
  BY <1>2 DEF Store!Next, Store!Appear
<1>3. CASE UsableVolumes' = UsableVolumes \ {u}
  <2>1. \A n \in Names : phase[n] = "bound" => volumeId[n] # u
    BY <1>3, BoundAttachable
  <2>2. ~Store!Bound(u)
    BY <2>1 DEF Store!Bound
  <2> QED BY <1>3, <2>2 DEF Store!Next, Store!Vanish
<1> QED BY <1>1, <1>2, <1>3

LEMMA QuietStore ==
    ASSUME UNCHANGED <<lun, target>>
    PROVE  UsableVolumes' = UsableVolumes
BY DEF UsableVolumes, Usable, TargetsOf, LiveTarget

LEMMA StepStore ==
    ASSUME ReadsWork, RInv, IInv', NEW c \in Calls, Step(c)
    PROVE  Store!Next \/ UNCHANGED Store!vars
<1>1. Busy(c) /\ DsmEffect(c) /\ Tells(c)
  BY StepActs DEF Acts
<1>2. UsablesChange(c)
  BY <1>1, EffectUsables
<1>3. /\ phase \in [Names -> {"wanted", "bound", "released", "deleted"}]
      /\ volumeId \in [Names -> Uuids \cup {None}]
      /\ call[c].name \in Names /\ RequestInv(c)
  BY <1>1 DEF RInv, IInv, TypeOK, CallInv, RequestInv
<1>4. CASE UNCHANGED <<phase, volumeId>>
  <2>1. CASE UsableVolumes' = UsableVolumes
    BY <1>4, <2>1 DEF Store!vars
  <2>2. CASE call[c].pc = "LunMapTarget" /\ UsableVolumes' = UsableVolumes \cup {call[c].lun}
    <3>1. PICK u \in Uuids : u = call[c].lun
      BY <1>1, <2>2, Own DEF MappingPcs
    <3> QED BY <1>4, <2>2, <3>1, UntoldStep DEF RInv
  <2>3. ASSUME NEW u \in Uuids, UsableVolumes' = UsableVolumes \ {u}
        PROVE  Store!Next \/ UNCHANGED Store!vars
    BY <1>4, <2>3, UntoldStep DEF RInv
  <2> QED BY <1>2, <2>1, <2>2, <2>3 DEF UsablesChange
<1>5. ASSUME Answers(c, "wanted"), NEW u \in Uuids, CreateDone(c, u),
             call[c].pc = "List" \/ (call[c].pc = "LunMapTarget" /\ u = call[c].lun)
      PROVE  Store!Next
  <2> DEFINE n == call[c].name
  <2>1. /\ phase[n] = "wanted"
        /\ phase' = [phase EXCEPT ![n] = "bound"]
        /\ volumeId' = [volumeId EXCEPT ![n] = u]
    BY <1>5 DEF CreateDone, Answers
  <2>2. u \in UsableVolumes'
    BY <1>3, <2>1, BoundAttachable
  <2>3. UsableVolumes' = UsableVolumes \cup {u}
    BY <1>2, <1>5, <2>2 DEF UsablesChange, DeletePcs
  <2>4. Store!Create(n, u)
    BY <2>1, <2>3 DEF Store!Create
  <2> QED BY <1>3, <2>4 DEF Store!Next
<1>6. ASSUME Answers(c, "released"), DeleteDone(c), call[c].op = "delete",
             call[c].pc \in {"List"} \cup DeletePcs,
             \A u \in Uuids : u = call[c].id => ~LiveLun(u)'
      PROVE  Store!Next
  <2>1. PICK n \in Names : n = call[c].name
    BY <1>3
  <2>2. /\ phase[n] = "released" /\ volumeId' = volumeId
        /\ phase' = [phase EXCEPT ![n] = "deleted"]
    BY <1>6, <2>1 DEF DeleteDone, Answers
  <2>3. UsableVolumes' \subseteq UsableVolumes
    BY <1>2, <1>6 DEF UsablesChange, DeletePcs
  <2> DEFINE gone == UsableVolumes \ UsableVolumes'
  <2>4. \A m \in Names : phase[m] = "bound" => volumeId[m] \in UsableVolumes'
    <3>1. \A m \in Names : phase[m] = "bound" => phase'[m] = "bound"
      BY <1>3, <2>2
    <3> QED BY <2>2, <3>1, BoundAttachable
  <2>5. \A u \in gone : ~Store!Bound(u)
    BY <2>4 DEF Store!Bound
  <2>6. volumeId[n] \notin UsableVolumes'
    <3>1. volumeId[n] = call[c].id
      BY <1>1, <1>3, <1>6, <2>1 DEF RequestInv
    <3>2. \A u \in UsableVolumes' : u \in Uuids /\ lun'[u].st = "ready"
      BY DEF UsableVolumes, Usable
    <3> QED BY <1>6, <3>1, <3>2 DEF LiveLun
  <2>7. gone \in SUBSET UsableVolumes /\ UsableVolumes' = UsableVolumes \ gone
    BY <2>3
  <2>8. Store!Delete(n)
    <3> HIDE DEF gone
    <3> QED BY <2>2, <2>5, <2>6, <2>7 DEF Store!Delete
  <2> QED BY <2>8 DEF Store!Next
<1> QED BY <1>1, <1>4, <1>5, <1>6 DEF Tells

LEMMA NextStore ==
    ASSUME ReadsWork, RInv, IInv', [Next]_vars
    PROVE  Store!Next \/ UNCHANGED Store!vars
<1>1. ASSUME NEW c \in Calls, Step(c) PROVE Store!Next \/ UNCHANGED Store!vars
  BY <1>1, StepStore
<1>2. ASSUME UNCHANGED <<lun, target, phase, volumeId>> PROVE UNCHANGED Store!vars
  BY <1>2, QuietStore DEF Store!vars
<1>3. ASSUME NEW c \in Calls, NEW n \in Names,
             StartCreate(c, n) \/ StartExpand(c, n) \/ StartDelete(c, n)
      PROVE  UNCHANGED Store!vars
  BY <1>2, <1>3 DEF StartCreate, StartExpand, StartDelete, Start
<1>4. ASSUME NEW n \in Names, Release(n) PROVE Store!Next
  <2>1. UsableVolumes' = UsableVolumes
    BY <1>4, QuietStore DEF Release
  <2>2. Store!Release(n)
    BY <1>4, <2>1 DEF Release, Store!Release
  <2> QED BY <2>2 DEF Store!Next
<1>5. CASE (\E c \in Calls : Deadline(c)) \/ Restart \/ Finished \/ UNCHANGED vars
  BY <1>2, <1>5 DEF Deadline, Restart, Finished, vars
<1>6. ASSUME NEW u \in Uuids, CloneDone(u) PROVE Store!Next \/ UNCHANGED Store!vars
  <2>1. \A v \in Uuids : v # u => lun'[v] = lun[v]
    BY <1>6 DEF CloneDone, RInv, IInv, TypeOK
  <2>2. \A v \in Uuids : v # u => (Attachable(v)' <=> Attachable(v))
    BY <1>6, <2>1 DEF CloneDone, Attachable, Usable, TargetsOf, LiveTarget
  <2> QED BY <1>6, <2>2, OneUsable, UntoldStep DEF CloneDone, RInv
<1> QED BY <1>1, <1>3, <1>4, <1>5, <1>6 DEF Next

\* A reported deletion is real: as long as the listings and the logins work,
\* DeleteVolume never takes a volume for gone that it just did not see, whatever
\* else fails, crashes or is given up.
THEOREM DeletionsReal == ASSUME ReadsWork PROVE Spec => []DeletedGone
<1>1. Init => RInv
  BY InitRInv
<1>2. RInv /\ [Next]_vars => RInv'
  BY NextRInv
<1>3. RInv => DeletedGone
  BY DEF RInv
<1> QED BY <1>1, <1>2, <1>3, PTL DEF Spec

\* The driver and its DSMs implement the volume store, as long as the listings
\* and the logins work: every web-API call of every handler, every crash and
\* every abandoned call is a step of VolumeStore or none at all.
THEOREM StoreImplemented == ASSUME ReadsWork PROVE Spec => ImplementsStore
<1>1. Init => RInv /\ Store!Init
  <2>1. Init => UsableVolumes = {}
    BY DEF Init, UsableVolumes, Usable
  <2> QED BY <2>1, InitRInv DEF Init, Store!Init
<1>2. RInv /\ [Next]_vars => RInv'
  BY NextRInv
<1>3. RInv /\ RInv' /\ [Next]_vars => [Store!Next]_(Store!vars)
  <2>1. RInv' => IInv'
    BY DEF RInv
  <2> QED BY <2>1, NextStore
<1> QED BY <1>1, <1>2, <1>3, PTL DEF Spec, ImplementsStore, Store!Spec

-----------------------------------------------------------------------------
(* 3. A cluster that waits.                                                *)


\* The handlers of the cluster's calls, one for each name at most.
Alone ==
    \A c, d \in Calls : Busy(c) /\ Busy(d) /\ call[c].name = call[d].name => c = d

\* What a handler knows of sizes is still true when it uses it.
SizeInv(c) ==
    Busy(c) =>
        /\ call[c].live
        /\ call[c].op = "create" => call[c].size = Request[call[c].name].size
        /\ call[c].pc \in MappingPcs => lun[call[c].lun].size >= call[c].lunSize
        /\ call[c].op = "expand" => /\ phase[call[c].name] # "wanted"
                                    /\ call[c].id = volumeId[call[c].name]
        /\ call[c].pc = "LunUpdate" => /\ call[c].lun = call[c].id
                                       /\ call[c].size >= lun[call[c].lun].size

\* A wanted volume was promised the size of its request.
PromiseInv == \A n \in Names : phase[n] = "wanted" => capacity[n] = Request[n].size

SInv == /\ IInv
        /\ Alone /\ PromiseInv /\ CapacityKept
        /\ \A c \in Calls : SizeInv(c)

-----------------------------------------------------------------------------
(* What one step of a handler does to LUN sizes, to the cluster's view and *)
(* to the handler.                                                         *)

SizesKept == \A u \in Uuids : BornLun(u) => lun'[u].size = lun[u].size
SizesGrow == \A u \in Uuids : BornLun(u) => lun'[u].size >= lun[u].size

Resized(c) ==
    /\ call[c].pc = "LunUpdate"
    /\ lun' = [lun EXCEPT ![call[c].lun].size = call[c].size]

Informs(c) ==
    \/ UNCHANGED clusterVars
    \/ /\ call[c].op = "create"
       /\ \E u \in Uuids : CreateDone(c, u) /\ lun'[u].size >= call[c].size
    \/ DeleteDone(c)
    \/ /\ call[c].op = "expand" /\ call[c].pc = "LunUpdate"
       /\ ExpandDone(c) /\ lun'[call[c].lun].size >= call[c].size

Progress(c) ==
    /\ Busy(c)
    /\ \A d \in Calls : d # c => call'[d] = call[d]
    /\ Busy(c)' =>
         /\ call'[c].name = call[c].name /\ call'[c].live = call[c].live
         /\ call'[c].op = call[c].op /\ call'[c].id = call[c].id
         /\ call'[c].size = call[c].size
         /\ call'[c].pc \in MappingPcs =>
              \/ /\ UNCHANGED lun /\ call'[c].lun \in Uuids
                 /\ call'[c].lunSize = lun[call'[c].lun].size
              \/ /\ call[c].pc \in MappingPcs /\ call'[c].lun = call[c].lun
                 /\ call'[c].lunSize = call[c].lunSize
         /\ call'[c].pc = "LunUpdate" =>
              /\ UNCHANGED lun
              /\ call'[c].lun = call[c].id
              /\ call[c].size >= lun[call'[c].lun].size

LEMMA EndProgress ==
    ASSUME TypeOK, NEW c \in Calls, Busy(c), Return(c)
    PROVE  Progress(c)
BY DEF TypeOK, Return, Progress, Busy, IdleCall

LEMMA MoveProgress ==
    ASSUME TypeOK, NEW c \in Calls, Busy(c), NEW p, Goto(c, p), p # "LunUpdate",
           p \in MappingPcs => call[c].pc \in MappingPcs
    PROVE  Progress(c)
<1>1. call \in [Calls -> CallType] /\ call[c] \in CallType
  BY DEF TypeOK
<1>2. /\ call'[c] = [call[c] EXCEPT !.pc = p]
      /\ \A d \in Calls : d # c => call'[d] = call[d]
  BY <1>1 DEF Goto
<1> QED BY <1>1, <1>2 DEF Progress, CallType

LEMMA FailProgress ==
    ASSUME TypeOK, NEW c \in Calls, Busy(c), CreateStepFails(c)
    PROVE  Progress(c) /\ UNCHANGED clusterVars
BY EndProgress, MoveProgress DEF CreateStepFails, Refuse, MappingPcs

\* What a step of handler c has to do with sizes.
Effect(c) == Progress(c) /\ Informs(c) /\ (SizesKept \/ Resized(c))

LEMMA NoSizes == ASSUME UNCHANGED lun PROVE SizesKept
BY DEF SizesKept

LEMMA NewLunSizes ==
    ASSUME TypeOK, NEW u \in UnbornLuns, NEW st, NEW d, NEW n, NEW size,
           NewLun(u, st, d, n, size)
    PROVE  SizesKept
BY DEF TypeOK, UnbornLuns, NewLun, SizesKept, BornLun

LEMMA ListEffect ==
    ASSUME SInv, NEW c \in Calls, TargetList(c) \/ ListEnd(c)
    PROVE  Effect(c)
<1>1. /\ TypeOK /\ Busy(c) /\ call \in [Calls -> CallType] /\ call[c] \in CallType
      /\ call[c].pc = "List" /\ UNCHANGED lun
  BY DEF SInv, IInv, TypeOK, TargetList, ListEnd, At, Busy
<1>2. ASSUME TargetList(c) PROVE Progress(c) /\ UNCHANGED clusterVars
  <2>1. PICK d \in call[c].todo, refs \in SUBSET RefType :
          call' = [call EXCEPT ![c].todo = @ \ {d}, ![c].refs = refs]
    BY <1>2 DEF TargetList, RefsOn
  <2>2. /\ call'[c] = [call[c] EXCEPT !.todo = @ \ {d}, !.refs = refs]
        /\ \A b \in Calls : b # c => call'[b] = call[b]
    BY <1>1, <2>1
  <2> QED BY <1>1, <1>2, <2>2 DEF Progress, CallType, MappingPcs, TargetList, clusterVars
<1>3. ASSUME ListEnd(c) PROVE Progress(c) /\ Informs(c)
  <2>1. CASE Refuse(c) \/ DeleteDone(c)
    BY <1>1, <2>1, EndProgress DEF Refuse, DeleteDone, Informs
  <2>2. CASE UNCHANGED clusterVars /\
             call' = [call EXCEPT ![c].pc = "Pick", ![c].byName = FALSE,
                                  ![c].todo = HostsFor(c)]
    <3>1. /\ call'[c] = [call[c] EXCEPT !.pc = "Pick", !.byName = FALSE, !.todo = HostsFor(c)]
          /\ \A b \in Calls : b # c => call'[b] = call[b]
      BY <1>1, <2>2
    <3> QED BY <1>1, <2>2, <3>1 DEF Progress, Informs, CallType, MappingPcs
  <2>3. CASE call[c].byName /\ UNCHANGED clusterVars /\
             call' = [call EXCEPT ![c].byName = FALSE, ![c].todo = dsms]
    <3>1. /\ call'[c] = [call[c] EXCEPT !.byName = FALSE, !.todo = dsms]
          /\ \A b \in Calls : b # c => call'[b] = call[b]
      BY <1>1, <2>3
    <3> QED BY <1>1, <2>3, <3>1 DEF Progress, Informs, CallType, MappingPcs
  <2> QED BY <1>3, <2>1, <2>2, <2>3 DEF ListEnd, NoVolume, DeleteNothing
<1> QED BY <1>1, <1>2, <1>3, NoSizes DEF Effect, Informs

LEMMA LookupEffect ==
    ASSUME SInv, NEW c \in Calls, LookupLun(c)
    PROVE  Effect(c)
<1>1. /\ TypeOK /\ Busy(c) /\ call \in [Calls -> CallType] /\ call[c] \in CallType
      /\ call[c].pc = "List" /\ UNCHANGED lun /\ RequestInv(c)
  BY DEF SInv, IInv, TypeOK, LookupLun, At, Busy, CallInv
<1>2. PICK r \in call[c].refs :
        \/ LiveLun(r.lun) /\ Matches(c, r.lun) /\ FoundVolume(c, r)
        \/ call' = [call EXCEPT ![c].refs = @ \ {r}] /\ UNCHANGED clusterVars
  BY DEF LookupLun
<1>3. r.lun \in Uuids /\ lun[r.lun] \in LunType
  BY <1>1 DEF CallType, RefType, TypeOK
<1>4. CASE call' = [call EXCEPT ![c].refs = @ \ {r}] /\ UNCHANGED clusterVars
  <2>1. /\ call'[c] = [call[c] EXCEPT !.refs = @ \ {r}]
        /\ \A b \in Calls : b # c => call'[b] = call[b]
    BY <1>1, <1>4
  <2> QED BY <1>1, <1>4, <2>1, NoSizes DEF Effect, Progress, Informs, CallType, MappingPcs
<1>5. CASE Refuse(c)
  BY <1>1, <1>5, EndProgress, NoSizes DEF Refuse, Effect, Informs
<1>6. CASE call[c].byName /\ lun[r.lun].size = call[c].size /\ CreateDone(c, r.lun)
  <2>1. call[c].op = "create" /\ lun'[r.lun].size >= call[c].size
    BY <1>1, <1>3, <1>6 DEF RequestInv, LunType
  <2> QED BY <1>1, <1>3, <1>6, <2>1, EndProgress, NoSizes DEF CreateDone, Effect, Informs
<1>7. CASE /\ UNCHANGED clusterVars
           /\ call' = [call EXCEPT ![c].pc = "LunClone", ![c].refs = {},
                                   ![c].todo = {}, ![c].host = lun[r.lun].dsm]
  <2>1. /\ call'[c] = [call[c] EXCEPT !.pc = "LunClone", !.refs = {}, !.todo = {},
                                      !.host = lun[r.lun].dsm]
        /\ \A b \in Calls : b # c => call'[b] = call[b]
    BY <1>1, <1>7
  <2> QED BY <1>1, <1>7, <2>1, NoSizes DEF Effect, Progress, Informs, CallType, MappingPcs
<1>8. CASE /\ UNCHANGED clusterVars
           /\ call' = [call EXCEPT ![c].pc = "LunDelete", ![c].refs = {},
                          ![c].todo = {}, ![c].lun = r.lun,
                          ![c].target = r.target, ![c].only = r.only]
  <2>1. /\ call'[c] = [call[c] EXCEPT !.pc = "LunDelete", !.refs = {}, !.todo = {},
                         !.lun = r.lun, !.target = r.target, !.only = r.only]
        /\ \A b \in Calls : b # c => call'[b] = call[b]
    BY <1>1, <1>8
  <2> QED BY <1>1, <1>8, <2>1, NoSizes DEF Effect, Progress, Informs, CallType, MappingPcs
<1>9. CASE /\ UNCHANGED clusterVars /\ call[c].op = "expand" /\ ~WouldShrink(c, r.lun)
           /\ Matches(c, r.lun)
           /\ call' = [call EXCEPT ![c].pc = "LunUpdate", ![c].refs = {},
                                   ![c].todo = {}, ![c].lun = r.lun]
  <2>1. /\ call'[c] = [call[c] EXCEPT !.pc = "LunUpdate", !.refs = {}, !.todo = {},
                         !.lun = r.lun]
        /\ \A b \in Calls : b # c => call'[b] = call[b]
    BY <1>1, <1>9
  <2>2. r.lun = call[c].id
    BY <1>1, <1>9 DEF Matches, RequestInv
  <2>3. call[c].size >= lun[r.lun].size
    BY <1>1, <1>3, <1>9 DEF WouldShrink, CallType, LunType
  <2> QED BY <1>1, <1>9, <2>1, <2>2, <2>3, NoSizes DEF Effect, Progress, Informs, CallType, MappingPcs
<1> QED BY <1>2, <1>4, <1>5, <1>6, <1>7, <1>8, <1>9 DEF FoundVolume, CreateReply

LEMMA CreateEffect ==
    ASSUME SInv, NEW c \in Calls,
           Pick(c) \/ LunCreate(c) \/ LunClone(c) \/ WaitClone(c) \/ LunGet(c)
    PROVE  Effect(c)
<1>1. /\ TypeOK /\ Busy(c) /\ call \in [Calls -> CallType] /\ call[c] \in CallType
      /\ call[c].pc \in CreatePcs
  BY DEF SInv, IInv, TypeOK, Pick, LunCreate, LunClone, WaitClone, LunGet, At, Busy, CreatePcs
<1>2. ASSUME Refuse(c) \/ CreateStepFails(c) PROVE Progress(c) /\ Informs(c)
  BY <1>1, <1>2, EndProgress, FailProgress DEF Refuse, Informs
<1>3. CASE Pick(c)
  <2>1. UNCHANGED lun
    BY <1>3 DEF Pick
  <2>2. ASSUME NEW d \in call[c].todo, UNCHANGED clusterVars,
               \/ call' = [call EXCEPT ![c].pc = "LunCreate", ![c].host = d, ![c].todo = @ \ {d}]
               \/ call' = [call EXCEPT ![c].todo = @ \ {d}]
        PROVE  Progress(c) /\ Informs(c)
    <3>1. /\ \/ call'[c] = [call[c] EXCEPT !.pc = "LunCreate", !.host = d, !.todo = @ \ {d}]
             \/ call'[c] = [call[c] EXCEPT !.todo = @ \ {d}]
          /\ \A b \in Calls : b # c => call'[b] = call[b]
      BY <1>1, <2>2
    <3>2. call[c].pc = "Pick"
      BY <1>3 DEF Pick, At
    <3> QED BY <1>1, <2>2, <3>1, <3>2 DEF Progress, Informs, CallType, MappingPcs
  <2> QED BY <1>2, <1>3, <2>1, <2>2, NoSizes DEF Pick, Effect, clusterVars
<1>4. CASE LunCreate(c)
  <2>1. SizesKept
    BY <1>1, <1>4, NoSizes, NewLunSizes DEF LunCreate
  <2>2. ASSUME Goto(c, "LunGet"), UNCHANGED clusterVars PROVE Progress(c) /\ Informs(c)
    BY <1>1, <2>2, MoveProgress DEF Informs, MappingPcs
  <2> QED BY <1>2, <1>4, <2>1, <2>2, MoveProgress DEF LunCreate, Effect, Informs
<1>5. CASE LunClone(c)
  <2>1. SizesKept
    BY <1>1, <1>5, NoSizes, NewLunSizes DEF LunClone
  <2>2. ASSUME Goto(c, "WaitClone"), UNCHANGED clusterVars PROVE Progress(c) /\ Informs(c)
    BY <1>1, <2>2, MoveProgress DEF Informs, MappingPcs
  <2> QED BY <1>2, <1>5, <2>1, <2>2 DEF LunClone, Effect, Informs
<1>6. CASE WaitClone(c)
  <2>1. ASSUME Goto(c, "LunGet"), UNCHANGED clusterVars PROVE Progress(c) /\ Informs(c)
    BY <1>1, <2>1, MoveProgress DEF Informs, MappingPcs
  <2> QED BY <1>2, <1>6, <2>1, NoSizes DEF WaitClone, Effect, Informs, clusterVars
<1>7. CASE LunGet(c)
  <2>1. UNCHANGED lun
    BY <1>7 DEF LunGet
  <2>2. ASSUME NEW u \in Uuids, UNCHANGED clusterVars,
               call' = [call EXCEPT ![c].pc = "TargetCreate", ![c].lun = u,
                                    ![c].lunSize = lun[u].size]
        PROVE  Progress(c) /\ Informs(c)
    <3>1. /\ call'[c] = [call[c] EXCEPT !.pc = "TargetCreate", !.lun = u,
                                        !.lunSize = lun[u].size]
          /\ \A b \in Calls : b # c => call'[b] = call[b]
      BY <1>1, <2>2
    <3> QED BY <1>1, <2>1, <2>2, <3>1 DEF Progress, Informs, CallType
  <2> QED BY <1>2, <1>7, <2>1, <2>2, NoSizes DEF LunGet, LunsNamed, Effect, clusterVars
<1> QED BY <1>3, <1>4, <1>5, <1>6, <1>7

LEMMA MapEffectSizes ==
    ASSUME SInv, NEW c \in Calls,
           TargetCreate(c) \/ TargetGet(c) \/ TargetSet(c) \/ LunMapTarget(c)
    PROVE  Effect(c)
<1>1. /\ TypeOK /\ Busy(c) /\ call \in [Calls -> CallType] /\ call[c] \in CallType
      /\ call[c].pc \in MappingPcs /\ UNCHANGED lun
  BY DEF SInv, IInv, TypeOK, TargetCreate, TargetGet, TargetSet, LunMapTarget, At, Busy, MappingPcs
<1>2. ASSUME CreateStepFails(c) PROVE Progress(c) /\ Informs(c)
  BY <1>1, <1>2, FailProgress DEF Informs
<1>3. ASSUME NEW p \in MappingPcs, Goto(c, p), UNCHANGED clusterVars
      PROVE  Progress(c) /\ Informs(c)
  BY <1>1, <1>3, MoveProgress DEF Informs, MappingPcs
<1>4. CASE TargetCreate(c) \/ TargetSet(c)
  BY <1>1, <1>2, <1>3, <1>4, NoSizes DEF TargetCreate, TargetSet, Effect, MappingPcs
<1>5. CASE TargetGet(c)
  <2>1. ASSUME NEW t, NEW p \in {"TargetSet", "LunMapTarget"}, UNCHANGED clusterVars,
               call' = [call EXCEPT ![c].pc = p, ![c].target = t]
        PROVE  Progress(c) /\ Informs(c)
    <3>1. /\ call'[c] = [call[c] EXCEPT !.pc = p, !.target = t]
          /\ \A b \in Calls : b # c => call'[b] = call[b]
      BY <1>1, <2>1
    <3> QED BY <1>1, <2>1, <3>1 DEF Progress, Informs, CallType, MappingPcs
  <2> QED BY <1>1, <1>2, <1>5, <2>1, NoSizes DEF TargetGet, Effect, clusterVars
<1>6. CASE LunMapTarget(c)
  <2>1. CASE CreateStepFails(c) \/ Refuse(c)
    BY <1>1, <1>2, <2>1, EndProgress, NoSizes DEF Refuse, Effect, Informs
  <2>2. CASE call[c].lunSize = call[c].size /\ CreateDone(c, call[c].lun)
    <3>1. call[c].op = "create" /\ call[c].lun \in Uuids
      BY <1>1 DEF SInv, IInv, CallInv, RequestInv, CreateInv, MappingPcs, CreatePcs
    <3>2. lun[call[c].lun].size >= call[c].size
      BY <1>1, <2>2 DEF SInv, SizeInv
    <3> QED BY <1>1, <2>2, <3>1, <3>2, EndProgress, NoSizes DEF CreateDone, Effect, Informs
  <2> QED BY <1>6, <2>1, <2>2 DEF LunMapTarget, CreateReply
<1> QED BY <1>4, <1>5, <1>6

LEMMA DeleteEffect ==
    ASSUME SInv, NEW c \in Calls,
           LunDelete(c) \/ LunCheck(c) \/ TargetDelete(c) \/ TargetCheck(c)
    PROVE  Effect(c)
<1>1. /\ TypeOK /\ Busy(c)
  BY DEF SInv, IInv, LunDelete, LunCheck, TargetDelete, TargetCheck, At, Busy
<1>2. SizesKept
  <2>1. ASSUME NEW u, lun' = [lun EXCEPT ![u].st = "deleted"] PROVE SizesKept
    BY <1>1, <2>1 DEF SizesKept, TypeOK, LunType
  <2> QED BY <2>1, NoSizes DEF LunDelete, LunCheck, TargetDelete, TargetCheck, dsmVars
<1>3. CASE Refuse(c) \/ DeleteDone(c)
  BY <1>1, <1>2, <1>3, EndProgress DEF Refuse, DeleteDone, Effect, Informs
<1>4. ASSUME NEW p \in DeletePcs, Goto(c, p), UNCHANGED clusterVars PROVE Effect(c)
  BY <1>1, <1>2, <1>4, MoveProgress DEF Effect, Informs, DeletePcs, MappingPcs
<1> QED BY <1>3, <1>4 DEF LunDelete, LunCheck, TargetDelete, TargetCheck, DeletePcs

LEMMA UpdateEffect ==
    ASSUME SInv, NEW c \in Calls, LunUpdate(c)
    PROVE  Effect(c)
<1>1. /\ TypeOK /\ Busy(c) /\ call[c].pc = "LunUpdate" /\ call[c] \in CallType
      /\ call[c].op = "expand" /\ call[c].lun \in Uuids
  BY DEF SInv, IInv, TypeOK, CallInv, RequestInv, LunUpdate, At, Busy
<1>2. SizesKept \/ Resized(c)
  BY <1>1, NoSizes DEF LunUpdate, Resized
<1>3. CASE Refuse(c)
  BY <1>1, <1>2, <1>3, EndProgress DEF Refuse, Effect, Informs
<1>4. CASE ExpandDone(c) /\ lun' = [lun EXCEPT ![call[c].lun].size = call[c].size]
  <2>1. lun'[call[c].lun].size >= call[c].size
    BY <1>1, <1>4 DEF TypeOK, LunType, CallType
  <2> QED BY <1>1, <1>2, <1>4, <2>1, EndProgress DEF ExpandDone, Effect, Informs
<1> QED BY <1>3, <1>4 DEF LunUpdate

LEMMA StepEffect ==
    ASSUME SInv, NEW c \in Calls, Step(c)
    PROVE  Effect(c)
BY ListEffect, LookupEffect, CreateEffect, MapEffectSizes, DeleteEffect, UpdateEffect DEF Step

-----------------------------------------------------------------------------
(* From the effects of a step to the invariant.                            *)

LEMMA EffectGrows ==
    ASSUME SInv, NEW c \in Calls, Effect(c)
    PROVE  SizesGrow
<1>1. lun \in [Uuids -> LunType] /\ \A u \in Uuids : lun[u].size \in Nat
  BY DEF SInv, IInv, TypeOK, LunType
<1>2. CASE SizesKept
  BY <1>1, <1>2 DEF SizesKept, SizesGrow
<1>3. CASE Resized(c)
  <2>1. call[c].size >= lun[call[c].lun].size
    BY <1>3 DEF Resized, Effect, Progress, SInv, SizeInv
  <2>2. ASSUME NEW u \in Uuids PROVE lun'[u].size >= lun[u].size
    <3>1. CASE u = call[c].lun
      BY <1>1, <1>3, <2>1, <3>1 DEF Resized, LunType
    <3>2. CASE u # call[c].lun
      BY <1>1, <1>3, <3>2 DEF Resized
    <3> QED BY <3>1, <3>2
  <2> QED BY <2>2 DEF SizesGrow
<1> QED BY <1>2, <1>3 DEF Effect

\* Only a call that is answered moves its name on, and only its own.
ClusterMoves ==
    \A n \in Names :
        /\ phase'[n] = "wanted" => phase[n] = "wanted" /\ capacity'[n] = capacity[n]
        /\ phase[n] # "wanted" => volumeId'[n] = volumeId[n]

LEMMA InformsMoves ==
    ASSUME SInv, NEW c \in Calls, Busy(c), Informs(c)
    PROVE  ClusterMoves
<1>1. /\ phase \in [Names -> {"wanted", "bound", "released", "deleted"}]
      /\ volumeId \in [Names -> Uuids \cup {None}] /\ capacity \in [Names -> Sizes]
  BY DEF SInv, IInv, TypeOK
<1>2. CASE UNCHANGED clusterVars
  BY <1>2 DEF clusterVars, ClusterMoves
<1>3. ASSUME NEW u \in Uuids, CreateDone(c, u) PROVE ClusterMoves
  BY <1>1, <1>3 DEF CreateDone, Answers, ClusterMoves
<1>4. CASE DeleteDone(c)
  BY <1>1, <1>4 DEF DeleteDone, Answers, ClusterMoves
<1>5. CASE ExpandDone(c)
  BY <1>1, <1>5 DEF ExpandDone, Answers, ClusterMoves
<1> QED BY <1>2, <1>3, <1>4, <1>5 DEF Informs

LEMMA EffectCapacity ==
    ASSUME SInv, NEW c \in Calls, Effect(c), IInv'
    PROVE  CapacityKept'
<1> SUFFICES ASSUME NEW n \in Names, phase'[n] = "bound"
             PROVE  lun'[volumeId'[n]].size >= capacity'[n]
  BY DEF CapacityKept
<1>1. /\ phase \in [Names -> {"wanted", "bound", "released", "deleted"}]
      /\ volumeId \in [Names -> Uuids \cup {None}] /\ capacity \in [Names -> Sizes]
      /\ capacity' \in [Names -> Sizes] /\ Sizes \subseteq Nat
      /\ \A u \in Uuids : lun[u].size \in Nat /\ lun'[u].size \in Nat
      /\ Busy(c) /\ call[c].name \in Names /\ call[c].size \in Nat
  BY SizesAreNat DEF SInv, IInv, TypeOK, LunType, CallType, CallInv, RequestInv, Effect, Progress
<1>2. SizesGrow
  BY EffectGrows
<1>3. ASSUME phase[n] = "bound", volumeId'[n] = volumeId[n], capacity'[n] = capacity[n]
      PROVE  lun'[volumeId'[n]].size >= capacity'[n]
  <2>1. PICK u \in Uuids : u = volumeId[n] /\ BornLun(u)
    BY <1>3 DEF SInv, IInv, PhaseInv
  <2>2. lun[u].size >= capacity[n]
    BY <1>3, <2>1 DEF SInv, CapacityKept
  <2>3. lun'[u].size >= lun[u].size
    BY <1>2, <2>1 DEF SizesGrow
  <2>4. capacity[n] \in Nat
    BY <1>1
  <2> QED BY <1>1, <1>3, <2>1, <2>2, <2>3, <2>4
<1>4. CASE UNCHANGED clusterVars
  BY <1>3, <1>4 DEF clusterVars
<1>5. ASSUME NEW u \in Uuids, CreateDone(c, u), lun'[u].size >= call[c].size,
             call[c].op = "create"
      PROVE  lun'[volumeId'[n]].size >= capacity'[n]
  <2>1. CASE n = call[c].name /\ Answers(c, "wanted")
    <3>1. volumeId'[n] = u /\ capacity'[n] = capacity[n]
      BY <1>1, <1>5, <2>1 DEF CreateDone
    <3>2. capacity[n] = Request[n].size /\ call[c].size = Request[n].size
      BY <1>1, <1>5, <2>1 DEF SInv, PromiseInv, SizeInv, Answers
    <3> QED BY <1>5, <3>1, <3>2
  <2>2. CASE ~(n = call[c].name /\ Answers(c, "wanted"))
    BY <1>1, <1>3, <1>5, <2>2 DEF CreateDone
  <2> QED BY <2>1, <2>2
<1>6. CASE DeleteDone(c)
  <2>1. phase[n] = "bound" /\ volumeId'[n] = volumeId[n] /\ capacity'[n] = capacity[n]
    BY <1>1, <1>6 DEF DeleteDone
  <2> QED BY <1>3, <2>1
<1>7. CASE /\ call[c].op = "expand" /\ call[c].pc = "LunUpdate"
           /\ ExpandDone(c) /\ lun'[call[c].lun].size >= call[c].size
  <2>1. phase[n] = "bound" /\ volumeId'[n] = volumeId[n]
    BY <1>7 DEF ExpandDone
  <2>2. CASE n = call[c].name /\ Answers(c, "bound")
    <3>1. capacity'[n] = call[c].size
      BY <1>1, <1>7, <2>2 DEF ExpandDone
    <3>2. call[c].lun = volumeId[n]
      BY <1>1, <1>7, <2>2 DEF SInv, SizeInv
    <3> QED BY <1>7, <2>1, <3>1, <3>2
  <2>3. CASE ~(n = call[c].name /\ Answers(c, "bound"))
    BY <1>1, <1>3, <1>7, <2>1, <2>3 DEF ExpandDone
  <2> QED BY <2>2, <2>3
<1> QED BY <1>4, <1>5, <1>6, <1>7 DEF Effect, Informs

\* A handler at rest keeps what it knows of sizes, if the sizes it knows grow
\* only as long as no other handler works for its name.
LEMMA OtherSizes ==
    ASSUME SInv, NEW d \in Calls, call'[d] = call[d], ClusterMoves, SizesGrow,
           TypeOK',
           Busy(d) /\ call[d].pc = "LunUpdate" =>
               lun'[call[d].lun].size = lun[call[d].lun].size
    PROVE  SizeInv(d)'
<1> SUFFICES ASSUME Busy(d) PROVE SizeInv(d)'
  BY DEF SizeInv, Busy
<1>1. SizeInv(d) /\ CallInv(d) /\ call[d].name \in Names
  BY DEF SInv, IInv, CallInv, RequestInv
<1>2. ASSUME call[d].pc \in MappingPcs PROVE lun'[call[d].lun].size >= call[d].lunSize
  <2>1. PICK u \in Uuids : u = call[d].lun /\ BornLun(u)
    BY <1>1, <1>2 DEF CallInv, CreateInv
  <2>2. lun'[u].size >= lun[u].size /\ lun[u].size >= call[d].lunSize
    BY <1>1, <1>2, <2>1 DEF SizesGrow, SizeInv
  <2>3. lun[u].size \in Nat /\ lun'[u].size \in Nat /\ call[d].lunSize \in Nat
    BY DEF SInv, IInv, TypeOK, LunType, CallType
  <2> QED BY <2>1, <2>2, <2>3
<1>3. call[d].op = "expand" => /\ phase'[call[d].name] # "wanted"
                               /\ call[d].id = volumeId'[call[d].name]
  BY <1>1 DEF SizeInv, ClusterMoves
<1> QED BY <1>1, <1>2, <1>3 DEF SizeInv

LEMMA StepSInv ==
    ASSUME SInv, NEW c \in Calls, Effect(c), IInv'
    PROVE  SInv'
<1>1. SizesGrow /\ CapacityKept'
  BY EffectGrows, EffectCapacity
<1>2. /\ Busy(c) /\ Progress(c) /\ ClusterMoves
      /\ \A d \in Calls : d # c => call'[d] = call[d]
  BY InformsMoves DEF Effect, Progress
<1>3. Alone'
  BY <1>2 DEF SInv, Alone, Progress, Busy
<1>4. PromiseInv'
  BY <1>2 DEF SInv, PromiseInv, ClusterMoves
<1>5. ASSUME NEW d \in Calls, d # c PROVE SizeInv(d)'
  <2>1. ASSUME Busy(d), call[d].pc = "LunUpdate"
        PROVE  lun'[call[d].lun].size = lun[call[d].lun].size
    <3>1. /\ SizeInv(d) /\ RequestInv(d) /\ call[d].op = "expand" /\ call[d].name \in Names
          /\ call[d].lun \in Uuids
      BY <2>1 DEF SInv, IInv, CallInv, RequestInv
    <3>2. BornLun(call[d].lun) /\ lun[call[d].lun].name = call[d].name
      BY <2>1, <3>1 DEF SInv, SizeInv, IInv, PhaseInv
    <3>3. CASE SizesKept
      BY <3>1, <3>2, <3>3 DEF SizesKept
    <3>4. CASE Resized(c)
      <4>1. /\ SizeInv(c) /\ RequestInv(c) /\ call[c].op = "expand" /\ call[c].name \in Names
        BY <1>2, <3>4 DEF SInv, IInv, CallInv, RequestInv, Resized
      <4>2. lun[call[c].lun].name = call[c].name
        BY <1>2, <3>4, <4>1 DEF SInv, SizeInv, IInv, PhaseInv, Resized
      <4>3. call[c].lun # call[d].lun
        BY <1>2, <1>5, <2>1, <3>2, <4>2 DEF SInv, Alone
      <4> QED BY <3>1, <3>4, <4>3 DEF Resized, SInv, IInv, TypeOK
    <3> QED BY <3>3, <3>4 DEF Effect
  <2> QED BY <1>1, <1>2, <1>5, <2>1, OtherSizes DEF IInv
<1>6. SizeInv(c)'
  <2> SUFFICES ASSUME Busy(c)' PROVE SizeInv(c)'
    BY DEF SizeInv
  <2>1. SizeInv(c) /\ CallInv(c) /\ call[c].name \in Names
    BY <1>2 DEF SInv, IInv, CallInv, RequestInv
  <2>2. /\ call'[c].name = call[c].name /\ call'[c].live = call[c].live
        /\ call'[c].op = call[c].op /\ call'[c].id = call[c].id
        /\ call'[c].size = call[c].size
    BY <1>2 DEF Progress
  <2>3. ASSUME call'[c].pc \in MappingPcs PROVE lun'[call'[c].lun].size >= call'[c].lunSize
    <3>1. CASE /\ UNCHANGED lun /\ call'[c].lun \in Uuids
               /\ call'[c].lunSize = lun[call'[c].lun].size
      BY <3>1 DEF SInv, IInv, TypeOK, LunType
    <3>2. CASE /\ call[c].pc \in MappingPcs /\ call'[c].lun = call[c].lun
               /\ call'[c].lunSize = call[c].lunSize
      <4>1. PICK u \in Uuids : u = call[c].lun /\ BornLun(u)
        BY <2>1, <3>2 DEF CallInv, CreateInv
      <4>2. lun'[u].size >= lun[u].size /\ lun[u].size >= call[c].lunSize
        BY <1>1, <1>2, <2>1, <3>2, <4>1 DEF SizesGrow, SizeInv
      <4>3. lun[u].size \in Nat /\ lun'[u].size \in Nat /\ call[c].lunSize \in Nat
        BY DEF SInv, IInv, TypeOK, LunType, CallType
      <4> QED BY <3>2, <4>1, <4>2, <4>3
    <3> QED BY <1>2, <2>3, <3>1, <3>2 DEF Progress
  <2>4. call[c].op = "expand" => /\ phase'[call[c].name] # "wanted"
                                 /\ call[c].id = volumeId'[call[c].name]
    BY <1>2, <2>1 DEF SizeInv, ClusterMoves
  <2>5. call'[c].pc = "LunUpdate" => /\ call'[c].lun = call[c].id
                                     /\ call[c].size >= lun'[call'[c].lun].size
    BY <1>2 DEF Progress
  <2> QED BY <1>2, <2>1, <2>2, <2>3, <2>4, <2>5 DEF SizeInv
<1> QED BY <1>1, <1>3, <1>4, <1>5, <1>6 DEF SInv

-----------------------------------------------------------------------------
(* The cluster, the driver process and the DSMs.                           *)

\* A step that changes no handler, no size and no promise.
LEMMA QuietStep ==
    ASSUME SInv, IInv', UNCHANGED <<call, capacity, volumeId>>, SizesKept,
           \A n \in Names : /\ phase'[n] = "wanted" <=> phase[n] = "wanted"
                            /\ phase'[n] = "bound" => phase[n] = "bound"
    PROVE  SInv'
<1>1. ClusterMoves
  BY DEF ClusterMoves
<1>2. SizesGrow
  BY DEF SizesKept, SizesGrow, SInv, IInv, TypeOK, LunType
<1>3. CapacityKept'
  BY DEF SInv, CapacityKept, SizesKept, IInv, PhaseInv
<1>4. Alone' /\ PromiseInv'
  BY DEF SInv, Alone, PromiseInv, Busy
<1>5. ASSUME NEW d \in Calls PROVE SizeInv(d)'
  <2>1. ASSUME Busy(d), call[d].pc = "LunUpdate"
        PROVE  lun'[call[d].lun].size = lun[call[d].lun].size
    BY <2>1 DEF SInv, SizeInv, IInv, CallInv, RequestInv, PhaseInv, SizesKept
  <2> QED BY <1>1, <1>2, <2>1, OtherSizes DEF IInv
<1> QED BY <1>3, <1>4, <1>5 DEF SInv

LEMMA StartSInv ==
    ASSUME SInv, IInv', NEW c \in Calls, NEW n \in Names,
           StartCreate(c, n) \/ StartExpand(c, n) \/ StartDelete(c, n)
    PROVE  SInv'
<1>1. PICK op, id, size :
        /\ Start(c, op, n, id, size) /\ op \in {"create", "expand", "delete"}
        /\ op = "create" => size = Request[n].size
        /\ op = "expand" => phase[n] = "bound" /\ id = volumeId[n]
  BY DEF StartCreate, StartExpand, StartDelete
<1>2. /\ UNCHANGED <<lun, phase, volumeId, capacity>> /\ ~LiveCall(n)
      /\ \A d \in Calls : d # c => call'[d] = call[d]
      /\ call'[c] = [IdleCall EXCEPT
                       !.pc = "List", !.op = op, !.name = n, !.id = id, !.size = size,
                       !.live = TRUE, !.byName = (op = "create"), !.todo = dsms]
  BY <1>1 DEF Start, SInv, IInv, TypeOK
<1>3. /\ call'[c].name = n /\ call'[c].op = op /\ call'[c].id = id
      /\ call'[c].size = size /\ call'[c].live /\ call'[c].pc = "List"
  BY <1>2 DEF IdleCall
<1>4. Alone'
  <2>1. \A d \in Calls : Busy(d) => call[d].name # n
    BY <1>2 DEF SInv, SizeInv, LiveCall
  <2>2. \A d \in Calls : d # c => (Busy(d)' <=> Busy(d)) /\ call'[d].name = call[d].name
    BY <1>2 DEF Busy
  <2> QED BY <1>3, <2>1, <2>2 DEF SInv, Alone
<1>5. ClusterMoves /\ SizesGrow
  BY <1>2 DEF ClusterMoves, SizesGrow, SInv, IInv, TypeOK, LunType
<1>6. \A d \in Calls : d # c => SizeInv(d)'
  BY <1>2, <1>5, OtherSizes DEF IInv
<1>7. SizeInv(c)'
  BY <1>1, <1>2, <1>3 DEF SizeInv, MappingPcs
<1>8. PromiseInv' /\ CapacityKept'
  BY <1>2 DEF SInv, PromiseInv, CapacityKept
<1> QED BY <1>4, <1>6, <1>7, <1>8 DEF SInv

LEMMA InitSInv == Init => SInv
<1> SUFFICES ASSUME Init PROVE SInv
  OBVIOUS
<1>1. IInv
  BY InitIInv
<1>2. Alone /\ \A c \in Calls : SizeInv(c)
  BY DEF Init, Alone, SizeInv, Busy, IdleCall
<1>3. PromiseInv /\ CapacityKept
  BY DEF Init, PromiseInv, CapacityKept
<1> QED BY <1>1, <1>2, <1>3 DEF SInv

LEMMA NextSInv ==
    ASSUME "Deadline" \notin Faulty, SInv, [Next]_vars
    PROVE  SInv' /\ SizesGrow
<1>0. IInv'
  BY NextIInv DEF SInv
<1>g. ASSUME UNCHANGED lun PROVE SizesGrow
  BY <1>g DEF SizesGrow, SInv, IInv, TypeOK, LunType
<1>1. ASSUME NEW c \in Calls, Step(c) PROVE SInv' /\ SizesGrow
  BY <1>0, <1>1, StepEffect, StepSInv, EffectGrows
<1>2. ASSUME NEW c \in Calls, NEW n \in Names,
             StartCreate(c, n) \/ StartExpand(c, n) \/ StartDelete(c, n)
      PROVE  SInv' /\ SizesGrow
  <2>1. UNCHANGED lun
    BY <1>2 DEF StartCreate, StartExpand, StartDelete, Start
  <2> QED BY <1>0, <1>g, <1>2, <2>1, StartSInv
<1>3. ASSUME NEW n \in Names, Release(n) PROVE SInv' /\ SizesGrow
  <2>1. /\ UNCHANGED <<lun, call, capacity, volumeId>>
        /\ \A m \in Names : /\ phase'[m] = "wanted" <=> phase[m] = "wanted"
                            /\ phase'[m] = "bound" => phase[m] = "bound"
    BY <1>3 DEF Release, SInv, IInv, TypeOK
  <2> QED BY <1>0, <1>g, <2>1, NoSizes, QuietStep
<1>4. \A c \in Calls : ~Deadline(c)
  BY DEF Deadline, Mishap
<1>5. CASE Restart
  <2>1. UNCHANGED <<lun, phase, capacity, volumeId>> /\ \A c \in Calls : ~Busy(c)'
    BY <1>5 DEF Restart, clusterVars, Busy, IdleCall
  <2>2. Alone' /\ PromiseInv' /\ CapacityKept' /\ \A c \in Calls : SizeInv(c)'
    BY <2>1 DEF SInv, Alone, PromiseInv, CapacityKept, SizeInv
  <2> QED BY <1>0, <1>g, <2>1, <2>2 DEF SInv
<1>6. ASSUME NEW u \in Uuids, CloneDone(u) PROVE SInv' /\ SizesGrow
  <2>1. SizesKept /\ UNCHANGED <<call, phase, capacity, volumeId>>
    BY <1>6 DEF CloneDone, SizesKept, SInv, IInv, TypeOK, LunType
  <2>2. SizesGrow
    BY <2>1 DEF SizesKept, SizesGrow, SInv, IInv, TypeOK, LunType
  <2> QED BY <1>0, <2>1, <2>2, QuietStep
<1>7. CASE Finished \/ UNCHANGED vars
  <2>1. UNCHANGED <<lun, call, phase, capacity, volumeId>>
    BY <1>7 DEF Finished, vars
  <2> QED BY <1>0, <1>g, <2>1, NoSizes, QuietStep
<1> QED BY <1>1, <1>2, <1>3, <1>4, <1>5, <1>6, <1>7 DEF Next

\* A bound volume has the capacity the cluster was promised last, whatever
\* fails, crashes and restarts, if the cluster waits for its answers.
THEOREM CapacityPromised ==
    ASSUME "Deadline" \notin Faulty PROVE Spec => []CapacityKept
<1>1. SInv /\ [Next]_vars => SInv'
  BY NextSInv
<1>2. SInv => CapacityKept
  BY DEF SInv
<1> QED BY <1>1, <1>2, InitSInv, PTL DEF Spec

\* No request makes a LUN smaller, under the same condition.
THEOREM SizesOnlyGrow ==
    ASSUME "Deadline" \notin Faulty PROVE Spec => NeverShrinks
<1>1. SInv /\ [Next]_vars => SInv'
  BY NextSInv
<1>2. SInv /\ [Next]_vars =>
        [\A u \in Uuids : LiveLun(u) /\ LiveLun(u)' => lun'[u].size >= lun[u].size]_vars
  BY NextSInv DEF SizesGrow, LiveLun, BornLun
<1> QED BY <1>1, <1>2, InitSInv, PTL DEF Spec, NeverShrinks

-----------------------------------------------------------------------------
(* A target that a deletion is about to delete serves no other LUN.        *)

AimInv(c) ==
    Busy(c) /\ call[c].op = "delete" =>
        /\ \A r \in call[c].refs :
             r.only /\ target[r.target].name = call[c].name =>
                 target[r.target].luns \subseteq {r.lun}
        /\ call[c].pc = "LunDelete" /\ call[c].only =>
             target[call[c].target].luns \subseteq {call[c].lun}
        /\ call[c].pc = "TargetDelete" => target[call[c].target].luns = {}

MInv == SInv /\ \A c \in Calls : AimInv(c)

\* A step of handler c maps LUNs to targets of its own name only.
OwnTargets(c) ==
    \A t \in Tids : BornTarget(t) =>
        /\ target'[t].name = target[t].name
        /\ \/ target'[t].luns \subseteq target[t].luns
           \/ call[c].pc = "LunMapTarget" /\ target[t].name = call[c].name

MappingsKept == \A u \in Uuids : Mapped(u) /\ LiveLun(u)' => Mapped(u)'

\* What a step does to the mappings.
TargetEffect(c) ==
    /\ OwnTargets(c) /\ MappingsKept
    /\ Busy(c)' /\ call[c].op = "delete" => AimInv(c)'

LEMMA NoTargets ==
    ASSUME NEW c, UNCHANGED target
    PROVE  OwnTargets(c) /\ MappingsKept
BY DEF OwnTargets, MappingsKept, Mapped, TargetsOf, LiveTarget

\* A handler that deletes is listing or deleting.
LEMMA DeletingAt ==
    ASSUME SInv, NEW c \in Calls, Busy(c), call[c].op = "delete"
    PROVE  call[c].pc = "List" \/ (call[c].pc \in DeletePcs /\ call[c].refs = {})
BY DEF SInv, IInv, TypeOK, CallType, CallInv, RequestInv, CreatePcs, DeletePcs, Busy

LEMMA AimList ==
    ASSUME MInv, NEW c \in Calls, TargetList(c) \/ LookupLun(c) \/ ListEnd(c)
    PROVE  TargetEffect(c)
<1>1. /\ UNCHANGED target /\ Busy(c) /\ call[c].pc = "List" /\ AimInv(c)
      /\ call \in [Calls -> CallType] /\ call[c] \in CallType /\ CallInv(c)
  BY DEF MInv, SInv, IInv, TypeOK, TargetList, LookupLun, ListEnd, At, Busy
<1>2. SUFFICES ASSUME Busy(c)', call[c].op = "delete" PROVE AimInv(c)'
  BY <1>1, NoTargets DEF TargetEffect
<1>3. call'[c].name = call[c].name
  BY <1>2, StepEffect DEF MInv, Effect, Progress, Step
<1>4. CASE TargetList(c)
  <2>1. PICK d \in call[c].todo, refs \in SUBSET RefType :
          /\ call' = [call EXCEPT ![c].todo = @ \ {d}, ![c].refs = refs]
          /\ refs \subseteq RefsOn(d)
    BY ZenonT(30), <1>4 DEF TargetList, RefsOn
  <2>2. call'[c] = [call[c] EXCEPT !.todo = @ \ {d}, !.refs = refs]
    BY <1>1, <2>1
  <2>3. call'[c].refs = refs /\ call'[c].pc = "List"
    BY <1>1, <2>2 DEF CallType
  <2> QED BY <1>1, <2>1, <2>3 DEF AimInv, RefsOn
<1>5. CASE LookupLun(c)
  <2>1. PICK r \in call[c].refs :
          \/ LiveLun(r.lun) /\ Matches(c, r.lun) /\ FoundVolume(c, r)
          \/ call' = [call EXCEPT ![c].refs = @ \ {r}]
    BY <1>5 DEF LookupLun
  <2>2. CASE call' = [call EXCEPT ![c].refs = @ \ {r}]
    <3>1. call'[c] = [call[c] EXCEPT !.refs = @ \ {r}]
      BY <1>1, <2>2
    <3>2. call'[c].refs = call[c].refs \ {r} /\ call'[c].pc = "List"
      BY <1>1, <3>1 DEF CallType
    <3> QED BY <1>1, <1>2, <1>3, <3>2 DEF AimInv
  <2>3. CASE LiveLun(r.lun) /\ Matches(c, r.lun) /\ FoundVolume(c, r)
    <3>1. ~call[c].byName /\ r.lun = call[c].id
      BY <1>1, <1>2, <2>3 DEF CallInv, RequestInv, Matches
    <3>2. r.lun \in Uuids /\ r.target \in Tids
      BY <1>1 DEF CallType, RefType
    <3>3. lun[r.lun].name = call[c].name
      BY <1>1, <1>2, <3>1, <3>2 DEF CallInv, RequestInv, MInv, SInv, IInv, PhaseInv, Kept
    <3>4. target[r.target].name = call[c].name
      BY <1>1, <3>3 DEF CallInv, RefsInv
    <3>5. call' = [call EXCEPT ![c].pc = "LunDelete", ![c].refs = {},
                          ![c].todo = {}, ![c].lun = r.lun,
                          ![c].target = r.target, ![c].only = r.only]
      BY <1>2, <2>3, <3>1 DEF FoundVolume
    <3>6. call'[c] = [call[c] EXCEPT !.pc = "LunDelete", !.refs = {}, !.todo = {},
                         !.lun = r.lun, !.target = r.target, !.only = r.only]
      BY <1>1, <3>5
    <3>7. /\ call'[c].refs = {} /\ call'[c].pc = "LunDelete" /\ call'[c].lun = r.lun
          /\ call'[c].target = r.target /\ call'[c].only = r.only
      BY <1>1, <3>6 DEF CallType
    <3> QED BY <1>1, <1>2, <3>4, <3>7 DEF AimInv
  <2> QED BY <2>1, <2>2, <2>3
<1>6. CASE ListEnd(c)
  <2>1. DeleteDone(c)
    BY <1>1, <1>2, <1>6 DEF ListEnd, NoVolume, DeleteNothing, CallInv, RequestInv
  <2> QED BY <1>1, <1>2, <2>1 DEF DeleteDone, Return, Busy, IdleCall
<1> QED BY <1>4, <1>5, <1>6, <1>1 DEF TargetList, LookupLun, ListEnd

LEMMA AimCreate ==
    ASSUME MInv, NEW c \in Calls,
           \/ Pick(c) \/ LunCreate(c) \/ LunClone(c) \/ WaitClone(c) \/ LunGet(c)
           \/ TargetCreate(c) \/ TargetGet(c) \/ TargetSet(c) \/ LunMapTarget(c)
           \/ LunUpdate(c)
    PROVE  TargetEffect(c)
<1>1. /\ Busy(c) /\ target \in [Tids -> TargetType] /\ RequestInv(c) /\ CreateInv(c)
      /\ call[c].pc \in CreatePcs \cup {"LunUpdate"} /\ call[c].op # "delete"
      /\ At(c, "LunMapTarget") => /\ call[c].target \in Tids
                                  /\ target[call[c].target].name = call[c].name
  BY DEF MInv, SInv, IInv, TypeOK, CallInv, RequestInv, CreateInv, At, Busy, CreatePcs, Pick,
     LunCreate, LunClone, WaitClone, LunGet, TargetCreate, TargetGet, TargetSet, LunMapTarget,
     LunUpdate
<1>2. CASE UNCHANGED target
  BY <1>1, <1>2, NoTargets DEF TargetEffect
<1>3. ASSUME NEW t \in UnbornTargets, NEW x, x.st = "live", x.luns = {},
             target' = [target EXCEPT ![t] = x]
      PROVE  TargetEffect(c)
  BY <1>1, <1>3 DEF TargetEffect, OwnTargets, MappingsKept, Mapped, TargetsOf, LiveTarget,
     UnbornTargets, BornTarget
<1>4. ASSUME NEW t, target' = [target EXCEPT ![t].multiSession = TRUE]
      PROVE  TargetEffect(c)
  <2>1. \A s \in Tids : /\ target'[s].luns = target[s].luns /\ target'[s].st = target[s].st
                        /\ target'[s].name = target[s].name
    BY <1>1, <1>4 DEF TargetType
  <2> QED BY <1>1, <2>1 DEF TargetEffect, OwnTargets, MappingsKept, Mapped, TargetsOf, LiveTarget
<1>5. ASSUME At(c, "LunMapTarget"), NEW u,
             target' = [target EXCEPT ![call[c].target].luns = @ \cup {u}]
      PROVE  TargetEffect(c)
  <2>1. \A s \in Tids :
          /\ target'[s].luns = IF s = call[c].target THEN target[s].luns \cup {u}
                                                     ELSE target[s].luns
          /\ target'[s].st = target[s].st /\ target'[s].name = target[s].name
    BY <1>1, <1>5 DEF TargetType
  <2> QED BY <1>1, <1>5, <2>1 DEF TargetEffect, OwnTargets, MappingsKept, Mapped, TargetsOf,
             LiveTarget, At
<1>6. CASE TargetCreate(c)
  BY <1>2, <1>3, <1>6 DEF TargetCreate
<1>7. CASE TargetSet(c)
  BY <1>2, <1>4, <1>7 DEF TargetSet
<1>8. CASE LunMapTarget(c)
  BY <1>2, <1>5, <1>8 DEF LunMapTarget
<1>9. CASE Pick(c) \/ LunCreate(c) \/ LunClone(c) \/ WaitClone(c) \/ LunGet(c) \/ TargetGet(c)
           \/ LunUpdate(c)
  BY <1>2, <1>9 DEF Pick, LunCreate, LunClone, WaitClone, LunGet, TargetGet, LunUpdate
<1> QED BY <1>6, <1>7, <1>8, <1>9

LEMMA AimDelete ==
    ASSUME MInv, NEW c \in Calls,
           LunDelete(c) \/ LunCheck(c) \/ TargetDelete(c) \/ TargetCheck(c)
    PROVE  TargetEffect(c)
<1>1. /\ Busy(c) /\ target \in [Tids -> TargetType] /\ lun \in [Uuids -> LunType]
      /\ call \in [Calls -> CallType] /\ call[c] \in CallType /\ call[c].pc \in DeletePcs
      /\ AimInv(c) /\ RequestInv(c) /\ DeleteInv(c)
  BY DEF MInv, SInv, IInv, TypeOK, CallInv, LunDelete, LunCheck, TargetDelete, TargetCheck, At,
     Busy, DeletePcs
<1>2. /\ call[c].op = "delete" /\ call[c].refs = {} /\ call[c].target \in Tids
      /\ target[call[c].target].name = call[c].name
  BY <1>1 DEF RequestInv, DeleteInv, DeletePcs
<1>3. ASSUME Return(c) PROVE ~Busy(c)'
  BY <1>1, <1>3 DEF Return, Busy, IdleCall
<1>4. ASSUME NEW p \in {"LunCheck", "TargetCheck"}, Goto(c, p) PROVE AimInv(c)'
  <2>1. call'[c] = [call[c] EXCEPT !.pc = p]
    BY <1>1, <1>4 DEF Goto
  <2>2. call'[c].pc = p /\ call'[c].refs = {}
    BY <1>1, <1>2, <2>1 DEF CallType
  <2> QED BY <2>2 DEF AimInv
<1>5. CASE LunDelete(c)
  <2> DEFINE u == call[c].lun
  <2>1. CASE /\ LiveLun(u) /\ lun' = [lun EXCEPT ![u].st = "deleted"] /\ target' = Unmap(u)
    <3>1. \A s \in Tids : /\ target'[s].luns = target[s].luns \ {u}
                          /\ target'[s].st = target[s].st /\ target'[s].name = target[s].name
      BY <1>1, <2>1 DEF TargetType, Unmap
    <3>2. u \in Uuids => lun'[u].st = "deleted"
      BY <1>1, <2>1 DEF LunType
    <3>3. OwnTargets(c) /\ MappingsKept
      BY <3>1, <3>2 DEF OwnTargets, MappingsKept, Mapped, TargetsOf, LiveTarget, LiveLun
    <3>4. CASE Goto(c, "TargetDelete") /\ call[c].only
      <4>1. call'[c] = [call[c] EXCEPT !.pc = "TargetDelete"]
        BY <1>1, <3>4 DEF Goto
      <4>2. /\ call'[c].pc = "TargetDelete" /\ call'[c].refs = {}
            /\ call'[c].target = call[c].target
        BY <1>1, <1>2, <4>1 DEF CallType
      <4>3. target[call[c].target].luns \subseteq {u}
        BY <1>1, <1>2, <1>5, <3>4 DEF AimInv, LunDelete, At
      <4>4. target'[call[c].target].luns = {}
        BY <1>2, <3>1, <4>3
      <4> QED BY <3>3, <4>2, <4>4 DEF TargetEffect, AimInv
    <3>5. CASE DeleteDone(c) \/ Goto(c, "LunCheck")
      BY <1>3, <1>4, <3>3, <3>5 DEF TargetEffect, DeleteDone
    <3> QED BY <1>5, <3>4, <3>5 DEF LunDelete
  <2>2. CASE UNCHANGED dsmVars /\ Goto(c, "LunCheck")
    BY <1>4, <2>2, NoTargets DEF TargetEffect, dsmVars
  <2> QED BY <1>5, <2>1, <2>2 DEF LunDelete
<1>6. CASE TargetDelete(c)
  <2> DEFINE t == call[c].target
  <2>1. target[t].luns = {}
    BY <1>1, <1>2, <1>6 DEF AimInv, TargetDelete, At
  <2>2. OwnTargets(c) /\ MappingsKept
    <3>1. CASE UNCHANGED target
      BY <3>1, NoTargets
    <3>2. CASE target' = [target EXCEPT ![t].st = "deleted", ![t].luns = {}]
      <4>1. \A s \in Tids : /\ s # t => target'[s] = target[s]
                            /\ target'[s].luns \subseteq target[s].luns
                            /\ target'[s].name = target[s].name
        BY <1>1, <3>2 DEF TargetType
      <4> QED BY <2>1, <4>1 DEF OwnTargets, MappingsKept, Mapped, TargetsOf, LiveTarget
    <3> QED BY <1>6, <3>1, <3>2 DEF TargetDelete
  <2> QED BY <1>3, <1>4, <1>6, <2>2 DEF TargetDelete, TargetEffect, DeleteDone
<1>7. CASE LunCheck(c) \/ TargetCheck(c)
  BY <1>3, <1>7, NoTargets DEF LunCheck, TargetCheck, TargetEffect, Refuse, DeleteDone
<1> QED BY <1>5, <1>6, <1>7

LEMMA StepTargets ==
    ASSUME MInv, NEW c \in Calls, Step(c)
    PROVE  TargetEffect(c)
BY AimList, AimCreate, AimDelete DEF Step

\* A handler that rests keeps its aim while no other one maps for its name.
LEMMA OtherAim ==
    ASSUME MInv, NEW d \in Calls, call'[d] = call[d],
           Busy(d) => \A t \in Tids : BornTarget(t) =>
               /\ target'[t].name = target[t].name
               /\ target[t].name = call[d].name => target'[t].luns \subseteq target[t].luns
    PROVE  AimInv(d)'
<1> SUFFICES ASSUME Busy(d), call[d].op = "delete" PROVE AimInv(d)'
  BY DEF AimInv, Busy
<1>1. AimInv(d) /\ RefsInv(d) /\ DeleteInv(d) /\ call[d] \in CallType
  BY DEF MInv, SInv, IInv, TypeOK, CallInv
<1>2. \A r \in call[d].refs : r.target \in Tids /\ BornTarget(r.target)
  BY <1>1 DEF RefsInv, CallType, RefType
<1>3. call[d].pc \in DeletePcs => /\ call[d].target \in Tids /\ BornTarget(call[d].target)
                                  /\ target[call[d].target].name = call[d].name
  BY <1>1 DEF DeleteInv
<1> QED BY <1>1, <1>2, <1>3 DEF AimInv, DeletePcs

LEMMA InitMInv == Init => MInv
BY InitSInv DEF Init, MInv, AimInv, Busy, IdleCall

LEMMA NextMInv ==
    ASSUME "Deadline" \notin Faulty, MInv, [Next]_vars
    PROVE  MInv' /\ MappingsKept
<1>0. SInv' /\ target \in [Tids -> TargetType]
  BY NextSInv DEF MInv, SInv, IInv, TypeOK
<1>q. ASSUME UNCHANGED target, NEW d \in Calls, call'[d] = call[d] PROVE AimInv(d)'
  BY <1>q, OtherAim
<1>1. ASSUME NEW c \in Calls, Step(c) PROVE MInv' /\ MappingsKept
  <2>1. TargetEffect(c) /\ Progress(c)
    BY <1>1, StepTargets, StepEffect DEF MInv, Effect
  <2>2. AimInv(c)'
    BY <2>1 DEF TargetEffect, Progress, AimInv
  <2>3. ASSUME NEW d \in Calls, d # c PROVE AimInv(d)'
    <3>1. Busy(d) => call[d].name # call[c].name
      BY <2>1, <2>3 DEF Progress, MInv, SInv, Alone
    <3> QED BY <2>1, <2>3, <3>1, OtherAim DEF TargetEffect, OwnTargets, Progress
  <2> QED BY <1>0, <2>1, <2>2, <2>3 DEF MInv, TargetEffect
<1>2. ASSUME NEW c \in Calls, NEW n \in Names,
             StartCreate(c, n) \/ StartExpand(c, n) \/ StartDelete(c, n)
      PROVE  MInv' /\ MappingsKept
  <2>1. PICK op, id, size : Start(c, op, n, id, size)
    BY <1>2 DEF StartCreate, StartExpand, StartDelete
  <2>2. /\ UNCHANGED target /\ call'[c].refs = {} /\ call'[c].pc = "List"
        /\ \A d \in Calls : d # c => call'[d] = call[d]
    BY <2>1 DEF Start, MInv, SInv, IInv, TypeOK, IdleCall
  <2>3. AimInv(c)'
    BY <2>2 DEF AimInv
  <2> QED BY <1>0, <1>q, <2>2, <2>3, NoTargets DEF MInv
<1>3. ASSUME UNCHANGED <<target, call>> PROVE MInv' /\ MappingsKept
  BY <1>0, <1>q, <1>3, NoTargets DEF MInv
<1>4. \A c \in Calls : ~Deadline(c)
  BY DEF Deadline, Mishap
<1>5. CASE Restart
  <2>1. UNCHANGED target /\ \A c \in Calls : ~Busy(c)'
    BY <1>5 DEF Restart, Busy, IdleCall
  <2> QED BY <1>0, <2>1, NoTargets DEF MInv, AimInv
<1> QED BY <1>1, <1>2, <1>3, <1>4, <1>5 DEF Next, Release, CloneDone, Finished, vars

\* A LUN leaves its targets by being deleted only, if the cluster waits for its
\* answers: a target that was seen to serve one LUN serves no other when it is
\* deleted some web-API calls later.
THEOREM OnlyDeletionUnmaps ==
    ASSUME "Deadline" \notin Faulty PROVE Spec => UnmapDeletes
<1>1. MInv /\ [Next]_vars => MInv'
  BY NextMInv
<1>2. MInv /\ [Next]_vars =>
        [\A u \in Uuids : Mapped(u) /\ LiveLun(u)' => Mapped(u)']_vars
  BY NextMInv DEF MappingsKept
<1> QED BY <1>1, <1>2, InitMInv, PTL DEF Spec, UnmapDeletes

-----------------------------------------------------------------------------
(* 4. One volume for a name.                                               *)

(* How a handler moves on.                                                 *)

SameRequest(c) ==
    /\ call'[c].op = call[c].op /\ call'[c].name = call[c].name
    /\ call'[c].id = call[c].id

\* The handler stays where it is.
Stands(c) ==
    /\ SameRequest(c)
    /\ call'[c].pc = call[c].pc /\ call'[c].byName = call[c].byName
    /\ call'[c].todo = call[c].todo /\ call'[c].refs = call[c].refs
    /\ call'[c].host = call[c].host

\* The listing of a creation: a server is visited, a mapping is dropped, or the
\* name was not found and a clone looks for its source.
ListsOn(c) ==
    /\ call[c].pc = "List" /\ call'[c].pc = "List"
    /\ \/ \E d \in call[c].todo :
            /\ call'[c].byName = call[c].byName /\ call[c].refs = {}
            /\ call'[c].todo = call[c].todo \ {d}
            /\ "TargetList" \notin Faulty => call'[c].refs = RefsOn(d)
       \/ \E r \in call[c].refs :
            /\ call'[c].byName = call[c].byName /\ call'[c].todo = call[c].todo
            /\ call'[c].refs = call[c].refs \ {r}
            /\ "LunLookup" \notin Faulty => ~(LiveLun(r.lun) /\ Matches(c, r.lun))
       \/ call[c].byName /\ call[c].refs = {} /\ call[c].todo = {} /\ ~call'[c].byName

\* The end of the listing: the servers to try, or the server of the source.
ListsEnd(c) ==
    /\ call[c].pc = "List"
    /\ \/ /\ call[c].byName /\ call[c].refs = {} /\ call[c].todo = {}
          /\ call'[c].pc = "Pick" /\ ~Clones(c) /\ call'[c].todo = HostsFor(c)
       \/ /\ ~call[c].byName /\ LiveLun(call[c].id)
          /\ call'[c].pc = "LunClone" /\ call'[c].todo = {}
          /\ call'[c].host = lun[call[c].id].dsm

\* The loop over the servers and the steps on one of them.
Creates(c) ==
    /\ call[c].pc \in CreatePcs /\ call'[c].pc \in CreatePcs \ {"LunClone"}
    /\ call'[c].todo \subseteq call[c].todo
    /\ call'[c].pc = "LunCreate" => call'[c].host \in call[c].todo

\* A handler ends, or goes on with the request it has.
Moves(c) ==
    Busy(c)' =>
        /\ SameRequest(c)
        /\ call[c].op = "create" => ListsOn(c) \/ ListsEnd(c) \/ Creates(c)

LEMMA EndMoves ==
    ASSUME TypeOK, NEW c \in Calls, Return(c)
    PROVE  Moves(c)
BY DEF TypeOK, Return, Moves, Busy, IdleCall

LEMMA GotoMoves ==
    ASSUME TypeOK, NEW c \in Calls, NEW p, Goto(c, p),
           \/ call[c].op # "create"
           \/ call[c].pc \in CreatePcs /\ p \in CreatePcs \ {"LunClone", "LunCreate"}
    PROVE  Moves(c)
<1>1. call \in [Calls -> CallType] /\ call[c] \in CallType
  BY DEF TypeOK
<1>2. call'[c] = [call[c] EXCEPT !.pc = p]
  BY <1>1 DEF Goto
<1> QED BY <1>1, <1>2 DEF Moves, SameRequest, Creates, CallType

LEMMA FailMoves ==
    ASSUME TypeOK, NEW c \in Calls, call[c].pc \in CreatePcs, CreateStepFails(c)
    PROVE  Moves(c)
BY EndMoves, GotoMoves DEF CreateStepFails, Refuse, CreatePcs

LEMMA ListMoves ==
    ASSUME IInv, NEW c \in Calls, TargetList(c) \/ ListEnd(c)
    PROVE  Moves(c)
<1>1. /\ TypeOK /\ call \in [Calls -> CallType] /\ call[c] \in CallType /\ call[c].pc = "List"
      /\ RequestInv(c)
  BY DEF IInv, TypeOK, CallInv, TargetList, ListEnd, At
<1>2. CASE TargetList(c)
  <2>1. PICK d \in call[c].todo, refs \in SUBSET RefType :
          /\ call' = [call EXCEPT ![c].todo = @ \ {d}, ![c].refs = refs]
          /\ "TargetList" \notin Faulty => refs = RefsOn(d)
    BY <1>2 DEF TargetList, RefsOn, Outcome, Mishap, Answered
  <2>2. call'[c] = [call[c] EXCEPT !.todo = @ \ {d}, !.refs = refs]
    BY <1>1, <2>1
  <2>3. call[c].refs = {}
    BY <1>2 DEF TargetList
  <2> QED BY <1>1, <2>1, <2>2, <2>3 DEF Moves, SameRequest, ListsOn, CallType
<1>3. CASE ListEnd(c)
  <2>1. call[c].refs = {} /\ call[c].todo = {}
    BY <1>3 DEF ListEnd
  <2>2. CASE Refuse(c) \/ DeleteDone(c)
    BY <1>1, <2>2, EndMoves DEF Refuse, DeleteDone
  <2>3. CASE /\ call[c].byName /\ ~Clones(c)
             /\ call' = [call EXCEPT ![c].pc = "Pick", ![c].byName = FALSE,
                                     ![c].todo = HostsFor(c)]
    <3>1. call'[c] = [call[c] EXCEPT !.pc = "Pick", !.byName = FALSE, !.todo = HostsFor(c)]
      BY <1>1, <2>3
    <3> QED BY <1>1, <2>1, <2>3, <3>1 DEF Moves, SameRequest, ListsEnd, CallType
  <2>4. CASE /\ call[c].byName
             /\ call' = [call EXCEPT ![c].byName = FALSE, ![c].todo = dsms]
    <3>1. call'[c] = [call[c] EXCEPT !.byName = FALSE, !.todo = dsms]
      BY <1>1, <2>4
    <3> QED BY <1>1, <2>1, <2>4, <3>1 DEF Moves, SameRequest, ListsOn, CallType
  <2> QED BY <1>3, <2>2, <2>3, <2>4 DEF ListEnd, NoVolume, DeleteNothing
<1> QED BY <1>2, <1>3

LEMMA LookupMoves ==
    ASSUME IInv, NEW c \in Calls, LookupLun(c)
    PROVE  Moves(c)
<1>1. /\ TypeOK /\ call \in [Calls -> CallType] /\ call[c] \in CallType /\ call[c].pc = "List"
      /\ RequestInv(c)
  BY DEF IInv, TypeOK, CallInv, LookupLun, At
<1>2. PICK r \in call[c].refs, o \in Answered :
        /\ Outcome("LunLookup", o)
        /\ IF o = "ok" /\ LiveLun(r.lun) /\ Matches(c, r.lun)
             THEN FoundVolume(c, r)
             ELSE call' = [call EXCEPT ![c].refs = @ \ {r}]
  BY DEF LookupLun
<1>3. CASE ~(o = "ok" /\ LiveLun(r.lun) /\ Matches(c, r.lun))
  <2>1. call'[c] = [call[c] EXCEPT !.refs = @ \ {r}]
    BY <1>1, <1>2, <1>3
  <2>2. "LunLookup" \notin Faulty => o = "ok"
    BY <1>2 DEF Outcome, Mishap
  <2>3. ListsOn(c) /\ SameRequest(c)
    BY <1>1, <1>3, <2>1, <2>2 DEF SameRequest, ListsOn, CallType
  <2> QED BY <2>3 DEF Moves
<1>4. CASE LiveLun(r.lun) /\ Matches(c, r.lun) /\ FoundVolume(c, r)
  <2>1. CASE CreateReply(c, r.lun, lun[r.lun].size) \/ Refuse(c)
    BY <1>1, <2>1, EndMoves DEF CreateReply, CreateDone, Refuse
  <2>2. CASE /\ ~call[c].byName
             /\ call' = [call EXCEPT ![c].pc = "LunClone", ![c].refs = {},
                                     ![c].todo = {}, ![c].host = lun[r.lun].dsm]
    <3>1. call'[c] = [call[c] EXCEPT !.pc = "LunClone", !.refs = {}, !.todo = {},
                                     !.host = lun[r.lun].dsm]
      BY <1>1, <2>2
    <3>2. r.lun = call[c].id
      BY <1>4, <2>2 DEF Matches
    <3> QED BY <1>1, <1>4, <2>2, <3>1, <3>2 DEF Moves, SameRequest, ListsEnd, CallType
  <2>3. CASE /\ call[c].op = "delete"
             /\ call' = [call EXCEPT ![c].pc = "LunDelete", ![c].refs = {},
                          ![c].todo = {}, ![c].lun = r.lun,
                          ![c].target = r.target, ![c].only = r.only]
    <3>1. call'[c] = [call[c] EXCEPT !.pc = "LunDelete", !.refs = {}, !.todo = {},
                         !.lun = r.lun, !.target = r.target, !.only = r.only]
      BY <1>1, <2>3
    <3> QED BY <1>1, <2>3, <3>1 DEF Moves, SameRequest, CallType
  <2>4. CASE /\ call[c].op = "expand"
             /\ call' = [call EXCEPT ![c].pc = "LunUpdate", ![c].refs = {},
                                    ![c].todo = {}, ![c].lun = r.lun]
    <3>1. call'[c] = [call[c] EXCEPT !.pc = "LunUpdate", !.refs = {}, !.todo = {},
                                     !.lun = r.lun]
      BY <1>1, <2>4
    <3> QED BY <1>1, <2>4, <3>1 DEF Moves, SameRequest, CallType
  <2> QED BY <1>4, <2>1, <2>2, <2>3, <2>4 DEF FoundVolume
<1> QED BY <1>2, <1>3, <1>4

LEMMA CreateMoves ==
    ASSUME IInv, NEW c \in Calls,
           \/ Pick(c) \/ LunCreate(c) \/ LunClone(c) \/ WaitClone(c) \/ LunGet(c)
           \/ TargetCreate(c) \/ TargetGet(c) \/ TargetSet(c) \/ LunMapTarget(c)
    PROVE  Moves(c)
<1>1. /\ TypeOK /\ call \in [Calls -> CallType] /\ call[c] \in CallType
      /\ call[c].pc \in CreatePcs
  BY DEF IInv, TypeOK, Pick, LunCreate, LunClone, WaitClone, LunGet, TargetCreate, TargetGet,
     TargetSet, LunMapTarget, At, CreatePcs
<1>2. ASSUME Refuse(c) \/ CreateStepFails(c) \/ \E u, size : CreateReply(c, u, size)
      PROVE  Moves(c)
  BY <1>1, <1>2, EndMoves, FailMoves DEF Refuse, CreateReply, CreateDone
<1>3. ASSUME NEW p \in CreatePcs \ {"LunClone", "LunCreate"}, Goto(c, p) PROVE Moves(c)
  BY <1>1, <1>3, GotoMoves
<1>4. CASE Pick(c)
  <2>1. ASSUME NEW d \in call[c].todo,
               call' = [call EXCEPT ![c].pc = "LunCreate", ![c].host = d,
                                    ![c].todo = @ \ {d}]
        PROVE  Moves(c)
    <3>1. call'[c] = [call[c] EXCEPT !.pc = "LunCreate", !.host = d, !.todo = @ \ {d}]
      BY <1>1, <2>1
    <3> QED BY <1>1, <3>1 DEF Moves, SameRequest, Creates, CallType, CreatePcs
  <2>2. ASSUME NEW d \in call[c].todo, call' = [call EXCEPT ![c].todo = @ \ {d}]
        PROVE  Moves(c)
    <3>1. call'[c] = [call[c] EXCEPT !.todo = @ \ {d}]
      BY <1>1, <2>2
    <3>2. call[c].pc = "Pick"
      BY <1>4 DEF Pick, At
    <3> QED BY <1>1, <3>1, <3>2 DEF Moves, SameRequest, Creates, CallType, CreatePcs
  <2> QED BY <1>2, <1>4, <2>1, <2>2 DEF Pick
<1>5. CASE LunGet(c)
  <2>1. ASSUME NEW u, call' = [call EXCEPT ![c].pc = "TargetCreate", ![c].lun = u,
                                    ![c].lunSize = lun[u].size]
        PROVE  Moves(c)
    <3>1. call'[c] = [call[c] EXCEPT !.pc = "TargetCreate", !.lun = u,
                                     !.lunSize = lun[u].size]
      BY <1>1, <2>1
    <3> QED BY <1>1, <3>1 DEF Moves, SameRequest, Creates, CallType, CreatePcs
  <2> QED BY <1>2, <1>5, <2>1 DEF LunGet
<1>6. CASE TargetGet(c)
  <2>1. ASSUME NEW t, NEW p \in {"TargetSet", "LunMapTarget"},
               call' = [call EXCEPT ![c].pc = p, ![c].target = t]
        PROVE  Moves(c)
    <3>1. call'[c] = [call[c] EXCEPT !.pc = p, !.target = t]
      BY <1>1, <2>1
    <3> QED BY <1>1, <3>1 DEF Moves, SameRequest, Creates, CallType, CreatePcs
  <2> QED BY <1>2, <1>6, <2>1 DEF TargetGet
<1>7. CASE LunCreate(c) \/ LunClone(c) \/ WaitClone(c)
  BY <1>2, <1>3, <1>7 DEF LunCreate, LunClone, WaitClone, CreatePcs
<1>8. CASE TargetCreate(c) \/ TargetSet(c) \/ LunMapTarget(c)
  BY <1>2, <1>3, <1>8 DEF TargetCreate, TargetSet, LunMapTarget, CreatePcs
<1> QED BY <1>4, <1>5, <1>6, <1>7, <1>8

LEMMA DeleteMoves ==
    ASSUME IInv, NEW c \in Calls,
           LunDelete(c) \/ LunCheck(c) \/ TargetDelete(c) \/ TargetCheck(c) \/ LunUpdate(c)
    PROVE  Moves(c)
<1>1. TypeOK /\ call[c].op # "create"
  BY DEF IInv, CallInv, RequestInv, DeletePcs, Busy, At, LunDelete, LunCheck, TargetDelete,
     TargetCheck, LunUpdate
<1>2. ASSUME Refuse(c) \/ DeleteDone(c) \/ ExpandDone(c) PROVE Moves(c)
  BY <1>1, <1>2, EndMoves DEF Refuse, DeleteDone, ExpandDone
<1>3. ASSUME NEW p, Goto(c, p) PROVE Moves(c)
  BY <1>1, <1>3, GotoMoves
<1> QED BY <1>2, <1>3 DEF LunDelete, LunCheck, TargetDelete, TargetCheck, LunUpdate

\* The cluster is told of one volume, or of one deletion, or nothing.
Told(c) ==
    \/ UNCHANGED <<phase, volumeId>>
    \/ \E u : CreateDone(c, u)
    \/ DeleteDone(c)

LEMMA StepTold ==
    ASSUME NEW c \in Calls, Step(c)
    PROVE  Told(c)
<1>1. ASSUME \/ UNCHANGED clusterVars \/ Refuse(c) \/ ExpandDone(c) \/ CreateStepFails(c)
             \/ DeleteDone(c) \/ \E u, size : CreateReply(c, u, size)
      PROVE  Told(c)
  BY <1>1 DEF clusterVars, Refuse, ExpandDone, CreateStepFails, CreateReply, Told
<1>2. CASE TargetList(c) \/ LookupLun(c) \/ ListEnd(c)
  BY <1>1, <1>2 DEF TargetList, LookupLun, ListEnd, FoundVolume, NoVolume, DeleteNothing,
     clusterVars
<1>3. CASE Pick(c) \/ LunCreate(c) \/ LunClone(c) \/ WaitClone(c) \/ LunGet(c)
  BY <1>1, <1>3 DEF Pick, LunCreate, LunClone, WaitClone, LunGet, clusterVars
<1>4. CASE TargetCreate(c) \/ TargetGet(c) \/ TargetSet(c) \/ LunMapTarget(c)
  BY <1>1, <1>4 DEF TargetCreate, TargetGet, TargetSet, LunMapTarget, clusterVars
<1>5. CASE LunDelete(c) \/ LunCheck(c) \/ TargetDelete(c) \/ TargetCheck(c) \/ LunUpdate(c)
  BY <1>1, <1>5 DEF LunDelete, LunCheck, TargetDelete, TargetCheck, LunUpdate, clusterVars
<1> QED BY <1>2, <1>3, <1>4, <1>5 DEF Step

\* A step of a handler as far as this part needs it.
LEMMA StepMoves ==
    ASSUME IInv, NEW c \in Calls, Step(c)
    PROVE  /\ Busy(c) /\ Moves(c) /\ Told(c) /\ DsmEffect(c) /\ UNCHANGED dsms
           /\ Lasting /\ PhasesLast
           /\ \A d \in Calls : d # c => call'[d] = call[d]
<1>1. Busy(c)
  BY DEF Step, TargetList, LookupLun, ListEnd, Pick, LunCreate, LunClone, WaitClone, LunGet,
     TargetCreate, TargetGet, TargetSet, LunMapTarget, LunDelete, LunCheck, TargetDelete,
     TargetCheck, LunUpdate, At, Busy
<1>2. Moves(c)
  BY ListMoves, LookupMoves, CreateMoves, DeleteMoves DEF Step
<1>3. Told(c) /\ DsmEffect(c) /\ UNCHANGED dsms /\ Lasting
  BY <1>1, StepTold, StepDsm, EffectLasts
<1>4. PhasesLast
  BY <1>3 DEF IInv, TypeOK, Told, CreateDone, DeleteDone, Answers, PhasesLast
<1>5. \A d \in Calls : d # c => call'[d] = call[d]
  BY StepCalls DEF IInv
<1> QED BY <1>1, <1>2, <1>3, <1>4, <1>5

-----------------------------------------------------------------------------
(* Names with one server to be on.                                         *)

\* The volume of n may be on server d: the one the request names, the one of the
\* volume it is copied from, or any.
Home(d, n) ==
    /\ d \in Dsms
    /\ LET source == Request[n].source
       IN  IF source = None THEN Request[n].dsm \in {None, d}
           ELSE phase[source] # "wanted" /\ lun[volumeId[source]].dsm = d

\* There is one server for each name: a copy is on the server of its source.
OneHome ==
    \A n \in Names : Request[n].source = None /\ Request[n].dsm = None =>
        \A d, e \in Dsms : d = e

HomeInv == \A u \in Uuids : BornLun(u) => Home(lun[u].dsm, lun[u].name)

\* A creation stays on the servers it may use.
HomeCall(c) ==
    Busy(c) /\ call[c].op = "create" =>
        /\ Clones(c) =>
             /\ phase[Request[call[c].name].source] # "wanted"
             /\ call[c].id = volumeId[Request[call[c].name].source]
        /\ call[c].pc \in {"LunCreate", "LunClone"} => Home(call[c].host, call[c].name)
        /\ call[c].pc \in CreatePcs => \A d \in call[c].todo : Home(d, call[c].name)

\* What is mapped is not deleted.
MappedLive == \A t \in Tids : \A u \in target[t].luns : LiveLun(u)

HInv == IInv /\ HomeInv /\ MappedLive /\ \A c \in Calls : HomeCall(c)

OneLun ==
    \A u, v \in Uuids : LiveLun(u) /\ LiveLun(v) /\ lun[u].name = lun[v].name => u = v

LEMMA SourceNames ==
    ASSUME NEW n \in Names
    PROVE  Request[n].source \in Names \cup {None} /\ Request[n].dsm \in Dsms \cup {None}
BY RequestsTyped DEF RequestType

LEMMA HomesOne ==
    ASSUME OneHome, HInv
    PROVE  OneLun
<1> SUFFICES ASSUME NEW u \in Uuids, NEW v \in Uuids, LiveLun(u), LiveLun(v),
                    lun[u].name = lun[v].name
             PROVE  u = v
  BY DEF OneLun
<1>1. /\ BornLun(u) /\ BornLun(v) /\ lun[u].name \in Names
  BY DEF LiveLun, BornLun, HInv, IInv, LunInv
<1>2. Home(lun[u].dsm, lun[u].name) /\ Home(lun[v].dsm, lun[u].name)
  BY <1>1 DEF HInv, HomeInv
<1>3. lun[u].dsm = lun[v].dsm
  BY <1>1, <1>2, SourceNames DEF Home, OneHome
<1> QED BY <1>3 DEF HInv, IInv, LunInv

\* A server a name may be on stays one.
LEMMA HomeLasts ==
    ASSUME IInv, Lasting, PhasesLast, NEW n \in Names, NEW d, Home(d, n)
    PROVE  Home(d, n)'
<1>1. CASE Request[n].source = None
  BY <1>1 DEF Home
<1>2. CASE Request[n].source # None
  <2>1. PICK s \in Names : s = Request[n].source
    BY <1>2, SourceNames
  <2>2. phase[s] # "wanted" /\ lun[volumeId[s]].dsm = d
    BY <1>2, <2>1 DEF Home
  <2>3. phase'[s] # "wanted" /\ volumeId'[s] = volumeId[s]
    BY <2>2 DEF PhasesLast
  <2>4. lun'[volumeId[s]].dsm = d
    BY <2>2 DEF IInv, PhaseInv, Lasting
  <2> QED BY <1>2, <2>1, <2>3, <2>4 DEF Home
<1> QED BY <1>1, <1>2

LEMMA CallHome ==
    ASSUME HInv, Lasting, PhasesLast, NEW c \in Calls,
           Stands(c) \/ (Moves(c) /\ UNCHANGED dsms)
    PROVE  HomeCall(c)'
<1> SUFFICES ASSUME Busy(c)', call'[c].op = "create" PROVE HomeCall(c)'
  BY DEF HomeCall
<1>0. /\ call'[c].op = call[c].op /\ call'[c].name = call[c].name /\ call'[c].id = call[c].id
      /\ call[c].op = "create" /\ Busy(c)
  <2>1. SameRequest(c)
    BY DEF Moves, Stands
  <2>2. call[c].op # "none"
    BY <2>1 DEF SameRequest
  <2>3. Busy(c)
    BY DEF Stands, Moves, ListsOn, ListsEnd, Creates, CreatePcs, Busy, SameRequest
  <2> QED BY <2>1, <2>3 DEF SameRequest
<1>n. PICK n \in Names : n = call[c].name
  BY <1>0 DEF HInv, IInv, CallInv, RequestInv
<1>1. n = call[c].name /\ HomeCall(c) /\ RequestInv(c) /\ call[c] \in CallType
  BY <1>n DEF HInv, IInv, TypeOK, CallInv
<1>2. Clones(c) => /\ phase'[Request[n].source] # "wanted"
                   /\ call[c].id = volumeId'[Request[n].source]
  BY <1>0, <1>1, SourceNames DEF HomeCall, PhasesLast, Clones
<1>3. ASSUME NEW d, Home(d, n) PROVE Home(d, n)'
  BY <1>3, HomeLasts DEF HInv
<1>4. /\ call'[c].pc \in {"LunCreate", "LunClone"} => Home(call'[c].host, n)
      /\ call'[c].pc \in CreatePcs => \A d \in call'[c].todo : Home(d, n)
  <2>1. CASE Stands(c)
    BY <1>0, <1>1, <2>1 DEF Stands, HomeCall
  <2>2. CASE ListsOn(c)
    BY <2>2 DEF ListsOn, CreatePcs
  <2>3. CASE /\ call'[c].pc = "Pick" /\ ~Clones(c) /\ call'[c].todo = HostsFor(c)
    <3>1. \A d \in HostsFor(c) : Home(d, n)
      BY <1>1, <2>3 DEF Clones, HostsFor, Home, HInv, IInv, TypeOK
    <3> QED BY <2>3, <3>1
  <2>4. CASE /\ call[c].pc = "List" /\ ~call[c].byName /\ LiveLun(call[c].id)
             /\ call'[c].pc = "LunClone" /\ call'[c].todo = {}
             /\ call'[c].host = lun[call[c].id].dsm
    <3>1. Clones(c) /\ call[c].id \in Uuids
      BY <1>0, <1>1, <2>4 DEF RequestInv
    <3>2. lun[call[c].id].dsm \in Dsms
      BY <2>4, <3>1 DEF HInv, HomeInv, Home, LiveLun, BornLun
    <3>3. Home(call'[c].host, n)
      BY <1>0, <1>1, <2>4, <3>1, <3>2 DEF HomeCall, Clones, Home
    <3> QED BY <2>4, <3>3
  <2>5. CASE Creates(c)
    BY <1>0, <1>1, <2>5 DEF Creates, HomeCall, CreatePcs
  <2> QED BY <1>0, <2>1, <2>2, <2>3, <2>4, <2>5 DEF Moves, ListsEnd
<1>5. PICK host, todo : host = call'[c].host /\ todo = call'[c].todo
  OBVIOUS
<1>6. /\ call'[c].pc \in {"LunCreate", "LunClone"} => Home(host, n)'
      /\ call'[c].pc \in CreatePcs => \A d \in todo : Home(d, n)'
  <2>1. /\ call'[c].pc \in {"LunCreate", "LunClone"} => Home(host, n)
        /\ call'[c].pc \in CreatePcs => \A d \in todo : Home(d, n)
    BY <1>4, <1>5
  <2> QED BY <1>3, <2>1
<1> QED BY <1>0, <1>1, <1>2, <1>5, <1>6 DEF HomeCall, Clones, Home

\* A LUN is born on the server of the creation that makes it, with its name.
LEMMA NewBorn ==
    ASSUME IInv, NEW c \in Calls, DsmEffect(c), NEW u \in Uuids, ~BornLun(u), BornLun(u)'
    PROVE  /\ call[c].pc \in {"LunCreate", "LunClone"}
           /\ lun'[u].dsm = call[c].host /\ lun'[u].name = call[c].name
<1>0. lun \in [Uuids -> LunType]
  BY DEF IInv, TypeOK
<1>1. CASE Quiet
  BY <1>1 DEF Quiet, BornLun
<1>2. CASE MakesLun(c)
  BY <1>0, <1>2 DEF MakesLun, NewLun, BornLun
<1>3. CASE MakesTarget(c) \/ OpensTarget(c) \/ MapsLun(c) \/ DeletesTarget(c)
  BY <1>3 DEF MakesTarget, OpensTarget, MapsLun, DeletesTarget, BornLun
<1>4. CASE DeletesLun(c)
  BY <1>0, <1>4 DEF DeletesLun, BornLun, LiveLun
<1> QED BY <1>1, <1>2, <1>3, <1>4 DEF DsmEffect

LEMMA EffectHome ==
    ASSUME HInv, IInv', NEW c \in Calls, Busy(c), DsmEffect(c), Lasting, PhasesLast
    PROVE  HomeInv'
<1> SUFFICES ASSUME NEW u \in Uuids, BornLun(u)'
             PROVE  Home(lun[u].dsm, lun[u].name)'
  BY DEF HomeInv
<1>1. PICK d, n : n \in Names /\ d = lun'[u].dsm /\ n = lun'[u].name
  BY DEF IInv, LunInv, BornLun
<1>2. Home(d, n)
  <2>1. CASE BornLun(u)
    BY <1>1, <2>1 DEF HInv, HomeInv, Lasting
  <2>2. CASE ~BornLun(u)
    <3>1. /\ call[c].pc \in {"LunCreate", "LunClone"} /\ d = call[c].host /\ n = call[c].name
      BY <1>1, <2>2, NewBorn DEF HInv
    <3>2. call[c].op = "create"
      BY <3>1 DEF HInv, IInv, CallInv, RequestInv, CreatePcs
    <3> QED BY <3>1, <3>2 DEF HInv, HomeCall
  <2> QED BY <2>1, <2>2
<1>3. Home(d, n)'
  BY <1>1, <1>2, HomeLasts DEF HInv
<1> QED BY <1>1, <1>3 DEF Home

LEMMA EffectMapped ==
    ASSUME IInv, MappedLive, NEW c \in Calls, DsmEffect(c)
    PROVE  MappedLive'
<1>0. /\ lun \in [Uuids -> LunType] /\ target \in [Tids -> TargetType]
      /\ \A t \in Tids : \A u \in target[t].luns : LiveLun(u) /\ u \in Uuids
  BY DEF IInv, TypeOK, MappedLive, TargetType
<1>1. CASE Quiet
  BY <1>0, <1>1 DEF Quiet, MappedLive, LiveLun
<1>2. CASE MakesLun(c)
  BY <1>0, <1>2 DEF MakesLun, NewLun, UnbornLuns, MappedLive, LiveLun
<1>3. CASE MakesTarget(c)
  BY <1>0, <1>3 DEF MakesTarget, UnbornTargets, MappedLive, LiveLun
<1>4. CASE OpensTarget(c) \/ DeletesTarget(c)
  <2>1. \A t \in Tids : target'[t].luns \subseteq target[t].luns
    BY <1>0, <1>4 DEF OpensTarget, DeletesTarget, TargetType
  <2> QED BY <1>0, <1>4, <2>1 DEF OpensTarget, DeletesTarget, MappedLive, LiveLun
<1>5. CASE MapsLun(c)
  <2>1. \A t \in Tids : target'[t].luns \subseteq target[t].luns \cup {call[c].lun}
    BY <1>0, <1>5 DEF MapsLun, TargetType
  <2> QED BY <1>0, <1>5, <2>1 DEF MapsLun, MappedLive, LiveLun
<1>6. CASE DeletesLun(c)
  <2>1. \A t \in Tids : target'[t].luns = target[t].luns \ {call[c].lun}
    BY <1>0, <1>6 DEF DeletesLun, Unmap, TargetType
  <2>2. \A u \in Uuids : u # call[c].lun => lun'[u] = lun[u]
    BY <1>0, <1>6 DEF DeletesLun
  <2> QED BY <1>0, <2>1, <2>2 DEF MappedLive, LiveLun
<1> QED BY <1>1, <1>2, <1>3, <1>4, <1>5, <1>6 DEF DsmEffect

\* A step that is no handler's.
LEMMA RestMoves ==
    ASSUME IInv, [Next]_vars, ~(\E c \in Calls : Step(c))
    PROVE  /\ UNCHANGED target /\ PhasesLast /\ Lasting
           /\ \/ UNCHANGED lun
              \/ \E u \in Uuids : CloneDone(u)
<1>1. CASE \E c \in Calls, n \in Names : StartCreate(c, n) \/ StartExpand(c, n) \/ StartDelete(c, n)
  BY <1>1 DEF StartCreate, StartExpand, StartDelete, Start, PhasesLast, Lasting, BornLun,
     BornTarget, LiveLun
<1>2. CASE \E n \in Names : Release(n)
  BY <1>2 DEF Release, PhasesLast, Lasting, BornLun, BornTarget, LiveLun, IInv, TypeOK
<1>3. CASE \/ \E c \in Calls : Deadline(c)
           \/ Restart \/ Finished \/ UNCHANGED vars
  BY <1>3 DEF Deadline, Restart, Finished, vars, clusterVars, PhasesLast, Lasting, BornLun,
     BornTarget, LiveLun
<1>4. ASSUME NEW u \in Uuids, CloneDone(u)
      PROVE  UNCHANGED target /\ PhasesLast /\ Lasting
  <2>1. \A v \in Uuids : /\ lun'[v].name = lun[v].name /\ lun'[v].dsm = lun[v].dsm
                         /\ BornLun(v)' <=> BornLun(v)
                         /\ LiveLun(v)' <=> LiveLun(v)
    BY <1>4 DEF CloneDone, LunType, BornLun, LiveLun, IInv, TypeOK
  <2> QED BY <1>4, <2>1 DEF CloneDone, Lasting, BornTarget, PhasesLast
<1> QED BY <1>1, <1>2, <1>3, <1>4 DEF Next

LEMMA SameMapped ==
    ASSUME IInv, MappedLive, UNCHANGED target, UNCHANGED lun \/ \E u \in Uuids : CloneDone(u)
    PROVE  MappedLive'
<1>1. /\ lun \in [Uuids -> LunType]
      /\ \A t \in Tids : \A u \in target[t].luns : LiveLun(u) /\ u \in Uuids
  BY DEF IInv, TypeOK, MappedLive, TargetType
<1>2. \A v \in Uuids : LiveLun(v) => LiveLun(v)'
  BY <1>1 DEF CloneDone, LunType, LiveLun
<1> QED BY <1>1, <1>2 DEF MappedLive

\* What a call that is started asks for.
LEMMA StartHome ==
    ASSUME IInv, NEW c \in Calls, NEW n \in Names, StartCreate(c, n)
    PROVE  HomeCall(c)'
<1> DEFINE source == Request[n].source
           id == IF source = None THEN None ELSE volumeId[source]
<1>1. /\ Start(c, "create", n, id, Request[n].size) /\ (source # None => phase[source] = "bound")
  BY DEF StartCreate
<1>2. /\ UNCHANGED <<phase, volumeId>>
      /\ call'[c].pc = "List" /\ call'[c].name = n /\ call'[c].id = id
  BY <1>1 DEF Start, IInv, TypeOK, IdleCall
<1> QED BY <1>1, <1>2 DEF HomeCall, Clones, CreatePcs

LEMMA RestStands ==
    ASSUME IInv, NEW c \in Calls, [Next]_vars, ~(\E d \in Calls : Step(d))
    PROVE  \/ Stands(c) \/ ~Busy(c)'
           \/ \E n \in Names : StartCreate(c, n)
           \/ call'[c].op # "create"
<1>0. call \in [Calls -> CallType] /\ call[c] \in CallType
  BY DEF IInv, TypeOK
<1>1. ASSUME NEW d \in Calls, NEW n \in Names,
             StartExpand(d, n) \/ StartDelete(d, n) \/ StartCreate(d, n)
      PROVE  \/ Stands(c) \/ call'[c].op # "create" \/ StartCreate(c, n)
  <2>1. CASE c # d
    BY <1>0, <1>1, <2>1 DEF StartCreate, StartExpand, StartDelete, Start, Stands, SameRequest
  <2>2. CASE c = d /\ ~StartCreate(c, n)
    <3>1. PICK op, id, size : op \in {"expand", "delete"} /\ Start(c, op, n, id, size)
      BY <1>1, <2>2 DEF StartExpand, StartDelete
    <3>2. call'[c].op = op
      BY <1>0, <3>1 DEF Start, IdleCall
    <3> QED BY <3>1, <3>2
  <2> QED BY <2>1, <2>2
<1>2. ASSUME NEW d \in Calls, Deadline(d)
      PROVE  Stands(c)
  <2>1. call'[c] = call[c] \/ call'[c] = [call[c] EXCEPT !.live = FALSE]
    BY <1>0, <1>2 DEF Deadline
  <2> QED BY <1>0, <2>1 DEF Stands, SameRequest, CallType
<1>3. CASE Restart
  BY <1>3 DEF Restart, Busy, IdleCall
<1>4. CASE UNCHANGED call
  BY <1>4 DEF Stands, SameRequest
<1> QED BY <1>1, <1>2, <1>3, <1>4 DEF Next, Release, CloneDone, Finished, vars

LEMMA NextHInv == HInv /\ [Next]_vars => HInv'
<1> SUFFICES ASSUME HInv, [Next]_vars PROVE HInv'
  OBVIOUS
<1>0. IInv'
  BY NextIInv DEF HInv
<1>1. ASSUME NEW c \in Calls, Step(c) PROVE HInv'
  <2>1. /\ Busy(c) /\ Moves(c) /\ DsmEffect(c) /\ UNCHANGED dsms /\ Lasting /\ PhasesLast
        /\ \A d \in Calls : d # c => call'[d] = call[d]
    BY <1>1, StepMoves DEF HInv
  <2>2. HomeInv' /\ MappedLive'
    BY <1>0, <2>1, EffectHome, EffectMapped DEF HInv
  <2>3. \A d \in Calls : HomeCall(d)'
    BY <2>1, CallHome DEF Stands, SameRequest
  <2> QED BY <1>0, <2>2, <2>3 DEF HInv
<1>2. CASE ~(\E c \in Calls : Step(c))
  <2>1. /\ UNCHANGED target /\ PhasesLast /\ Lasting
        /\ UNCHANGED lun \/ \E u \in Uuids : CloneDone(u)
    BY <1>2, RestMoves DEF HInv
  <2>2. MappedLive'
    BY <2>1, SameMapped DEF HInv
  <2>3. HomeInv'
    <3> SUFFICES ASSUME NEW u \in Uuids, BornLun(u)'
                 PROVE  Home(lun[u].dsm, lun[u].name)'
      BY DEF HomeInv
    <3>1. BornLun(u) /\ lun'[u].name = lun[u].name /\ lun'[u].dsm = lun[u].dsm
      <4>1. BornLun(u)
        BY <2>1 DEF CloneDone, BornLun, HInv, IInv, TypeOK, LunType
      <4> QED BY <2>1, <4>1 DEF Lasting
    <3>2. PICK d, n : n \in Names /\ d = lun[u].dsm /\ n = lun[u].name
      BY <3>1 DEF HInv, IInv, LunInv
    <3>3. Home(d, n)'
      BY <2>1, <3>1, <3>2, HomeLasts DEF HInv, HomeInv
    <3> QED BY <3>1, <3>2, <3>3 DEF Home
  <2>4. ASSUME NEW c \in Calls PROVE HomeCall(c)'
    <3>1. CASE Stands(c)
      BY <2>1, <3>1, CallHome
    <3>2. CASE ~Busy(c)' \/ call'[c].op # "create"
      BY <3>2 DEF HomeCall
    <3>3. CASE \E n \in Names : StartCreate(c, n)
      BY <3>3, StartHome DEF HInv
    <3> QED BY <1>2, <3>1, <3>2, <3>3, RestStands DEF HInv
  <2> QED BY <1>0, <2>2, <2>3, <2>4 DEF HInv
<1> QED BY <1>1, <1>2

LEMMA InitHInv == Init => HInv
BY InitIInv DEF Init, HInv, HomeInv, MappedLive, HomeCall, BornLun, Busy, IdleCall

\* No name has two volumes, whatever fails, crashes or comes late, if there is one
\* server for each: what is made for a name a second time is found there by name.
THEOREM OneVolumeAtHome ==
    ASSUME OneHome PROVE Spec => []OneVolumePerName
<1>1. HInv => OneVolumePerName
  BY HomesOne DEF HInv, OneLun, OneVolumePerName, MappedLive, Mapped, TargetsOf
<1> QED BY <1>1, InitHInv, NextHInv, PTL DEF Spec

-----------------------------------------------------------------------------
(* Nothing of a deleted volume is left.                                    *)

\* A volume is made for names that are wanted.
CreateWanted ==
    \A c \in Calls : Busy(c) /\ call[c].op = "create" => phase[call[c].name] = "wanted"

\* The only LUN of a name that was bound is the one the cluster knows of.
Known ==
    \A n \in Names, u \in Uuids :
        phase[n] # "wanted" /\ LiveLun(u) /\ lun[u].name = n => u = volumeId[n]

KInv == RInv /\ SInv /\ HInv /\ CreateWanted /\ Known

LEMMA KnownLasts ==
    ASSUME KInv, IInv', OneLun', PhasesLast, Lasting,
           \A n \in Names : phase[n] = "wanted" => phase'[n] \in {"wanted", "bound"},
           \A u \in Uuids : BornLun(u)' /\ ~BornLun(u) => phase[lun'[u].name] = "wanted"
    PROVE  Known'
<1> SUFFICES ASSUME NEW n \in Names, NEW u \in Uuids, phase'[n] # "wanted",
                    LiveLun(u)', lun'[u].name = n
             PROVE  u = volumeId'[n]
  BY DEF Known, LiveLun
<1>1. CASE phase[n] # "wanted"
  <2>1. BornLun(u)
    BY <1>1 DEF LiveLun, BornLun
  <2>2. LiveLun(u) /\ lun[u].name = n
    BY <2>1 DEF Lasting
  <2> QED BY <1>1, <2>2 DEF KInv, Known, PhasesLast
<1>2. CASE phase[n] = "wanted"
  <2>1. phase'[n] = "bound"
    BY <1>2
  <2>2. PICK v \in Uuids : v = volumeId'[n]
    BY <2>1 DEF IInv, PhaseInv
  <2>3. LiveLun(v)' /\ lun'[v].name = n
    BY <2>1, <2>2 DEF IInv, BoundUsable, Usable, LiveLun
  <2> QED BY <2>2, <2>3 DEF OneLun, LiveLun
<1> QED BY <1>1, <1>2

LEMMA HomesOneNext ==
    ASSUME OneHome PROVE HInv' => OneLun'
<1>1. HInv => OneLun
  BY HomesOne
<1> QED BY <1>1, PTL

LEMMA StepKnown ==
    ASSUME KInv, NEW c \in Calls, Step(c), IInv', OneLun'
    PROVE  CreateWanted' /\ Known'
<1>1. /\ Busy(c) /\ Moves(c) /\ Told(c) /\ DsmEffect(c) /\ Lasting /\ PhasesLast
      /\ \A d \in Calls : d # c => call'[d] = call[d]
      /\ phase \in [Names -> {"wanted", "bound", "released", "deleted"}]
  BY StepMoves DEF KInv, HInv, IInv, TypeOK
<1>2. /\ \A n \in Names : phase[n] = "wanted" => phase'[n] \in {"wanted", "bound"}
      /\ \/ UNCHANGED phase
         \/ ~Busy(c)' /\ \A n \in Names : n # call[c].name => phase'[n] = phase[n]
  <2>1. ASSUME Return(c) PROVE ~Busy(c)'
    BY <2>1 DEF KInv, HInv, IInv, TypeOK, Return, Busy, IdleCall
  <2> QED BY <1>1, <2>1 DEF Told, CreateDone, DeleteDone, Answers
<1>3. Known'
  <2>1. ASSUME NEW u \in Uuids, BornLun(u)', ~BornLun(u)
        PROVE  phase[lun'[u].name] = "wanted"
    <3>1. call[c].pc \in {"LunCreate", "LunClone"} /\ lun'[u].name = call[c].name
      BY <1>1, <2>1, NewBorn DEF KInv, HInv
    <3>2. call[c].op = "create"
      BY <1>1, <3>1 DEF KInv, HInv, IInv, CallInv, RequestInv, CreatePcs
    <3> QED BY <1>1, <3>1, <3>2 DEF KInv, CreateWanted
  <2> QED BY <1>1, <1>2, <2>1, KnownLasts
<1>4. ASSUME NEW d \in Calls, Busy(d)', call'[d].op = "create"
      PROVE  phase'[call'[d].name] = "wanted"
  <2>1. /\ Busy(d) /\ call[d].op = "create" /\ call'[d].name = call[d].name
    BY <1>1, <1>4 DEF Moves, SameRequest, Busy
  <2>2. phase[call[d].name] = "wanted" /\ call[d].name \in Names
    BY <2>1 DEF KInv, CreateWanted, HInv, IInv, CallInv, RequestInv
  <2>3. d # c => call[d].name # call[c].name
    BY <1>1, <2>1 DEF KInv, SInv, Alone
  <2> QED BY <1>2, <1>4, <2>1, <2>2, <2>3
<1> QED BY <1>3, <1>4 DEF CreateWanted, Busy

LEMMA NextKInv ==
    ASSUME ReadsWork, "Deadline" \notin Faulty, OneHome, KInv, [Next]_vars
    PROVE  KInv'
<1>0. RInv' /\ SInv' /\ HInv' /\ IInv'
  BY NextRInv, NextSInv, NextHInv DEF KInv, HInv
<1>1. OneLun'
  BY <1>0, HomesOneNext
<1>2. ASSUME NEW c \in Calls, Step(c) PROVE CreateWanted' /\ Known'
  BY <1>0, <1>1, <1>2, StepKnown
<1>3. CASE ~(\E c \in Calls : Step(c))
  <2>1. /\ PhasesLast /\ Lasting
        /\ UNCHANGED lun \/ \E u \in Uuids : CloneDone(u)
    BY <1>3, RestMoves DEF KInv, HInv
  <2>2. \A n \in Names : phase[n] = "wanted" => phase'[n] = "wanted"
    <3>1. CASE UNCHANGED phase
      BY <3>1
    <3>2. ASSUME NEW n \in Names, Release(n)
          PROVE  \A m \in Names : phase[m] = "wanted" => phase'[m] = "wanted"
      BY <3>2 DEF Release, KInv, HInv, IInv, TypeOK
    <3> QED BY <1>3, <3>1, <3>2 DEF Next, StartCreate, StartExpand, StartDelete, Start, Deadline,
            Restart, clusterVars, CloneDone, Finished, vars
  <2>3. \A u \in Uuids : BornLun(u)' => BornLun(u)
    BY <2>1 DEF CloneDone, BornLun, KInv, HInv, IInv, TypeOK, LunType
  <2>4. Known'
    BY <1>0, <1>1, <2>1, <2>2, <2>3, KnownLasts
  <2>5. ASSUME NEW c \in Calls, Busy(c)', call'[c].op = "create"
        PROVE  phase'[call'[c].name] = "wanted"
    <3>1. CASE Stands(c)
      <4>1. Busy(c) /\ call[c].op = "create" /\ call'[c].name = call[c].name
        BY <2>5, <3>1 DEF Stands, SameRequest, Busy
      <4>2. phase[call[c].name] = "wanted" /\ call[c].name \in Names
        BY <4>1 DEF KInv, CreateWanted, HInv, IInv, CallInv, RequestInv
      <4> QED BY <2>2, <4>1, <4>2
    <3>2. ASSUME NEW n \in Names, StartCreate(c, n) PROVE phase'[call'[c].name] = "wanted"
      <4>1. UNCHANGED phase /\ call'[c].name = n /\ phase[n] = "wanted"
        BY <3>2 DEF StartCreate, Start, IdleCall, KInv, HInv, IInv, TypeOK
      <4> QED BY <4>1
    <3>3. IInv
      BY DEF KInv, HInv
    <3>4. CASE \E n \in Names : StartCreate(c, n)
      BY <3>2, <3>4
    <3> QED BY <1>3, <2>5, <3>1, <3>3, <3>4, RestStands
  <2> QED BY <1>0, <2>4, <2>5 DEF CreateWanted, Busy, KInv
<1> QED BY <1>0, <1>2, <1>3 DEF KInv

\* When a deletion was reported no LUN of the name is left, not even one that a
\* failed or crashed try made, if there is one server for each name, the cluster
\* waits for its answers and the reads by which volumes are found do not fail.
THEOREM DeletedLeavesNothing ==
    ASSUME ReadsWork, "Deadline" \notin Faulty, OneHome
    PROVE  Spec => []NothingLeaked
<1>1. Init => KInv
  BY InitRInv, InitSInv, InitHInv DEF Init, KInv, CreateWanted, Known, Busy, IdleCall
<1>2. KInv /\ [Next]_vars => KInv'
  BY NextKInv
<1>3. KInv => NothingLeaked
  BY DEF KInv, Known, RInv, DeletedGone, NothingLeaked
<1> QED BY <1>1, <1>2, <1>3, PTL DEF Spec

-----------------------------------------------------------------------------
(* Names with many servers to be on.                                       *)

\* No two handlers work for one name: there is one handler, or the cluster waits.
Serial == (\A c, d \in Calls : c = d) \/ "Deadline" \notin Faulty

\* What is mapped for the name of a creation is still before its listing: a server
\* where it is mapped, or a mapping of it.  A creation that is done with listing
\* its name creates a volume that no server has.
MissInv(c) ==
    Busy(c) /\ call[c].op = "create" =>
        \A u \in Uuids : Mapped(u) /\ lun[u].name = call[c].name =>
            /\ call[c].pc = "List" /\ call[c].byName
            /\ \/ \E t \in TargetsOf(u) : target[t].dsm \in call[c].todo
               \/ \E r \in call[c].refs : r.lun = u

VInv == RInv /\ MappedLive /\ OneVolumePerName /\ \A c \in Calls : MissInv(c)

\* What is mapped is born and mapped to targets that are born.
LEMMA MappedBorn ==
    ASSUME IInv, MappedLive, NEW u \in Uuids, Mapped(u)
    PROVE  /\ LiveLun(u) /\ BornLun(u)
           /\ \A t \in TargetsOf(u) : t \in Tids /\ BornTarget(t)
BY DEF IInv, TypeOK, TargetType, MappedLive, Mapped, TargetsOf, LiveTarget, LiveLun, BornLun,
       BornTarget

\* A handler maps and unmaps LUNs of its own name only.
LEMMA ForeignMaps ==
    ASSUME RInv, NEW c \in Calls, Busy(c), DsmEffect(c),
           NEW u \in Uuids, BornLun(u), lun[u].name # call[c].name
    PROVE  TargetsOf(u)' = TargetsOf(u)
<1>0. /\ target \in [Tids -> TargetType]
      /\ \A t \in TargetsOf(u) : target[t].name = lun[u].name
  BY DEF RInv, IInv, TypeOK, TargetInv, TargetsOf
<1>1. CASE UNCHANGED target
  BY <1>1 DEF TargetsOf, LiveTarget
<1>2. CASE MakesTarget(c)
  BY <1>0, <1>2 DEF MakesTarget, UnbornTargets, TargetsOf, LiveTarget
<1>3. CASE OpensTarget(c)
  <2>1. \A t \in Tids : target'[t].st = target[t].st /\ target'[t].luns = target[t].luns
    BY <1>0, <1>3 DEF OpensTarget, TargetType
  <2> QED BY <2>1 DEF TargetsOf, LiveTarget
<1>4. CASE MapsLun(c)
  <2>1. call[c].lun # u
    BY <1>4, Own DEF MapsLun, MappingPcs
  <2>2. \A t \in Tids : /\ target'[t].st = target[t].st
                        /\ u \in target'[t].luns <=> u \in target[t].luns
    BY <1>0, <1>4, <2>1 DEF MapsLun, TargetType
  <2> QED BY <2>2 DEF TargetsOf, LiveTarget
<1>5. CASE DeletesLun(c)
  <2>1. call[c].lun # u
    BY <1>5, Own DEF DeletesLun, DeletePcs
  <2>2. \A t \in Tids : /\ target'[t].st = target[t].st
                        /\ u \in target'[t].luns <=> u \in target[t].luns
    BY <1>0, <1>5, <2>1 DEF DeletesLun, Unmap, TargetType
  <2> QED BY <2>2 DEF TargetsOf, LiveTarget
<1>6. CASE DeletesTarget(c)
  <2>1. call[c].target \notin TargetsOf(u)
    BY <1>0, <1>6, Own DEF DeletesTarget, DeletePcs
  <2>2. \A t \in Tids : IF t = call[c].target THEN target'[t].st = "deleted"
                                              ELSE target'[t] = target[t]
    BY <1>0, <1>6 DEF DeletesTarget, TargetType
  <2> QED BY <2>1, <2>2 DEF TargetsOf, LiveTarget
<1> QED BY <1>1, <1>2, <1>3, <1>4, <1>5, <1>6 DEF DsmEffect, Quiet, MakesLun

\* The one step that maps a LUN.
LEMMA NewMapped ==
    ASSUME IInv, NEW c \in Calls, DsmEffect(c), NEW u \in Uuids, Mapped(u)', ~Mapped(u)
    PROVE  call[c].pc = "LunMapTarget" /\ u = call[c].lun /\ target' # target
<1>0. target \in [Tids -> TargetType]
  BY DEF IInv, TypeOK
<1>1. target' # target
  BY DEF Mapped, TargetsOf, LiveTarget
<1>2. PICK t \in Tids : target'[t].st = "live" /\ u \in target'[t].luns
  BY DEF Mapped, TargetsOf, LiveTarget
<1>3. ~(target[t].st = "live" /\ u \in target[t].luns)
  BY DEF Mapped, TargetsOf, LiveTarget
<1>4. CASE MakesTarget(c)
  BY <1>0, <1>2, <1>3, <1>4 DEF MakesTarget
<1>5. CASE OpensTarget(c) \/ DeletesLun(c) \/ DeletesTarget(c)
  <2>1. /\ target'[t].st \in {target[t].st, "deleted"}
        /\ target'[t].luns \subseteq target[t].luns
    BY <1>0, <1>5 DEF OpensTarget, DeletesLun, DeletesTarget, Unmap, TargetType
  <2> QED BY <1>2, <1>3, <2>1
<1>6. CASE MapsLun(c)
  <2>1. /\ target'[t].st = target[t].st
        /\ target'[t].luns \subseteq target[t].luns \cup {call[c].lun}
    BY <1>0, <1>6 DEF MapsLun, TargetType
  <2> QED BY <1>1, <1>2, <1>3, <1>6, <2>1 DEF MapsLun
<1> QED BY <1>1, <1>4, <1>5, <1>6 DEF DsmEffect, Quiet, MakesLun

\* A mapping that does not fail ends its handler.
LEMMA MapEnds ==
    ASSUME "LunMapTarget" \notin Faulty, TypeOK, NEW c \in Calls, Step(c),
           call[c].pc = "LunMapTarget", target' # target
    PROVE  ~Busy(c)'
<1>1. LunMapTarget(c)
  BY DEF Step, TargetList, LookupLun, ListEnd, Pick, LunCreate, LunClone, WaitClone, LunGet,
     TargetCreate, TargetGet, TargetSet, LunDelete, LunCheck, TargetDelete, TargetCheck,
     LunUpdate, At
<1>2. CreateReply(c, call[c].lun, call[c].lunSize)
  BY <1>1 DEF LunMapTarget, Outcome, Mishap
<1>3. Return(c)
  BY <1>2 DEF CreateReply, CreateDone, Refuse
<1> QED BY <1>3 DEF TypeOK, Return, Busy, IdleCall

\* A creation that goes on has lost nothing of its name from sight.
LEMMA OwnMiss ==
    ASSUME ReadsWork, "LunMapTarget" \notin Faulty, VInv, NEW c \in Calls, Step(c)
    PROVE  MissInv(c)'
<1> SUFFICES ASSUME Busy(c)', call'[c].op = "create", NEW u \in Uuids, Mapped(u)',
                    lun'[u].name = call'[c].name
             PROVE  /\ call'[c].pc = "List" /\ call'[c].byName
                    /\ \/ \E t \in TargetsOf(u)' : target'[t].dsm \in call'[c].todo
                       \/ \E r \in call'[c].refs : r.lun = u
  BY DEF MissInv
<1>1. /\ Busy(c) /\ Moves(c) /\ DsmEffect(c) /\ Lasting /\ IInv /\ TypeOK
  BY StepMoves DEF VInv, RInv, IInv
<1>2. Mapped(u)
  BY <1>1, NewMapped, MapEnds
<1>3. /\ SameRequest(c) /\ (ListsOn(c) \/ ListsEnd(c) \/ Creates(c))
      /\ lun[u].name = call[c].name /\ call[c].op = "create" /\ LiveLun(u)
  BY <1>1, <1>2, MappedBorn DEF Moves, SameRequest, Lasting, VInv
<1>4. /\ call[c].pc = "List" /\ call[c].byName
      /\ \/ \E t \in TargetsOf(u) : target[t].dsm \in call[c].todo
         \/ \E r \in call[c].refs : r.lun = u
  BY <1>1, <1>2, <1>3 DEF VInv, MissInv
<1>5. UNCHANGED target /\ TargetsOf(u)' = TargetsOf(u)
  <2>1. UNCHANGED target
    BY <1>1, <1>4 DEF DsmEffect, Quiet, MakesLun, MakesTarget, OpensTarget, MapsLun, DeletesLun,
       DeletesTarget
  <2> QED BY <2>1 DEF TargetsOf, LiveTarget
<1>6. ListsOn(c)
  BY <1>3, <1>4 DEF ListsEnd, Creates, CreatePcs
<1>7. ASSUME NEW d \in call[c].todo, call'[c].byName = call[c].byName, call[c].refs = {},
             call'[c].todo = call[c].todo \ {d}, call'[c].refs = RefsOn(d)
      PROVE  \/ \E t \in TargetsOf(u) : target[t].dsm \in call'[c].todo
             \/ \E r \in call'[c].refs : r.lun = u
  <2>1. PICK t \in TargetsOf(u) : target[t].dsm \in call[c].todo
    BY <1>4, <1>7
  <2>2. CASE target[t].dsm = d
    <3> DEFINE r == [lun |-> u, target |-> t, only |-> (target[t].luns = {u})]
    <3>1. t \in Tids /\ LiveTarget(t) /\ u \in target[t].luns
      BY DEF TargetsOf
    <3>2. r \in RefsOn(d)
      BY <2>2, <3>1 DEF RefsOn, RefType
    <3> QED BY <1>7, <3>2
  <2> QED BY <1>7, <2>1, <2>2
<1>8. ASSUME NEW r \in call[c].refs, call'[c].todo = call[c].todo,
             call'[c].refs = call[c].refs \ {r}, ~(LiveLun(r.lun) /\ Matches(c, r.lun))
      PROVE  \/ \E t \in TargetsOf(u) : target[t].dsm \in call'[c].todo
             \/ \E q \in call'[c].refs : q.lun = u
  <2>1. r.lun # u
    BY <1>3, <1>4, <1>8 DEF Matches
  <2> QED BY <1>4, <1>8, <2>1
<1> QED BY <1>4, <1>5, <1>6, <1>7, <1>8 DEF ListsOn, ReadsWork

\* Another handler is not for the same name.
LEMMA OtherMiss ==
    ASSUME VInv, NEW c \in Calls, Busy(c), DsmEffect(c), Lasting,
           NEW d \in Calls, call'[d] = call[d], Busy(d) => call[d].name # call[c].name
    PROVE  MissInv(d)'
<1> SUFFICES ASSUME Busy(d), call[d].op = "create", NEW u \in Uuids, Mapped(u)',
                    lun'[u].name = call[d].name
             PROVE  /\ call[d].pc = "List" /\ call[d].byName
                    /\ \/ \E t \in TargetsOf(u)' : target'[t].dsm \in call[d].todo
                       \/ \E r \in call[d].refs : r.lun = u
  BY DEF MissInv, Busy
<1>1. Mapped(u)
  <2>1. SUFFICES ASSUME ~Mapped(u) PROVE FALSE
    OBVIOUS
  <2>2. call[c].pc = "LunMapTarget" /\ u = call[c].lun
    BY <2>1, NewMapped DEF VInv, RInv
  <2>3. CreateInv(c)
    BY DEF VInv, RInv, IInv, CallInv
  <2>4. BornLun(u) /\ lun[u].name = call[c].name
    BY <2>2, <2>3 DEF CreateInv, MappingPcs
  <2> QED BY <2>4 DEF Lasting
<1>2. /\ BornLun(u) /\ lun[u].name = call[d].name
      /\ \A t \in TargetsOf(u) : t \in Tids /\ BornTarget(t)
  BY <1>1, MappedBorn DEF VInv, RInv, Lasting
<1>3. TargetsOf(u)' = TargetsOf(u) /\ \A t \in TargetsOf(u) : target'[t].dsm = target[t].dsm
  BY <1>2, ForeignMaps DEF VInv, Lasting
<1> QED BY <1>1, <1>2, <1>3 DEF VInv, MissInv

LEMMA StepOne ==
    ASSUME VInv, NEW c \in Calls, Busy(c), DsmEffect(c), Lasting
    PROVE  OneVolumePerName'
<1>0. IInv /\ MappedLive /\ CreateInv(c) /\ RequestInv(c) /\ MissInv(c)
  BY DEF VInv, RInv, IInv, CallInv
<1>1. ASSUME NEW u \in Uuids, Mapped(u)'
      PROVE  /\ lun'[u].name = lun[u].name
             /\ Mapped(u) \/ (/\ call[c].pc = "LunMapTarget" /\ u = call[c].lun
                              /\ lun[u].name = call[c].name)
  <2>1. CASE Mapped(u)
    BY <1>0, <2>1, MappedBorn DEF Lasting
  <2>2. CASE ~Mapped(u)
    BY <1>0, <1>1, <2>2, NewMapped DEF CreateInv, MappingPcs, Lasting
  <2> QED BY <2>1, <2>2
<1>2. call[c].pc = "LunMapTarget" => \A u \in Uuids : Mapped(u) => lun[u].name # call[c].name
  BY <1>0 DEF RequestInv, CreatePcs, MissInv
<1> SUFFICES ASSUME NEW u \in Uuids, NEW v \in Uuids, Mapped(u)', Mapped(v)',
                    lun'[u].name = lun'[v].name
             PROVE  u = v
  BY DEF OneVolumePerName
<1> QED BY <1>1, <1>2 DEF VInv, OneVolumePerName

LEMMA RestMiss ==
    ASSUME VInv, [Next]_vars, ~(\E c \in Calls : Step(c))
    PROVE  MappedLive' /\ OneVolumePerName' /\ \A c \in Calls : MissInv(c)'
<1>1. /\ IInv /\ UNCHANGED target /\ Lasting
      /\ UNCHANGED lun \/ \E u \in Uuids : CloneDone(u)
  BY RestMoves DEF VInv, RInv
<1>2. MappedLive'
  BY <1>1, SameMapped DEF VInv
<1>3. ASSUME NEW u \in Uuids
      PROVE  /\ Mapped(u)' <=> Mapped(u)
             /\ TargetsOf(u)' = TargetsOf(u)
             /\ Mapped(u) => lun'[u].name = lun[u].name
  BY <1>1, MappedBorn DEF VInv, Lasting, Mapped, TargetsOf, LiveTarget
<1>4. OneVolumePerName'
  BY <1>3 DEF VInv, OneVolumePerName
<1>5. ASSUME NEW c \in Calls, Busy(c)', call'[c].op = "create", NEW u \in Uuids, Mapped(u),
             lun[u].name = call'[c].name
      PROVE  /\ call'[c].pc = "List" /\ call'[c].byName
             /\ \/ \E t \in TargetsOf(u) : target[t].dsm \in call'[c].todo
                \/ \E r \in call'[c].refs : r.lun = u
  <2>1. CASE Stands(c)
    BY <1>5, <2>1 DEF Stands, SameRequest, VInv, MissInv, Busy
  <2>2. CASE \E n \in Names : StartCreate(c, n)
    <3>1. PICK n, id, size : n \in Names /\ Start(c, "create", n, id, size)
      BY <2>2 DEF StartCreate
    <3>2. call'[c].pc = "List" /\ call'[c].byName /\ call'[c].todo = dsms /\ dsms = Dsms
      BY <3>1 DEF Start, IdleCall, VInv, RInv, IInv, TypeOK, PlaceInv
    <3>3. \A t \in TargetsOf(u) : target[t].dsm \in Dsms
      BY <1>1, <1>5, MappedBorn DEF VInv, RInv, PlaceInv
    <3> QED BY <1>5, <3>2, <3>3 DEF Mapped
  <2> QED BY <1>5, <2>1, <2>2, RestStands, <1>1
<1>6. \A c \in Calls : MissInv(c)'
  BY <1>1, <1>3, <1>5 DEF MissInv, Busy
<1> QED BY <1>2, <1>4, <1>6

LEMMA InitVInv ==
    ASSUME ReadsWork, Init
    PROVE  VInv
BY InitRInv DEF Init, VInv, MappedLive, OneVolumePerName, Mapped, TargetsOf, LiveTarget, MissInv,
   Busy, IdleCall

LEMMA NextVInv ==
    ASSUME ReadsWork, "LunMapTarget" \notin Faulty, VInv, Alone, [Next]_vars
    PROVE  VInv'
<1>0. RInv'
  BY NextRInv DEF VInv
<1>1. ASSUME NEW c \in Calls, Step(c) PROVE VInv'
  <2>1. /\ Busy(c) /\ DsmEffect(c) /\ Lasting
        /\ \A d \in Calls : d # c => call'[d] = call[d]
    BY <1>1, StepMoves DEF VInv, RInv
  <2>2. MappedLive' /\ OneVolumePerName'
    BY <2>1, EffectMapped, StepOne DEF VInv, RInv
  <2>3. MissInv(c)'
    BY <1>1, OwnMiss
  <2>4. ASSUME NEW d \in Calls, d # c PROVE MissInv(d)'
    BY <2>1, <2>4, OtherMiss DEF Alone
  <2> QED BY <1>0, <2>2, <2>3, <2>4 DEF VInv
<1> QED BY <1>0, <1>1, RestMiss DEF VInv

\* No name has two volumes on any number of servers if the reads by which volumes
\* are found do not fail, a LUN is not mapped by a call that reports an error, and
\* no two handlers work for one name.
THEOREM OneVolumeAnywhere ==
    ASSUME ReadsWork, "LunMapTarget" \notin Faulty, Serial
    PROVE  Spec => []OneVolumePerName
<1>1. Spec => []Alone
  <2>1. CASE \A c, d \in Calls : c = d
    <3>1. Alone
      BY <2>1 DEF Alone
    <3>2. Alone /\ [Next]_vars => Alone'
      BY <2>1 DEF Alone
    <3> QED BY <3>1, <3>2, PTL DEF Spec
  <2>2. CASE "Deadline" \notin Faulty
    <3>1. SInv /\ [Next]_vars => SInv'
      BY <2>2, NextSInv
    <3>2. SInv => Alone
      BY DEF SInv
    <3> QED BY <3>1, <3>2, InitSInv, PTL DEF Spec
  <2> QED BY <2>1, <2>2 DEF Serial
<1>2. Init => VInv
  BY InitVInv
<1>3. VInv /\ Alone /\ [Next]_vars => VInv'
  BY NextVInv
<1>4. VInv => OneVolumePerName
  BY DEF VInv
<1> QED BY <1>1, <1>2, <1>3, <1>4, PTL DEF Spec

=============================================================================
