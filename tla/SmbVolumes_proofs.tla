-------------------------- MODULE SmbVolumes_proofs --------------------------
(***************************************************************************)
(* What holds of SMB volumes in every world, for every number of servers,  *)
(* volumes, handlers and mishaps, late and abandoned handlers included.    *)
(***************************************************************************)
EXTENDS SmbVolumes, TLAPS

\* No two volume names are cut down to the same share name.
NamesApart == \A m, n \in Names : ShareOf[m] = ShareOf[n] => m = n

\* The cluster has not given the volume of n up.
Kept(n) == phase[n] \in {"wanted", "bound"}

Patient == "Deadline" \notin Faulty

BornShare(u) == share[u].st # "unborn"

\* The shares that a handler's calls by name reach on its server.
OwnShares(c) == SharesNamed(call[c].host, ShareOf[call[c].name])

\* Shares are on servers with a share API, have their server's name for
\* themselves, and a quota unless clones come without.
ShareInv ==
    /\ \A u \in Uuids : BornShare(u) =>
         /\ share[u].dsm \in Dsms \ Unified
         /\ ~QuotaLost => share[u].quota # 0
    /\ \A u, v \in Uuids : /\ Live(u) /\ Live(v)
                           /\ share[u].dsm = share[v].dsm /\ share[u].name = share[v].name
                           => u = v

\* A capacity for n that answers a request of the cluster.
Promise(n, bytes) ==
    \E t \in Sizes : /\ t = Request[n].size \/ t \in world.wishes[n]
                     /\ Request[n].size <= t
                     /\ bytes = MBToBytes(BytesToMBCeil(t))

\* A volume once bound keeps its share's identity and was promised a capacity.
ClusterInv(n) ==
    /\ wish[n] \in world.wishes[n] \cup {0}
    /\ phase[n] # "wanted" =>
         /\ volumeId[n] \in Uuids /\ BornShare(volumeId[n])
         /\ share[volumeId[n]].name = ShareOf[n]
         /\ Promise(n, capacity[n])

\* The request of a handler and where it may be in serving it.
RequestInv(c) ==
    /\ call[c].op = "none" => call[c].pc = "idle"
    /\ Busy(c) =>
         /\ call[c].name \in Names
         /\ call[c].op = "create" =>
              call[c].size = Request[call[c].name].size /\ (Clones(c) => call[c].id \in Uuids)
         /\ call[c].op = "delete" => ~Kept(call[c].name) /\ call[c].id = volumeId[call[c].name]
         /\ call[c].op = "expand" =>
              /\ phase[call[c].name] # "wanted" /\ call[c].id = volumeId[call[c].name]
              /\ call[c].size \in Sizes /\ call[c].size \in world.wishes[call[c].name]
              /\ Request[call[c].name].size <= call[c].size
         /\ call[c].pc \in {"Pick", "ShareCreate"} => call[c].op = "create" /\ ~Clones(c)
         /\ call[c].pc = "ShareCreate" => call[c].host \in Dsms
         /\ call[c].pc = "ShareClone" => call[c].op = "create" /\ Clones(c)
         /\ call[c].pc = "ShareGet" => call[c].op = "create"
         /\ call[c].pc = "ShareSet" =>
              call[c].op = "expand" \/ (call[c].op = "create" /\ Clones(c) /\ QuotaLost)
         /\ call[c].pc = "ShareDelete" => call[c].op = "delete"
         /\ call[c].byName => call[c].op = "create" /\ call[c].pc = "List"
         /\ call[c].op = "create" /\ call[c].pc = "List" /\ ~call[c].byName => Clones(c)

\* The handler found a share of the volume it serves, not of a clone's source.
FoundOwn(c) == call[c].byName \/ call[c].op \in {"delete", "expand"} \/ call[c].pc = "ShareSet"

\* What a handler knows of the share it found, however late it is.
FoundInv(c) ==
    /\ call[c].pc \in {"ShareClone", "ShareSet", "ShareDelete"} => call[c].found # None
    /\ Busy(c) /\ call[c].op = "create" /\ ~call[c].byName /\ ~Clones(c) => call[c].found = None
    /\ Busy(c) /\ call[c].found # None =>
         /\ BornShare(call[c].found) /\ share[call[c].found].dsm = call[c].host
         /\ call[c].op \in {"delete", "expand"} => call[c].found = call[c].id
         /\ FoundOwn(c) => /\ share[call[c].found].name = ShareOf[call[c].name]
                           /\ Kept(call[c].name) => Live(call[c].found)
         /\ /\ call[c].byName /\ phase[call[c].name] = "wanted"
            /\ call[c].quota = BytesToMBCeil(call[c].size)
            => share[call[c].found].quota = call[c].quota

\* If the cluster waits for its answers then what a handler read stays true.
PatientInv(c) ==
    Patient /\ Busy(c) =>
        /\ call[c].live
        /\ \A k \in Calls : Busy(k) /\ call[k].name = call[c].name => k = c
        /\ call[c].op = "create" => phase[call[c].name] = "wanted"
        /\ call[c].op = "create" /\ call[c].pc = "ShareSet" => share[call[c].found].quota = 0
        /\ call[c].op = "expand" =>
             /\ Live(volumeId[call[c].name])
             /\ call[c].found # None => share[call[c].found].quota = call[c].quota
             /\ call[c].pc = "ShareSet" => ~WouldShrink(c)

\* A deletion that looks for its share has its server still before it.
SeenInv(c) ==
    /\ "ShareList" \notin Faulty
    /\ call[c].op = "delete" /\ call[c].pc = "List" /\ call[c].found = None
    /\ Live(call[c].id)
    => share[call[c].id].dsm \in call[c].todo

CallInv(c) == RequestInv(c) /\ FoundInv(c) /\ PatientInv(c) /\ SeenInv(c)

IInv == /\ TypeOK /\ world \in Worlds
        /\ ShareInv /\ (\A n \in Names : ClusterInv(n)) /\ BoundKept
        /\ \A c \in Calls : CallInv(c)

-----------------------------------------------------------------------------
(* Bytes and megabytes: rounding up and back.                              *)

LEMMA CeilNat ==
    ASSUME NEW s \in Nat
    PROVE  BytesToMBCeil(s) \in Nat
BY MBPositive, SMT DEF BytesToMBCeil

LEMMA CeilPositive ==
    ASSUME NEW s \in Nat \ {0}
    PROVE  BytesToMBCeil(s) \in Nat \ {0}
BY MBPositive, SMT DEF BytesToMBCeil

LEMMA CeilBounds ==
    ASSUME NEW s \in Nat
    PROVE  /\ s <= MBToBytes(BytesToMBCeil(s))
           /\ MBToBytes(BytesToMBCeil(s)) < s + MB
BY MBPositive, SMT DEF BytesToMBCeil, MBToBytes

LEMMA Exact ==
    ASSUME NEW q \in Nat
    PROVE  BytesToMB(MBToBytes(q)) = q
BY MBPositive, SMT DEF BytesToMB, MBToBytes

LEMMA CeilAtLeast ==
    ASSUME NEW s \in Nat, NEW q \in Nat, MBToBytes(q) <= s
    PROVE  q <= BytesToMBCeil(s)
BY MBPositive, SMT DEF BytesToMBCeil, MBToBytes

LEMMA Mono ==
    ASSUME NEW p \in Nat, NEW q \in Nat, p <= q
    PROVE  MBToBytes(p) <= MBToBytes(q)
BY MBPositive, SMT DEF MBToBytes

-----------------------------------------------------------------------------
(* Worlds, and the types that a step keeps.                                *)

LEMMA WorldTyped ==
    ASSUME world \in Worlds
    PROVE  /\ Unified \subseteq Dsms /\ QuotaLost \in BOOLEAN
           /\ world.wishes \in [Names -> SUBSET Sizes] /\ MaxFaults \in Nat
BY WorldsTyped DEF Unified, QuotaLost, MaxFaults

LEMMA SameWorld ==
    ASSUME world' = world
    PROVE  /\ Unified' = Unified /\ QuotaLost' = QuotaLost /\ Faulty' = Faulty
           /\ MaxFaults' = MaxFaults /\ world'.wishes = world.wishes
           /\ Patient' = Patient /\ \A n \in Names : Steady(n)' <=> Steady(n)
BY DEF Unified, QuotaLost, Faulty, MaxFaults, Patient, Steady

LEMMA FaultsTyped ==
    ASSUME TypeOK, world \in Worlds, world' = world, NEW k, NEW o,
           UNCHANGED faults \/ Mishap(k) \/ Outcome(k, o)
    PROVE  faults' \in 0..MaxFaults'
BY WorldTyped, SameWorld DEF Mishap, Outcome, TypeOK

LEMMA QuotasTyped ==
    /\ Quotas \subseteq Nat /\ 0 \in Quotas
    /\ \A s \in Sizes \cup {0} : BytesToMBCeil(s) \in Quotas
<1>1. Quotas \subseteq Nat /\ \A s \in Sizes : BytesToMBCeil(s) \in Quotas
  BY SizesAreNat, CeilNat DEF Quotas
<1>2. BytesToMBCeil(0) = 0
  BY MBPositive, SMT DEF BytesToMBCeil
<1> QED BY <1>1, <1>2 DEF Quotas

LEMMA IdleTyped == IdleCall \in CallType
BY QuotasTyped DEF IdleCall, CallType

LEMMA NewUuidUnborn ==
    ASSUME UnbornShares # {}
    PROVE  NewUuid \in UnbornShares
BY DEF NewUuid

ClusterTyped ==
    /\ phase \in [Names -> {"wanted", "bound", "released", "deleted"}]
    /\ volumeId \in [Names -> Uuids \cup {None}]
    /\ capacity \in [Names -> Nat]

\* A handler that ends, and what it tells the cluster.
LEMMA ReplyTyped ==
    ASSUME TypeOK, NEW c \in Calls,
           \/ Refuse(c) \/ DeleteDone(c) \/ ExpandDone(c)
           \/ \E u \in Uuids, q \in Quotas : CreateReply(c, u, q)
    PROVE  ClusterTyped' /\ call' \in [Calls -> CallType] /\ call' = [call EXCEPT ![c] = IdleCall]
<1>1. /\ \A q \in Quotas : MBToBytes(q) \in Nat
      /\ \A d \in Calls : MBToBytes(BytesToMBCeil(call[d].size)) \in Nat
  <2>1. \A r \in Nat : MBToBytes(r) \in Nat
    BY MBPositive, SMT DEF MBToBytes
  <2>2. Quotas \subseteq Nat
    BY QuotasTyped
  <2>3. \A d \in Calls : BytesToMBCeil(call[d].size) \in Nat
    BY QuotasTyped DEF TypeOK, CallType
  <2> QED BY <2>1, <2>2, <2>3
<1>2. call' = [call EXCEPT ![c] = IdleCall]
  BY DEF Refuse, CreateReply, DeleteDone, ExpandDone, Return
<1>3. ClusterTyped'
  BY <1>1 DEF Refuse, CreateReply, DeleteDone, ExpandDone, Return, ClusterTyped, clusterVars,
     TypeOK, Answers
<1> QED BY <1>2, <1>3, IdleTyped DEF TypeOK

-----------------------------------------------------------------------------
(* What one step of a handler does to the shares, by kinds.                *)

Makes(c) ==
    /\ call[c].pc \in {"ShareCreate", "ShareClone"}
    /\ call[c].host \in Dsms \ Unified
    /\ OwnShares(c) = {}
    /\ \E u \in UnbornShares, q \in Quotas :
         /\ NewShare(u, call[c].host, ShareOf[call[c].name], q)
         /\ ~QuotaLost => q # 0

Sets(c) ==
    /\ call[c].pc = "ShareSet"
    /\ share' = [u \in Uuids |-> IF u \in OwnShares(c)
                     THEN [share[u] EXCEPT !.quota = BytesToMBCeil(call[c].size)] ELSE share[u]]

Drops(c) ==
    /\ call[c].pc = "ShareDelete"
    /\ share' = [u \in Uuids |-> IF u \in OwnShares(c)
                     THEN [share[u] EXCEPT !.st = "deleted"] ELSE share[u]]

ShareEffect(c) == UNCHANGED share \/ Makes(c) \/ Sets(c) \/ Drops(c)

\* The sizes asked for are positive.
LEMMA Asked ==
    ASSUME IInv, NEW c \in Calls, Busy(c), call[c].op \in {"create", "expand"}
    PROVE  /\ call[c].size \in Sizes
           /\ BytesToMBCeil(call[c].size) \in Quotas \ {0}
<1>1. CallInv(c)
  BY DEF IInv
<1>2. call[c].size \in Sizes
  BY <1>1, RequestsTyped DEF CallInv, RequestInv, RequestType
<1>3. BytesToMBCeil(call[c].size) # 0
  BY <1>2, SizesAreNat, CeilPositive
<1> QED BY <1>2, <1>3, QuotasTyped

\* The share a handler found, when it goes on to change it.
LEMMA FoundNamed ==
    ASSUME IInv, NEW c \in Calls, call[c].pc \in {"ShareSet", "ShareDelete"}
    PROVE  /\ call[c].found \in Uuids /\ BornShare(call[c].found)
           /\ share[call[c].found].dsm = call[c].host
           /\ NameOfFound(c) = ShareOf[call[c].name]
           /\ SharesNamed(call[c].host, NameOfFound(c)) = OwnShares(c)
<1>1. CallInv(c) /\ call[c] \in CallType
  BY DEF IInv, TypeOK
<1>2. call[c].found \in Uuids
  BY <1>1 DEF CallInv, FoundInv, CallType
<1>3. FoundOwn(c)
  BY <1>1 DEF CallInv, RequestInv, FoundOwn, Busy
<1> QED BY <1>1, <1>2, <1>3 DEF CallInv, FoundInv, Busy, NameOfFound, OwnShares

LEMMA StepShares ==
    ASSUME IInv, NEW c \in Calls, Step(c)
    PROVE  ShareEffect(c)
<1>1. CallInv(c) /\ call[c] \in CallType /\ share \in [Uuids -> ShareType]
  BY DEF IInv, TypeOK
<1>2. CASE ShareList(c) \/ ListEnd(c) \/ Pick(c) \/ ShareGet(c)
  BY <1>2 DEF ShareList, ListEnd, Pick, ShareGet, ShareEffect
<1>3. CASE ShareCreate(c)
  <2>1. /\ call[c].pc = "ShareCreate" /\ call[c].op = "create" /\ Busy(c)
        /\ call[c].host \in Dsms
    BY <1>1, <1>3 DEF ShareCreate, At, CallInv, RequestInv, Busy
  <2>2. BytesToMBCeil(call[c].size) \in Quotas \ {0}
    BY <2>1, Asked
  <2>3. CASE UNCHANGED share
    BY <2>3 DEF ShareEffect
  <2>4. CASE /\ OwnShares(c) = {} /\ call[c].host \notin Unified /\ UnbornShares # {}
             /\ NewShare(NewUuid, call[c].host, ShareOf[call[c].name], BytesToMBCeil(call[c].size))
    BY <2>1, <2>2, <2>4, NewUuidUnborn DEF Makes, ShareEffect
  <2> QED BY <1>3, <2>3, <2>4 DEF ShareCreate, OwnShares
<1>4. CASE ShareClone(c)
  <2>1. /\ call[c].pc = "ShareClone" /\ Busy(c) /\ call[c].id \in Uuids
        /\ call[c].found \in Uuids /\ BornShare(call[c].found)
        /\ share[call[c].found].dsm = call[c].host
    BY <1>1, <1>4 DEF ShareClone, At, CallInv, RequestInv, FoundInv, Busy, CallType
  <2>2. call[c].host \in Dsms \ Unified
    BY <2>1 DEF IInv, ShareInv
  <2> DEFINE q == IF QuotaLost THEN 0 ELSE share[call[c].id].quota
  <2>3. CASE UNCHANGED share
    BY <2>3 DEF ShareEffect
  <2>4. CASE /\ OwnShares(c) = {} /\ Live(call[c].id) /\ UnbornShares # {}
             /\ NewShare(NewUuid, call[c].host, ShareOf[call[c].name], q)
    <3>1. q \in Quotas
      BY <1>1, <2>1, QuotasTyped DEF ShareType
    <3>2. ~QuotaLost => q # 0
      BY <2>1, <2>4 DEF IInv, ShareInv, BornShare, Live
    <3> HIDE DEF q
    <3> QED BY <2>1, <2>2, <2>4, <3>1, <3>2, NewUuidUnborn DEF Makes, ShareEffect
  <2> QED BY <1>4, <2>3, <2>4 DEF ShareClone, OwnShares
<1>5. CASE ShareSet(c)
  <2>1. call[c].pc = "ShareSet" /\ SharesNamed(call[c].host, NameOfFound(c)) = OwnShares(c)
    BY <1>5, FoundNamed DEF ShareSet, At
  <2>2. PICK o \in Outcomes :
          share' = [u \in Uuids |-> IF o # "lost" /\ u \in OwnShares(c)
                     THEN [share[u] EXCEPT !.quota = BytesToMBCeil(call[c].size)] ELSE share[u]]
    BY <1>5, <2>1 DEF ShareSet
  <2>3. CASE o = "lost"
    BY <1>1, <2>2, <2>3 DEF ShareEffect
  <2>4. CASE o # "lost"
    BY <2>1, <2>2, <2>4 DEF Sets, ShareEffect
  <2> QED BY <2>3, <2>4
<1>6. CASE ShareDelete(c)
  <2>1. call[c].pc = "ShareDelete" /\ SharesNamed(call[c].host, NameOfFound(c)) = OwnShares(c)
    BY <1>6, FoundNamed DEF ShareDelete, At
  <2>2. PICK o \in Outcomes :
          share' = [u \in Uuids |-> IF o # "lost" /\ u \in OwnShares(c)
                     THEN [share[u] EXCEPT !.st = "deleted"] ELSE share[u]]
    BY <1>6, <2>1 DEF ShareDelete
  <2>3. CASE o = "lost"
    BY <1>1, <2>2, <2>3 DEF ShareEffect
  <2>4. CASE o # "lost"
    BY <2>1, <2>2, <2>4 DEF Drops, ShareEffect
  <2> QED BY <2>3, <2>4
<1> QED BY <1>2, <1>3, <1>4, <1>5, <1>6 DEF Step

\* What no step takes back: shares keep their identity and stay deleted, and a
\* quota is not taken away.
Lasting ==
    \A u \in Uuids : BornShare(u) =>
        /\ BornShare(u)' /\ (Live(u)' => Live(u))
        /\ share'[u].dsm = share[u].dsm /\ share'[u].name = share[u].name
        /\ share[u].quota # 0 => share'[u].quota # 0

\* A share goes or gets a quota by a handler of its own name only.
OthersKept(c) ==
    \A u \in Uuids : BornShare(u) =>
        /\ Live(u) /\ ~Live(u)' => Drops(c) /\ u \in OwnShares(c)
        /\ share'[u].quota # share[u].quota =>
             /\ Sets(c) /\ u \in OwnShares(c)
             /\ share'[u].quota = BytesToMBCeil(call[c].size)

LEMMA EffectLasts ==
    ASSUME IInv, world' = world, NEW c \in Calls, ShareEffect(c)
    PROVE  /\ share' \in [Uuids -> ShareType]
           /\ Lasting /\ OthersKept(c) /\ ShareInv'
<1>0. /\ share \in [Uuids -> ShareType] /\ CallInv(c) /\ call[c] \in CallType
      /\ Unified' = Unified /\ QuotaLost' = QuotaLost
  BY SameWorld DEF IInv, TypeOK
<1>1. CASE UNCHANGED share
  BY <1>0, <1>1 DEF Lasting, OthersKept, ShareInv, BornShare, Live, IInv
<1>2. CASE Makes(c)
  <2>1. PICK u \in UnbornShares, q \in Quotas :
          /\ NewShare(u, call[c].host, ShareOf[call[c].name], q)
          /\ ~QuotaLost => q # 0
    BY <1>2 DEF Makes
  <2>2. /\ u \in Uuids /\ share[u].st = "unborn"
        /\ call[c].host \in Dsms \ Unified /\ OwnShares(c) = {}
        /\ ShareOf[call[c].name] \in ShareNames
    BY <1>0, <1>2, <2>1, ShareOfTyped DEF UnbornShares, Makes, CallInv, RequestInv, Busy
  <2>3. /\ share' \in [Uuids -> ShareType]
        /\ share'[u] = [st |-> "live", dsm |-> call[c].host, name |-> ShareOf[call[c].name],
                        quota |-> q]
        /\ \A v \in Uuids : v # u => share'[v] = share[v]
    BY <1>0, <2>1, <2>2 DEF NewShare, ShareType
  <2>4. Lasting /\ OthersKept(c)
    BY <2>2, <2>3 DEF Lasting, OthersKept, BornShare, Live
  <2>5. \A v \in Uuids : Live(v) => share[v].dsm # call[c].host \/ share[v].name # ShareOf[call[c].name]
    BY <2>2 DEF OwnShares, SharesNamed
  <2>6. ShareInv'
    BY <1>0, <2>1, <2>2, <2>3, <2>5 DEF ShareInv, BornShare, Live, IInv
  <2> QED BY <2>3, <2>4, <2>6
<1>3. CASE Sets(c)
  <2>1. /\ call[c].op \in {"create", "expand"} /\ Busy(c)
    BY <1>0, <1>3 DEF Sets, CallInv, RequestInv, Busy
  <2>2. BytesToMBCeil(call[c].size) \in Quotas \ {0}
    BY <2>1, Asked
  <2>3. \A u \in Uuids : /\ share'[u] \in ShareType
                         /\ share'[u].st = share[u].st /\ share'[u].dsm = share[u].dsm
                         /\ share'[u].name = share[u].name
                         /\ \/ share'[u].quota = share[u].quota
                            \/ u \in OwnShares(c) /\ share'[u].quota = BytesToMBCeil(call[c].size)
    BY <1>0, <1>3, <2>2 DEF Sets, ShareType
  <2>4. share' \in [Uuids -> ShareType]
    BY <1>3, <2>3 DEF Sets
  <2>5. Lasting /\ OthersKept(c)
    BY <1>3, <2>2, <2>3 DEF Lasting, OthersKept, BornShare, Live
  <2>6. ShareInv'
    BY <1>0, <2>2, <2>3 DEF ShareInv, BornShare, Live, IInv
  <2> QED BY <2>4, <2>5, <2>6
<1>4. CASE Drops(c)
  <2>1. \A u \in Uuids : /\ share'[u] \in ShareType
                         /\ share'[u].quota = share[u].quota /\ share'[u].dsm = share[u].dsm
                         /\ share'[u].name = share[u].name
                         /\ \/ share'[u].st = share[u].st
                            \/ u \in OwnShares(c) /\ share'[u].st = "deleted"
    BY <1>0, <1>4 DEF Drops, ShareType
  <2>2. \A u \in OwnShares(c) : share[u].st = "live"
    BY DEF OwnShares, SharesNamed, Live
  <2>3. share' \in [Uuids -> ShareType]
    BY <1>4, <2>1 DEF Drops
  <2>4. Lasting /\ OthersKept(c)
    BY <1>4, <2>1, <2>2 DEF Lasting, OthersKept, BornShare, Live
  <2>5. ShareInv'
    BY <1>0, <2>1, <2>2 DEF ShareInv, BornShare, Live, IInv
  <2> QED BY <2>3, <2>4, <2>5
<1> QED BY <1>1, <1>2, <1>3, <1>4 DEF ShareEffect

LEMMA StepTyped ==
    ASSUME IInv, world' = world, NEW c \in Calls, Step(c)
    PROVE  TypeOK'
<1>1. /\ call \in [Calls -> CallType] /\ share \in [Uuids -> ShareType] /\ wish' = wish
      /\ call[c] \in CallType /\ TypeOK /\ world \in Worlds
  BY DEF IInv, TypeOK, Step, ShareList, ListEnd, Pick, ShareCreate, ShareClone, ShareGet, ShareSet,
     ShareDelete
<1>2. faults' \in 0..MaxFaults'
  BY <1>1, FaultsTyped DEF Step, ShareList, ListEnd, Pick, ShareCreate, ShareClone, ShareGet, ShareSet,
     ShareDelete
<1>3. ClusterTyped /\ (UNCHANGED clusterVars => ClusterTyped')
  BY <1>1 DEF TypeOK, ClusterTyped, clusterVars
<1>4. \A p \in {"List", "Pick", "ShareCreate", "ShareClone", "ShareGet", "ShareSet", "ShareDelete"} :
        Goto(c, p) => call' \in [Calls -> CallType]
  BY <1>1 DEF Goto, CallType
<1>5. Refuse(c) \/ DeleteDone(c) \/ ExpandDone(c) \/ (\E u \in Uuids, q \in Quotas : CreateReply(c, u, q))
        => ClusterTyped' /\ call' \in [Calls -> CallType]
  BY <1>1, ReplyTyped
<1>6. call[c].quota \in Quotas /\ BytesToMBCeil(call[c].size) \in Quotas /\ 0 \in Quotas
  BY <1>1, QuotasTyped DEF CallType
<1>7. CreateStepFails(c) => ClusterTyped' /\ call' \in [Calls -> CallType]
  BY <1>1, <1>3, <1>4, <1>5, <1>6 DEF CreateStepFails
<1>8. /\ ClusterTyped' /\ call' \in [Calls -> CallType]
  <2>1. CASE ShareList(c)
    <3>1. UNCHANGED <<share, clusterVars>>
      BY <2>1 DEF ShareList
    <3>2. PICK d \in call[c].todo, x \in CallType : call' = [call EXCEPT ![c] = x]
      <4>1. PICK d \in call[c].todo :
              \/ call' = [call EXCEPT ![c].todo = @ \ {d}]
              \/ \E u \in Uuids :
                   call' = [[call EXCEPT ![c].todo = @ \ {d}] EXCEPT
                              ![c].found = u, ![c].host = d, ![c].quota = share[u].quota]
        BY <2>1 DEF ShareList
      <4>2. d \in Dsms /\ \A u \in Uuids : share[u].quota \in Quotas
        BY <1>1 DEF CallType, ShareType
      <4>3. [call[c] EXCEPT !.todo = @ \ {d}] \in CallType
        BY <1>1 DEF CallType
      <4>4. \A u \in Uuids : [call[c] EXCEPT !.todo = @ \ {d}, !.found = u, !.host = d,
                                            !.quota = share[u].quota] \in CallType
        BY <1>1, <4>2 DEF CallType
      <4>5. CASE call' = [call EXCEPT ![c].todo = @ \ {d}]
        BY <1>1, <4>3, <4>5
      <4>6. ASSUME NEW u \in Uuids,
                   call' = [[call EXCEPT ![c].todo = @ \ {d}] EXCEPT
                              ![c].found = u, ![c].host = d, ![c].quota = share[u].quota]
            PROVE  \E x \in CallType : call' = [call EXCEPT ![c] = x]
        <5>1. call' = [call EXCEPT ![c] = [call[c] EXCEPT !.todo = @ \ {d}, !.found = u,
                                              !.host = d, !.quota = share[u].quota]]
          BY <1>1, <4>6
        <5> QED BY <5>1, <4>4
      <4> QED BY <4>1, <4>5, <4>6
    <3> QED BY <1>1, <1>3, <3>1, <3>2
  <2>2. CASE ListEnd(c)
    <3>1. CASE call[c].found # None /\ FoundShare(c)
      <4>1. call[c].found \in Uuids
        BY <1>1, <3>1 DEF CallType
      <4> QED BY <1>1, <1>3, <1>4, <1>5, <1>6, <2>2, <3>1, <4>1 DEF ListEnd, FoundShare
    <3>2. CASE NoShare(c)
      <4>1. CASE call[c].byName /\ UNCHANGED clusterVars
                 /\ call' = [call EXCEPT ![c].pc = IF Clones(c) THEN "List" ELSE "Pick",
                               ![c].byName = FALSE,
                               ![c].todo = IF Clones(c) THEN Dsms ELSE HostsFor(c)]
        <5>1. HostsFor(c) \subseteq Dsms
          BY DEF HostsFor
        <5>2. \A p \in {"List", "Pick"}, D \in SUBSET Dsms :
                [call[c] EXCEPT !.pc = p, !.byName = FALSE, !.todo = D] \in CallType
          BY <1>1 DEF CallType
        <5>3. PICK p \in {"List", "Pick"}, D \in SUBSET Dsms :
                call' = [call EXCEPT ![c] = [call[c] EXCEPT !.pc = p, !.byName = FALSE, !.todo = D]]
          <6>1. CASE Clones(c)
            BY <1>1, <4>1, <6>1
          <6>2. CASE ~Clones(c)
            BY <1>1, <4>1, <5>1, <6>2
          <6> QED BY <6>1, <6>2
        <5>4. PICK x \in CallType : call' = [call EXCEPT ![c] = x]
          BY <5>2, <5>3
        <5>5. UNCHANGED clusterVars
          BY <4>1
        <5> QED BY <1>1, <1>3, <5>4, <5>5
      <4>2. CASE DeleteNothing(c) \/ Refuse(c)
        BY <1>1, <1>5, <2>2, <4>2 DEF ListEnd, DeleteNothing
      <4> QED BY <3>2, <4>1, <4>2 DEF NoShare
    <3> QED BY <2>2, <3>1, <3>2 DEF ListEnd
  <2>3. CASE Pick(c)
    <3>1. CASE Refuse(c)
      BY <1>1, <1>5, <2>3, <3>1 DEF Pick
    <3>2. ASSUME NEW d \in call[c].todo, UNCHANGED clusterVars,
                 \/ call' = [[call EXCEPT ![c].todo = @ \ {d}] EXCEPT ![c].pc = "ShareCreate", ![c].host = d]
                 \/ call' = [call EXCEPT ![c].todo = @ \ {d}]
          PROVE  call' \in [Calls -> CallType]
      <4>1. d \in Dsms
        BY <1>1 DEF CallType
      <4>2. /\ [call[c] EXCEPT !.todo = @ \ {d}, !.pc = "ShareCreate", !.host = d] \in CallType
            /\ [call[c] EXCEPT !.todo = @ \ {d}] \in CallType
        BY <1>1, <4>1 DEF CallType
      <4>3. \/ call' = [call EXCEPT ![c] = [call[c] EXCEPT !.todo = @ \ {d}, !.pc = "ShareCreate", !.host = d]]
            \/ call' = [call EXCEPT ![c] = [call[c] EXCEPT !.todo = @ \ {d}]]
        BY <1>1, <3>2
      <4> QED BY <1>1, <4>2, <4>3
    <3> QED BY <1>1, <1>3, <2>3, <3>1, <3>2 DEF Pick
  <2>4. CASE ShareCreate(c)
    BY <1>3, <1>4, <1>7, <2>4 DEF ShareCreate
  <2>5. CASE ShareClone(c)
    BY <1>3, <1>4, <1>5, <2>5 DEF ShareClone
  <2>6. CASE ShareGet(c)
    <3>1. \A u \in Uuids : share[u].quota \in Quotas
      BY <1>1 DEF ShareType
    <3>2. ASSUME NEW u \in Uuids, UNCHANGED clusterVars,
                 call' = [call EXCEPT ![c].pc = "ShareSet", ![c].found = u]
          PROVE  call' \in [Calls -> CallType]
      <4>1. [call[c] EXCEPT !.pc = "ShareSet", !.found = u] \in CallType
        BY <1>1 DEF CallType
      <4> QED BY <1>1, <3>2, <4>1
    <3> QED BY <1>3, <1>5, <1>7, <2>6, <3>1, <3>2 DEF ShareGet, SharesNamed
  <2>7. CASE ShareSet(c)
    <3>1. call[c].found \in Uuids
      BY <2>7, FoundNamed DEF ShareSet, At
    <3> QED BY <1>5, <1>6, <2>7, <3>1 DEF ShareSet
  <2>8. CASE ShareDelete(c)
    BY <1>5, <2>8 DEF ShareDelete
  <2> QED BY <2>1, <2>2, <2>3, <2>4, <2>5, <2>6, <2>7, <2>8 DEF Step
<1>9. share' \in [Uuids -> ShareType]
  BY StepShares, EffectLasts
<1> QED BY <1>1, <1>2, <1>8, <1>9 DEF TypeOK, ClusterTyped

-----------------------------------------------------------------------------
(* What one step of a handler tells the cluster.                           *)

Binds(c) ==
    /\ Answers(c, "wanted") /\ call[c].op = "create"
    /\ \E u \in Uuids :
         /\ Live(u)' /\ share'[u].name = ShareOf[call[c].name]
         /\ share'[u].quota = BytesToMBCeil(call[c].size)
         /\ UNCHANGED share \/ (Sets(c) /\ u \in OwnShares(c))
         /\ phase' = [phase EXCEPT ![call[c].name] = "bound"]
         /\ volumeId' = [volumeId EXCEPT ![call[c].name] = u]
         /\ capacity' = [capacity EXCEPT ![call[c].name] =
                           MBToBytes(BytesToMBCeil(call[c].size))]

TellsDeleted(c) ==
    /\ Answers(c, "released") /\ call[c].op = "delete"
    /\ \/ call[c].pc = "List" /\ call[c].todo = {} /\ call[c].found = None /\ UNCHANGED share
       \/ Drops(c)
    /\ phase' = [phase EXCEPT ![call[c].name] = "deleted"]
    /\ UNCHANGED <<volumeId, capacity>>

TellsExpanded(c) ==
    /\ Answers(c, "bound") /\ call[c].op = "expand" /\ Sets(c)
    /\ capacity' = [capacity EXCEPT ![call[c].name] = MBToBytes(BytesToMBCeil(call[c].size))]
    /\ UNCHANGED <<phase, volumeId>>

Tells(c) == Binds(c) \/ TellsDeleted(c) \/ TellsExpanded(c)

ClusterEffect(c) == UNCHANGED clusterVars \/ Tells(c)

\* CreateVolume's last comparison of sizes is exact.
LEMMA ReplyEffect ==
    ASSUME TypeOK, NEW c \in Calls, NEW u \in Uuids, NEW q \in Quotas, CreateReply(c, u, q)
    PROVE  \/ UNCHANGED clusterVars
           \/ /\ Answers(c, "wanted") /\ q = BytesToMBCeil(call[c].size)
              /\ phase' = [phase EXCEPT ![call[c].name] = "bound"]
              /\ volumeId' = [volumeId EXCEPT ![call[c].name] = u]
              /\ capacity' = [capacity EXCEPT ![call[c].name] =
                                MBToBytes(BytesToMBCeil(call[c].size))]
<1>1. BytesToMB(MBToBytes(q)) = q
  BY QuotasTyped, Exact
<1> QED BY <1>1 DEF CreateReply, Refuse, Return, clusterVars

LEMMA StepCluster ==
    ASSUME IInv, NEW c \in Calls, Step(c)
    PROVE  ClusterEffect(c)
<1>1. /\ CallInv(c) /\ call[c] \in CallType /\ share \in [Uuids -> ShareType] /\ TypeOK
  BY DEF IInv, TypeOK
<1>2. Refuse(c) \/ CreateStepFails(c) => ClusterEffect(c)
  BY DEF Refuse, CreateStepFails, ClusterEffect
<1>3. CASE ShareList(c) \/ Pick(c) \/ ShareCreate(c) \/ ShareClone(c)
  BY <1>2, <1>3 DEF ShareList, Pick, ShareCreate, ShareClone, ClusterEffect
<1>4. CASE ListEnd(c)
  <2>0. call[c].pc = "List" /\ UNCHANGED share /\ call[c].todo = {} /\ Busy(c)
    BY <1>4 DEF ListEnd, At, Busy
  <2>1. CASE call[c].found # None /\ call[c].byName /\ CreateReply(c, call[c].found, call[c].quota)
    <3>1. call[c].found \in Uuids /\ call[c].quota \in Quotas
      BY <1>1, <2>1 DEF CallType
    <3>2. CASE UNCHANGED clusterVars
      BY <3>2 DEF ClusterEffect
    <3>3. CASE /\ Answers(c, "wanted") /\ call[c].quota = BytesToMBCeil(call[c].size)
               /\ phase' = [phase EXCEPT ![call[c].name] = "bound"]
               /\ volumeId' = [volumeId EXCEPT ![call[c].name] = call[c].found]
               /\ capacity' = [capacity EXCEPT ![call[c].name] =
                                 MBToBytes(BytesToMBCeil(call[c].size))]
      <4>1. /\ call[c].op = "create" /\ share[call[c].found].quota = call[c].quota
            /\ share[call[c].found].name = ShareOf[call[c].name] /\ Live(call[c].found)
        BY <1>1, <2>0, <2>1, <3>3 DEF CallInv, RequestInv, FoundInv, FoundOwn, Kept, Answers
      <4>2. PICK u \in Uuids : u = call[c].found
        BY <3>1
      <4>3. /\ Live(u)' /\ share'[u].name = ShareOf[call[c].name]
            /\ share'[u].quota = BytesToMBCeil(call[c].size)
        BY <2>0, <3>3, <4>1, <4>2 DEF Live
      <4> QED BY <2>0, <3>3, <4>1, <4>2, <4>3 DEF Binds, Tells, ClusterEffect
    <3> QED BY <1>1, <2>1, <3>1, <3>2, <3>3, ReplyEffect
  <2>2. CASE UNCHANGED clusterVars
    BY <2>2 DEF ClusterEffect
  <2>3. CASE call[c].op = "delete" /\ DeleteDone(c) /\ call[c].found = None
    BY <2>0, <2>3 DEF DeleteDone, TellsDeleted, Tells, ClusterEffect, clusterVars
  <2> QED BY <1>2, <1>4, <2>1, <2>2, <2>3 DEF ListEnd, FoundShare, NoShare, DeleteNothing
<1>5. CASE ShareGet(c)
  <2>0. call[c].pc = "ShareGet" /\ UNCHANGED share /\ call[c].op = "create"
    BY <1>1, <1>5 DEF ShareGet, At, CallInv, RequestInv, Busy
  <2>1. ASSUME NEW u \in OwnShares(c), CreateReply(c, u, share[u].quota)
        PROVE  ClusterEffect(c)
    <3>1. /\ u \in Uuids /\ share[u].quota \in Quotas
          /\ Live(u) /\ share[u].name = ShareOf[call[c].name]
      BY <1>1 DEF OwnShares, SharesNamed, ShareType
    <3>2. Live(u)' /\ share'[u].name = ShareOf[call[c].name]
      BY <2>0, <3>1 DEF Live
    <3> QED BY <1>1, <2>0, <2>1, <3>1, <3>2, ReplyEffect DEF Binds, Tells, ClusterEffect
  <2>2. CASE UNCHANGED clusterVars
    BY <2>2 DEF ClusterEffect
  <2> QED BY <1>2, <1>5, <2>1, <2>2 DEF ShareGet, OwnShares
<1>6. CASE ShareSet(c)
  <2>0. /\ call[c].pc = "ShareSet" /\ call[c].found \in Uuids /\ BornShare(call[c].found)
        /\ share[call[c].found].dsm = call[c].host
        /\ share[call[c].found].name = ShareOf[call[c].name]
        /\ SharesNamed(call[c].host, NameOfFound(c)) = OwnShares(c)
        /\ call[c].op \in {"create", "expand"}
    BY <1>1, <1>6, FoundNamed DEF ShareSet, At, NameOfFound, CallInv, RequestInv, Busy
  <2>1. CASE Refuse(c)
    BY <1>2, <2>1
  <2>2. CASE /\ share' = [u \in Uuids |-> IF u \in OwnShares(c)
                     THEN [share[u] EXCEPT !.quota = BytesToMBCeil(call[c].size)] ELSE share[u]]
             /\ IF call[c].op = "expand" THEN ExpandDone(c)
                ELSE CreateReply(c, call[c].found, BytesToMBCeil(call[c].size))
    <3>1. Sets(c)
      BY <2>0, <2>2 DEF Sets
    <3>2. CASE call[c].op = "expand" /\ ExpandDone(c)
      BY <3>1, <3>2 DEF ExpandDone, TellsExpanded, Tells, ClusterEffect, clusterVars
    <3>3. CASE call[c].op = "create" /\ CreateReply(c, call[c].found, BytesToMBCeil(call[c].size))
      <4>1. BytesToMBCeil(call[c].size) \in Quotas
        BY <1>1, QuotasTyped DEF CallType
      <4>2. PICK u \in Uuids : u = call[c].found
        BY <2>0
      <4>3. ASSUME Answers(c, "wanted")
            PROVE  u \in OwnShares(c)
        <5>1. Live(u)
          BY <1>1, <2>0, <4>2, <4>3 DEF CallInv, FoundInv, FoundOwn, Kept, Answers, Busy
        <5> QED BY <2>0, <4>2, <5>1 DEF OwnShares, SharesNamed
      <4>4. ASSUME Answers(c, "wanted")
            PROVE  /\ Live(u)' /\ share'[u].name = ShareOf[call[c].name]
                   /\ share'[u].quota = BytesToMBCeil(call[c].size)
        <5>1. u \in OwnShares(c) /\ share[u] \in ShareType
          BY <1>1, <4>3, <4>4
        <5>2. share'[u] = [share[u] EXCEPT !.quota = BytesToMBCeil(call[c].size)]
          BY <2>2, <5>1
        <5>3. Live(u) /\ share[u].name = ShareOf[call[c].name]
          BY <5>1 DEF OwnShares, SharesNamed
        <5> QED BY <5>1, <5>2, <5>3 DEF Live, ShareType
      <4>5. CreateReply(c, u, BytesToMBCeil(call[c].size))
        BY <3>3, <4>2
      <4>6. CASE UNCHANGED clusterVars
        BY <4>6 DEF ClusterEffect
      <4>7. CASE /\ Answers(c, "wanted")
                 /\ phase' = [phase EXCEPT ![call[c].name] = "bound"]
                 /\ volumeId' = [volumeId EXCEPT ![call[c].name] = u]
                 /\ capacity' = [capacity EXCEPT ![call[c].name] =
                                MBToBytes(BytesToMBCeil(call[c].size))]
        BY <3>1, <3>3, <4>3, <4>4, <4>7 DEF Binds, Tells, ClusterEffect
      <4> QED BY <1>1, <4>1, <4>5, <4>6, <4>7, ReplyEffect
    <3> QED BY <2>0, <2>2, <3>2, <3>3
  <2>3. PICK o \in Outcomes :
          /\ share' = [u \in Uuids |-> IF o # "lost" /\ u \in OwnShares(c)
                     THEN [share[u] EXCEPT !.quota = BytesToMBCeil(call[c].size)] ELSE share[u]]
          /\ \/ Refuse(c)
             \/ /\ o = "ok"
                /\ IF call[c].op = "expand" THEN ExpandDone(c)
                   ELSE CreateReply(c, call[c].found, BytesToMBCeil(call[c].size))
    BY <1>6, <2>0 DEF ShareSet
  <2>4. CASE Refuse(c)
    BY <2>1, <2>4
  <2>5. CASE /\ o = "ok"
             /\ IF call[c].op = "expand" THEN ExpandDone(c)
                ELSE CreateReply(c, call[c].found, BytesToMBCeil(call[c].size))
    BY <2>2, <2>3, <2>5
  <2> QED BY <2>3, <2>4, <2>5
<1>7. CASE ShareDelete(c)
  <2>0. /\ call[c].pc = "ShareDelete" /\ call[c].op = "delete"
        /\ SharesNamed(call[c].host, NameOfFound(c)) = OwnShares(c)
    BY <1>1, <1>7, FoundNamed DEF ShareDelete, At, CallInv, RequestInv, Busy
  <2>1. CASE Refuse(c)
    BY <1>2, <2>1
  <2>2. CASE /\ share' = [u \in Uuids |-> IF u \in OwnShares(c)
                     THEN [share[u] EXCEPT !.st = "deleted"] ELSE share[u]]
             /\ DeleteDone(c)
    <3>1. Drops(c)
      BY <2>0, <2>2 DEF Drops
    <3> QED BY <2>0, <2>2, <3>1 DEF DeleteDone, TellsDeleted, Tells, ClusterEffect, clusterVars
  <2>3. PICK o \in Outcomes :
          /\ share' = [u \in Uuids |-> IF o # "lost" /\ u \in OwnShares(c)
                     THEN [share[u] EXCEPT !.st = "deleted"] ELSE share[u]]
          /\ Refuse(c) \/ (o = "ok" /\ DeleteDone(c))
    BY <1>7, <2>0 DEF ShareDelete
  <2>4. CASE o = "ok" /\ DeleteDone(c)
    BY <2>2, <2>3, <2>4
  <2> QED BY <2>1, <2>3, <2>4
<1> QED BY <1>3, <1>4, <1>5, <1>6, <1>7 DEF Step

-----------------------------------------------------------------------------
(* What the cluster was told stays true.                                   *)

\* A name is not taken back once given up, and keeps its volume id.
PhaseMonotone ==
    \A n \in Names :
        /\ Kept(n)' => Kept(n)
        /\ phase[n] # "wanted" => phase'[n] # "wanted" /\ volumeId'[n] = volumeId[n]

\* Share names tell the names of volumes apart.
LEMMA OwnName ==
    ASSUME IInv, NamesApart, NEW c \in Calls, Busy(c), NEW n \in Names,
           NEW u \in OwnShares(c), share[u].name = ShareOf[n]
    PROVE  n = call[c].name
<1>1. call[c].name \in Names
  BY DEF IInv, CallInv, RequestInv
<1> QED BY <1>1 DEF OwnShares, SharesNamed, NamesApart

\* If the cluster waits for its answers then no quota is made smaller.
LEMMA SetsMore ==
    ASSUME IInv, Patient, NEW c \in Calls, call[c].pc = "ShareSet", NEW u \in OwnShares(c)
    PROVE  share[u].quota <= BytesToMBCeil(call[c].size)
<1>1. /\ CallInv(c) /\ call[c] \in CallType /\ ShareInv /\ call[c].name \in Names
      /\ call[c].op \in {"create", "expand"} /\ Busy(c)
  BY DEF IInv, TypeOK, CallInv, RequestInv, Busy
<1>2. /\ call[c].found \in Uuids /\ share[call[c].found].dsm = call[c].host
      /\ share[call[c].found].name = ShareOf[call[c].name]
  BY FoundNamed DEF NameOfFound
<1>3. CASE call[c].op = "create"
  <2>1. Live(call[c].found) /\ share[call[c].found].quota = 0
    BY <1>1, <1>2, <1>3 DEF CallInv, PatientInv, FoundInv, FoundOwn, Kept
  <2>2. u = call[c].found
    BY <1>1, <1>2, <2>1 DEF OwnShares, SharesNamed, ShareInv
  <2>3. BytesToMBCeil(call[c].size) \in Nat
    BY <1>1, QuotasTyped DEF CallType
  <2> QED BY <2>1, <2>2, <2>3, SMT
<1>4. CASE call[c].op = "expand"
  <2>1. /\ call[c].found = volumeId[call[c].name] /\ Live(call[c].found)
        /\ share[call[c].found].quota = call[c].quota /\ ~WouldShrink(c)
    BY <1>1, <1>2, <1>4, NoneIsNone DEF CallInv, PatientInv, FoundInv, RequestInv
  <2>2. u = call[c].found
    BY <1>1, <1>2, <2>1 DEF OwnShares, SharesNamed, ShareInv
  <2>3. call[c].quota \in Nat /\ call[c].size \in Nat
    BY <1>1, QuotasTyped, SizesAreNat DEF CallType
  <2>4. MBToBytes(call[c].quota) <= call[c].size
    <3>1. MBToBytes(call[c].quota) \in Nat
      BY <2>3, MBPositive, SMT DEF MBToBytes
    <3> QED BY <2>1, <2>3, <3>1, SMT DEF WouldShrink
  <2> QED BY <2>1, <2>2, <2>3, <2>4, CeilAtLeast
<1> QED BY <1>1, <1>3, <1>4

\* A quota that is set holds what was promised, if the volume is steady.
LEMMA SetsEnough ==
    ASSUME IInv, NamesApart, NEW c \in Calls, call[c].pc = "ShareSet", Steady(call[c].name),
           phase[call[c].name] = "bound", volumeId[call[c].name] \in OwnShares(c)
    PROVE  MBToBytes(BytesToMBCeil(call[c].size)) >= capacity[call[c].name]
<1> DEFINE n == call[c].name
<1>1. /\ CallInv(c) /\ call[c] \in CallType /\ n \in Names /\ Busy(c)
      /\ call[c].op \in {"create", "expand"} /\ capacity[n] \in Nat
      /\ ClusterInv(n) /\ BoundKept
  BY DEF IInv, TypeOK, CallInv, RequestInv, Busy
<1>2. /\ call[c].size \in Sizes /\ call[c].size \in Nat
      /\ BytesToMBCeil(call[c].size) \in Nat
  BY <1>1, Asked, SizesAreNat, CeilNat
<1>3. CASE Patient
  <2>1. PICK u \in Uuids : /\ u = volumeId[n] /\ share[u].quota # 0
                           /\ MBToBytes(share[u].quota) >= capacity[n]
    BY <1>1 DEF BoundKept
  <2>2. share[u].quota <= BytesToMBCeil(call[c].size)
    BY <1>3, <2>1, SetsMore
  <2>3. share[u].quota \in Nat
    BY QuotasTyped DEF IInv, TypeOK, ShareType
  <2>4. /\ MBToBytes(share[u].quota) <= MBToBytes(BytesToMBCeil(call[c].size))
        /\ MBToBytes(share[u].quota) \in Int /\ MBToBytes(BytesToMBCeil(call[c].size)) \in Int
    BY <1>2, <2>2, <2>3, Mono, MBPositive, SMT DEF MBToBytes
  <2> QED BY <1>1, <2>1, <2>4, SMT
<1>4. CASE ~Patient
  <2>1. \A s, t \in world.wishes[n] : s = t /\ (QuotaLost => Request[n].source = None)
    BY <1>4 DEF Steady, Patient
  <2>2. PICK t \in Sizes : /\ t = Request[n].size \/ t \in world.wishes[n]
                           /\ Request[n].size <= t
                           /\ capacity[n] = MBToBytes(BytesToMBCeil(t))
    BY <1>1 DEF ClusterInv, Promise
  <2>3. t <= call[c].size
    <3>1. CASE call[c].op = "expand"
      <4>1. call[c].size \in world.wishes[n] /\ Request[n].size <= call[c].size
        BY <1>1, <3>1 DEF CallInv, RequestInv
      <4> QED BY <1>2, <2>1, <2>2, <4>1, SizesAreNat
    <3>2. CASE call[c].op = "create"
      <4>1. QuotaLost /\ Request[n].source # None /\ call[c].size = Request[n].size
        BY <1>1, <3>2 DEF CallInv, RequestInv, Clones
      <4>2. world.wishes[n] = {}
        BY <2>1, <4>1
      <4> QED BY <1>2, <2>2, <4>1, <4>2, SizesAreNat
    <3> QED BY <1>1, <3>1, <3>2
  <2>4. t \in Nat /\ BytesToMBCeil(t) \in Nat
    BY SizesAreNat, CeilNat
  <2>5. BytesToMBCeil(t) <= BytesToMBCeil(call[c].size)
    BY <1>2, <2>3, <2>4, MBPositive, SMT DEF BytesToMBCeil
  <2>6. /\ MBToBytes(BytesToMBCeil(t)) <= MBToBytes(BytesToMBCeil(call[c].size))
        /\ MBToBytes(BytesToMBCeil(t)) \in Int /\ MBToBytes(BytesToMBCeil(call[c].size)) \in Int
    BY <1>2, <2>4, <2>5, Mono, MBPositive, SMT DEF MBToBytes
  <2> QED BY <2>2, <2>6, SMT
<1> QED BY <1>3, <1>4

LEMMA EffectMonotone ==
    ASSUME IInv, NEW c \in Calls, Busy(c), ClusterEffect(c)
    PROVE  PhaseMonotone
<1>1. /\ phase \in [Names -> {"wanted", "bound", "released", "deleted"}]
      /\ volumeId \in [Names -> Uuids \cup {None}]
  BY DEF IInv, TypeOK
<1>2. CASE UNCHANGED <<phase, volumeId>>
  BY <1>2 DEF PhaseMonotone, Kept
<1>3. CASE Binds(c)
  BY <1>1, <1>3 DEF Binds, Answers, PhaseMonotone, Kept
<1>4. CASE TellsDeleted(c)
  BY <1>1, <1>4 DEF TellsDeleted, Answers, PhaseMonotone, Kept
<1> QED BY <1>2, <1>3, <1>4 DEF ClusterEffect, Tells, TellsExpanded, clusterVars

LEMMA EffectCluster ==
    ASSUME IInv, NamesApart, world' = world, UNCHANGED wish, NEW c \in Calls, Busy(c),
           ShareEffect(c), ClusterEffect(c)
    PROVE  (\A n \in Names : ClusterInv(n)') /\ BoundKept'
<1>1. /\ TypeOK /\ CallInv(c) /\ call[c].name \in Names
      /\ \A n \in Names : ClusterInv(n)
  BY DEF IInv, CallInv, RequestInv
<1>2. PhaseMonotone /\ Lasting /\ OthersKept(c) /\ share' \in [Uuids -> ShareType]
  BY EffectMonotone, EffectLasts
<1>3. \A n \in Names :
        (wish'[n] \in world'.wishes[n] \cup {0})
  BY <1>1 DEF ClusterInv
<1> SUFFICES ASSUME NEW n \in Names, phase'[n] # "wanted"
             PROVE  /\ volumeId'[n] \in Uuids /\ BornShare(volumeId[n])'
                    /\ share'[volumeId'[n]].name = ShareOf[n]
                    /\ Promise(n, capacity[n])'
                    /\ phase'[n] = "bound" =>
                         \E u \in Uuids : /\ u = volumeId'[n] /\ Live(u)'
                                          /\ share'[u].name = ShareOf[n]
                                          /\ share'[u].quota # 0
                                          /\ Steady(n) => MBToBytes(share'[u].quota) >= capacity'[n]
  BY <1>3, SameWorld DEF ClusterInv, BoundKept, Live
<1>4. \A b : Promise(n, b)' <=> Promise(n, b')
  BY DEF Promise
<1>5. CASE phase[n] = "wanted"
  <2>1. Binds(c) /\ n = call[c].name
    <3>1. CASE Binds(c)
      BY <1>1, <1>5, <3>1 DEF Binds, TypeOK
    <3>2. CASE TellsDeleted(c)
      BY <1>1, <1>5, <3>2 DEF TellsDeleted, Answers, TypeOK
    <3>3. CASE UNCHANGED phase
      BY <1>5, <3>3
    <3> QED BY <3>1, <3>2, <3>3 DEF ClusterEffect, Tells, TellsExpanded, clusterVars
  <2>2. PICK u \in Uuids :
         /\ Live(u)' /\ share'[u].name = ShareOf[n]
         /\ share'[u].quota = BytesToMBCeil(call[c].size)
         /\ volumeId'[n] = u
         /\ capacity'[n] = MBToBytes(BytesToMBCeil(call[c].size))
    BY <1>1, <2>1 DEF Binds, TypeOK
  <2>3. /\ call[c].size = Request[n].size /\ call[c].size \in Sizes /\ call[c].size \in Nat
        /\ BytesToMBCeil(call[c].size) \in Nat \ {0}
    BY <1>1, <2>1, Asked, QuotasTyped, SizesAreNat DEF Binds, CallInv, RequestInv
  <2>4. Promise(n, capacity[n])'
    BY <2>2, <2>3 DEF Promise
  <2>5. MBToBytes(share'[u].quota) >= capacity'[n]
    BY <2>2, <2>3, MBPositive, SMT DEF MBToBytes
  <2>6. share'[u].quota # 0
    BY <2>2, <2>3
  <2> QED BY <2>2, <2>4, <2>5, <2>6 DEF BornShare, Live
<1>6. CASE phase[n] # "wanted"
  <2>1. PICK u \in Uuids : /\ u = volumeId[n] /\ volumeId'[n] = u /\ BornShare(u)
                           /\ share[u].name = ShareOf[n] /\ Promise(n, capacity[n])
    BY <1>1, <1>2, <1>6 DEF ClusterInv, PhaseMonotone
  <2>2. /\ BornShare(u)' /\ share'[u].name = ShareOf[n]
        /\ share[u].quota # 0 => share'[u].quota # 0
    BY <1>2, <2>1 DEF Lasting
  <2>3. \/ capacity'[n] = capacity[n]
        \/ /\ n = call[c].name /\ TellsExpanded(c) /\ phase[n] = "bound"
           /\ capacity'[n] = MBToBytes(BytesToMBCeil(call[c].size))
    BY <1>1, <1>6 DEF ClusterEffect, Tells, Binds, TellsDeleted, TellsExpanded, clusterVars,
       TypeOK, Answers
  <2>4. Promise(n, capacity[n])'
    <3>1. CASE capacity'[n] = capacity[n]
      BY <2>1, <3>1 DEF Promise
    <3>2. CASE /\ n = call[c].name /\ TellsExpanded(c)
               /\ capacity'[n] = MBToBytes(BytesToMBCeil(call[c].size))
      <4>1. /\ call[c].size \in Sizes /\ call[c].size \in world.wishes[n]
            /\ Request[n].size <= call[c].size
        BY <1>1, <3>2 DEF TellsExpanded, CallInv, RequestInv
      <4> QED BY <3>2, <4>1 DEF Promise
    <3> QED BY <2>3, <3>1, <3>2
  <2>5. ASSUME phase'[n] = "bound"
        PROVE  Live(u)' /\ share[u].quota # 0 /\ (Steady(n) => MBToBytes(share'[u].quota) >= capacity'[n])
    <3>1. phase[n] = "bound"
      BY <1>2, <1>6, <2>5 DEF PhaseMonotone, Kept
    <3>2. /\ Live(u) /\ share[u].quota # 0
          /\ Steady(n) => MBToBytes(share[u].quota) >= capacity[n]
      BY <2>1, <3>1 DEF IInv, BoundKept
    <3>3. Live(u)'
      <4>1. ASSUME Drops(c), u \in OwnShares(c) PROVE FALSE
        <5>1. n = call[c].name
          BY <2>1, <4>1, OwnName
        <5>2. ~Kept(n)
          BY <1>1, <4>1, <5>1 DEF Drops, CallInv, RequestInv
        <5> QED BY <3>1, <5>2 DEF Kept
      <4> QED BY <1>2, <2>1, <3>2, <4>1 DEF OthersKept
    <3>4. ASSUME Steady(n) PROVE MBToBytes(share'[u].quota) >= capacity'[n]
      <4>1. CASE share'[u].quota = share[u].quota /\ capacity'[n] = capacity[n]
        BY <3>2, <3>4, <4>1
      <4>2. CASE TellsExpanded(c) /\ n = call[c].name
        <5>1. /\ call[c].op = "expand" /\ call[c].pc = "ShareSet" /\ Sets(c)
              /\ capacity'[n] = MBToBytes(BytesToMBCeil(call[c].size))
          BY <1>1, <4>2 DEF TellsExpanded, Sets, TypeOK
        <5>2. /\ call[c].found \in Uuids /\ share[call[c].found].dsm = call[c].host
              /\ call[c].found = u
          BY <1>1, <2>1, <4>2, <5>1, FoundNamed, NoneIsNone DEF CallInv, FoundInv, RequestInv
        <5>3. u \in OwnShares(c)
          BY <2>1, <3>2, <4>2, <5>2 DEF OwnShares, SharesNamed
        <5>4. share'[u].quota = BytesToMBCeil(call[c].size)
          BY <5>1, <5>3 DEF Sets, IInv, TypeOK, ShareType
        <5>5. capacity'[n] \in Int
          <6>1. call[c].size \in Sizes
            BY <5>1, Asked
          <6>2. BytesToMBCeil(call[c].size) \in Nat
            BY <6>1, SizesAreNat, CeilNat
          <6> QED BY <5>1, <6>2, MBPositive, SMT DEF MBToBytes
        <5> QED BY <5>1, <5>4, <5>5, SMT
      <4>3. CASE share'[u].quota # share[u].quota /\ capacity'[n] = capacity[n]
        <5>1. /\ Sets(c) /\ u \in OwnShares(c)
              /\ share'[u].quota = BytesToMBCeil(call[c].size)
          BY <1>2, <2>1, <4>3 DEF OthersKept
        <5>2. n = call[c].name
          BY <2>1, <5>1, OwnName
        <5> QED BY <2>1, <3>1, <3>4, <4>3, <5>1, <5>2, SetsEnough DEF Sets
      <4> QED BY <2>3, <4>1, <4>2, <4>3
    <3> QED BY <3>2, <3>3, <3>4
  <2> QED BY <2>1, <2>2, <2>4, <2>5
<1> QED BY <1>5, <1>6

-----------------------------------------------------------------------------
(* Handlers that do not move.                                              *)

\* What the others leave alone while k serves its request.
Undisturbed(k) ==
    Busy(k) =>
        /\ \A u \in Uuids : BornShare(u) /\ share[u].name = ShareOf[call[k].name] =>
             /\ Kept(call[k].name)' /\ Live(u) => Live(u)'
             /\ /\ phase'[call[k].name] = "wanted"
                /\ share[u].quota = BytesToMBCeil(Request[call[k].name].size)
                => share'[u].quota = share[u].quota
             /\ Patient => share'[u].quota = share[u].quota /\ (Live(u) => Live(u)')
        /\ Patient =>
             /\ phase[call[k].name] = "wanted" => phase'[call[k].name] = "wanted"
             /\ \A j \in Calls : Busy(j)' /\ call'[j].name = call[k].name => j = k

LEMMA OtherCall ==
    ASSUME IInv, world' = world, Lasting, PhaseMonotone,
           NEW k \in Calls, call'[k] = call[k], Undisturbed(k)
    PROVE  CallInv(k)'
<1>1. /\ CallInv(k) /\ call[k] \in CallType
      /\ Faulty' = Faulty /\ (Patient' <=> Patient) /\ QuotaLost' = QuotaLost
      /\ world'.wishes = world.wishes
  BY SameWorld DEF IInv, TypeOK
<1>2. CASE ~Busy(k)
  BY <1>1, <1>2 DEF CallInv, RequestInv, FoundInv, PatientInv, SeenInv, Busy, CallType
<1>3. CASE Busy(k)
  <2>1. PICK n \in Names : n = call[k].name
    BY <1>1, <1>3 DEF CallInv, RequestInv
  <2>2. /\ Kept(n)' => Kept(n)
        /\ phase[n] # "wanted" => phase'[n] # "wanted" /\ volumeId'[n] = volumeId[n]
    BY DEF PhaseMonotone
  <2>3. RequestInv(k)'
    BY <1>1, <1>3, <2>1, <2>2 DEF CallInv, RequestInv, Clones, Busy, Kept
  <2>4. ClusterInv(n) /\ (phase[n] # "wanted" => volumeId[n] \in Uuids)
    BY DEF IInv, ClusterInv
  <2>5. FoundInv(k)'
    <3>1. /\ call[k].pc \in {"ShareClone", "ShareSet", "ShareDelete"} => call[k].found # None
          /\ call[k].op = "create" /\ ~call[k].byName /\ ~Clones(k) => call[k].found = None
      BY <1>1, <1>3 DEF CallInv, FoundInv
    <3>2. ASSUME call[k].found # None
          PROVE  /\ BornShare(call[k].found)' /\ share'[call[k].found].dsm = call[k].host
                 /\ call[k].op \in {"delete", "expand"} => call[k].found = call[k].id
                 /\ FoundOwn(k) => /\ share'[call[k].found].name = ShareOf[call[k].name]
                                   /\ Kept(call[k].name)' => Live(call[k].found)'
                 /\ /\ call[k].byName /\ phase'[call[k].name] = "wanted"
                    /\ call[k].quota = BytesToMBCeil(call[k].size)
                    => share'[call[k].found].quota = call[k].quota
      <4>1. PICK u \in Uuids : u = call[k].found
        BY <1>1, <3>2 DEF CallType
      <4>2. /\ BornShare(u) /\ share[u].dsm = call[k].host
            /\ call[k].op \in {"delete", "expand"} => u = call[k].id
            /\ FoundOwn(k) => /\ share[u].name = ShareOf[n] /\ (Kept(n) => Live(u))
            /\ /\ call[k].byName /\ phase[n] = "wanted"
               /\ call[k].quota = BytesToMBCeil(call[k].size)
               => share[u].quota = call[k].quota
        BY <1>1, <1>3, <2>1, <3>2, <4>1 DEF CallInv, FoundInv
      <4>3. BornShare(u)' /\ share'[u].dsm = share[u].dsm /\ share'[u].name = share[u].name
        BY <4>2 DEF Lasting
      <4>4. ASSUME FoundOwn(k), Kept(n)' PROVE Live(u)'
        BY <1>3, <2>1, <2>2, <4>2, <4>4 DEF Undisturbed, Kept
      <4>5. ASSUME call[k].byName, phase'[n] = "wanted", call[k].quota = BytesToMBCeil(call[k].size)
            PROVE  share'[u].quota = call[k].quota
        <5>1. FoundOwn(k) /\ phase[n] = "wanted" /\ call[k].size = Request[n].size
          BY <1>1, <1>3, <2>1, <2>2, <4>5 DEF FoundOwn, CallInv, RequestInv
        <5> QED BY <1>3, <2>1, <4>2, <4>5, <5>1 DEF Undisturbed
      <4> QED BY <2>1, <4>1, <4>2, <4>3, <4>4, <4>5 DEF BornShare, Live, Kept
    <3> QED BY <1>1, <1>3, <3>1, <3>2 DEF FoundInv, FoundOwn, BornShare, Live, Busy, Clones
  <2>6. PatientInv(k)'
    <3> SUFFICES ASSUME Patient
                 PROVE  /\ call[k].live
                        /\ \A j \in Calls : Busy(j)' /\ call'[j].name = n => j = k
                        /\ call[k].op = "create" => phase'[n] = "wanted"
                        /\ call[k].op = "create" /\ call[k].pc = "ShareSet" => share'[call[k].found].quota = 0
                        /\ call[k].op = "expand" =>
                             /\ Live(volumeId[n])'
                             /\ call[k].found # None => share'[call[k].found].quota = call[k].quota
                             /\ call[k].pc = "ShareSet" => ~WouldShrink(k)
      BY <1>1, <2>1 DEF PatientInv, Busy, Live, WouldShrink
    <3>1. PatientInv(k) /\ RequestInv(k) /\ FoundInv(k)
      BY <1>1 DEF CallInv
    <3>2. CASE call[k].op = "create" /\ call[k].pc = "ShareSet"
      <4>1. PICK u \in Uuids : u = call[k].found
        BY <1>1, <3>1, <3>2 DEF CallType, FoundInv
      <4>2. BornShare(u) /\ share[u].name = ShareOf[n] /\ share[u].quota = 0
        BY <1>3, <2>1, <3>1, <3>2, <4>1, NoneIsNone DEF FoundInv, FoundOwn, PatientInv
      <4>3. share'[u].quota = 0
        BY <1>3, <2>1, <4>2 DEF Undisturbed
      <4> QED BY <1>3, <2>1, <3>1, <3>2, <4>1, <4>3 DEF PatientInv, Undisturbed
    <3>3. CASE call[k].op = "expand"
      <4>1. PICK v \in Uuids : v = volumeId[n]
        BY <1>3, <2>1, <2>4, <3>1, <3>3 DEF RequestInv
      <4>2. /\ BornShare(v) /\ share[v].name = ShareOf[n] /\ Live(v) /\ volumeId'[n] = v
            /\ call[k].found # None => call[k].found = v /\ share[v].quota = call[k].quota
        BY <1>3, <2>1, <2>2, <2>4, <3>1, <3>3, <4>1 DEF RequestInv, PatientInv, FoundInv, ClusterInv
      <4>3. Live(v)' /\ share'[v].quota = share[v].quota
        BY <1>3, <2>1, <4>2 DEF Undisturbed
      <4>4. Live(volumeId[n])'
        BY <4>2, <4>3 DEF Live
      <4> QED BY <1>3, <2>1, <3>1, <3>3, <4>2, <4>3, <4>4 DEF PatientInv, Undisturbed
    <3>4. CASE call[k].op # "expand" /\ ~(call[k].op = "create" /\ call[k].pc = "ShareSet")
      BY <1>3, <2>1, <3>1, <3>4 DEF PatientInv, Undisturbed
    <3> QED BY <3>2, <3>3, <3>4
  <2>7. SeenInv(k)'
    <3> SUFFICES ASSUME "ShareList" \notin Faulty, call[k].op = "delete", call[k].pc = "List",
                        call[k].found = None, Live(call[k].id)'
                 PROVE  share'[call[k].id].dsm \in call[k].todo
      BY <1>1 DEF SeenInv, Live
    <3>1. PICK u \in Uuids : u = call[k].id
      BY <1>1, <1>3, <2>1, <2>4 DEF CallInv, RequestInv, Kept
    <3>2. BornShare(u)
      BY <1>1, <1>3, <2>1, <2>4, <3>1 DEF CallInv, RequestInv, Kept, ClusterInv
    <3>3. Live(u) /\ share'[u].dsm = share[u].dsm
      BY <3>1, <3>2 DEF Lasting, Live
    <3> QED BY <1>1, <3>1, <3>3 DEF CallInv, SeenInv
  <2> QED BY <2>3, <2>5, <2>6, <2>7 DEF CallInv
<1> QED BY <1>2, <1>3

\* A handler moves alone and serves one name.
OnlyMoves(c) ==
    /\ \A k \in Calls : k # c => call'[k] = call[k]
    /\ Busy(c)' => call'[c].name = call[c].name

LEMMA EffectUndisturbed ==
    ASSUME IInv, NamesApart, NEW c \in Calls, NEW k \in Calls, k # c, OnlyMoves(c), Busy(c),
           ShareEffect(c), ClusterEffect(c), world' = world
    PROVE  Undisturbed(k)
<1> SUFFICES ASSUME Busy(k) PROVE Undisturbed(k)
  BY DEF Undisturbed
<1>1. /\ CallInv(c) /\ CallInv(k) /\ call[c].name \in Names /\ call[k].name \in Names
      /\ PhaseMonotone /\ OthersKept(c)
  BY EffectMonotone, EffectLasts DEF IInv, CallInv, RequestInv
<1>2. Patient => call[c].name # call[k].name
  BY <1>1 DEF CallInv, PatientInv
<1>3. ASSUME NEW u \in Uuids, BornShare(u), share[u].name = ShareOf[call[k].name]
      PROVE  /\ Kept(call[k].name)' /\ Live(u) => Live(u)'
             /\ /\ phase'[call[k].name] = "wanted"
                /\ share[u].quota = BytesToMBCeil(Request[call[k].name].size)
                => share'[u].quota = share[u].quota
             /\ Patient => share'[u].quota = share[u].quota /\ (Live(u) => Live(u)')
  <2>1. ASSUME u \in OwnShares(c) PROVE call[k].name = call[c].name
    BY <1>1, <1>3, <2>1, OwnName
  <2>2. /\ Live(u) /\ ~Live(u)' => call[c].op = "delete" /\ u \in OwnShares(c)
        /\ share'[u].quota # share[u].quota =>
             /\ call[c].op \in {"create", "expand"} /\ u \in OwnShares(c)
             /\ share'[u].quota = BytesToMBCeil(call[c].size)
    BY <1>1, <1>3 DEF OthersKept, Drops, Sets, CallInv, RequestInv, Busy
  <2>3. PICK n \in Names : n = call[k].name
    BY <1>1
  <2>4. Kept(n)' => Kept(n) /\ (phase'[n] = "wanted" => phase[n] = "wanted")
    BY <1>1 DEF PhaseMonotone
  <2>5. ASSUME Kept(n)', Live(u), ~Live(u)' PROVE FALSE
    BY <1>1, <2>1, <2>2, <2>3, <2>4, <2>5 DEF CallInv, RequestInv
  <2>6. ASSUME phase'[n] = "wanted", share[u].quota = BytesToMBCeil(Request[n].size),
               share'[u].quota # share[u].quota
        PROVE  FALSE
    <3>1. /\ call[c].name = n /\ call[c].op = "create"
          /\ share'[u].quota = BytesToMBCeil(call[c].size)
      BY <1>1, <2>1, <2>2, <2>3, <2>4, <2>6 DEF CallInv, RequestInv, PhaseMonotone
    <3>2. call[c].size = Request[n].size
      BY <1>1, <3>1 DEF CallInv, RequestInv
    <3> QED BY <2>6, <3>1, <3>2
  <2>7. Patient => share'[u].quota = share[u].quota /\ (Live(u) => Live(u)')
    BY <1>2, <2>1, <2>2
  <2>8. Kept(call[k].name)' <=> Kept(n)'
    BY <1>1, <2>3 DEF OnlyMoves, Kept
  <2> QED BY <2>3, <2>5, <2>6, <2>7, <2>8
<1>4. ASSUME Patient, phase[call[k].name] = "wanted" PROVE phase'[call[k].name] = "wanted"
  BY <1>1, <1>2, <1>4 DEF ClusterEffect, Tells, Binds, TellsDeleted, TellsExpanded, clusterVars,
     IInv, TypeOK
<1>5. ASSUME Patient, NEW j \in Calls, Busy(j)', call'[j].name = call[k].name PROVE j = k
  BY <1>1, <1>2, <1>5 DEF OnlyMoves, CallInv, PatientInv, Busy
<1> QED BY <1>3, <1>4, <1>5 DEF Undisturbed

-----------------------------------------------------------------------------
(* The handler that moves.                                                 *)

LEMMA IdleInv ==
    ASSUME NEW c \in Calls, call'[c] = IdleCall
    PROVE  CallInv(c)'
BY DEF CallInv, RequestInv, FoundInv, PatientInv, SeenInv, IdleCall, Busy

\* A handler goes on with its request as x, in a place that fits the request and
\* with what it knows of the share it found.
SameRequest(c, x) ==
    /\ x.op = call[c].op /\ x.name = call[c].name /\ x.id = call[c].id
    /\ x.size = call[c].size /\ x.live = call[c].live

Place(c, x) ==
    /\ x.pc # "idle"
    /\ x.pc \in {"Pick", "ShareCreate"} => x.op = "create" /\ ~Clones(c)
    /\ x.pc = "ShareCreate" => x.host \in Dsms
    /\ x.pc = "ShareClone" => x.op = "create" /\ Clones(c)
    /\ x.pc = "ShareGet" => x.op = "create"
    /\ x.pc = "ShareSet" => x.op = "expand" \/ (x.op = "create" /\ Clones(c) /\ QuotaLost)
    /\ x.pc = "ShareDelete" => x.op = "delete"
    /\ x.byName => x.op = "create" /\ x.pc = "List"
    /\ x.op = "create" /\ x.pc = "List" /\ ~x.byName => Clones(c)

Knows(x) ==
    /\ x.pc \in {"ShareClone", "ShareSet", "ShareDelete"} => x.found # None
    /\ x.op = "create" /\ ~x.byName /\ Request[x.name].source = None => x.found = None
    /\ x.found # None =>
         /\ BornShare(x.found) /\ share[x.found].dsm = x.host
         /\ x.op \in {"delete", "expand"} => x.found = x.id
         /\ x.byName \/ x.op \in {"delete", "expand"} \/ x.pc = "ShareSet" =>
              share[x.found].name = ShareOf[x.name] /\ (Kept(x.name) => Live(x.found))
         /\ x.byName /\ phase[x.name] = "wanted" /\ x.quota = BytesToMBCeil(x.size) =>
              share[x.found].quota = x.quota

Fresh(x) ==
    Patient =>
        /\ x.op = "create" /\ x.pc = "ShareSet" => share[x.found].quota = 0
        /\ x.op = "expand" /\ x.found # None => share[x.found].quota = x.quota
        /\ x.op = "expand" /\ x.pc = "ShareSet" => ~(MBToBytes(x.quota) > x.size)

Sees(x) ==
    /\ "ShareList" \notin Faulty /\ x.op = "delete" /\ x.pc = "List" /\ x.found = None
    /\ Live(x.id)
    => share[x.id].dsm \in x.todo

LEMMA Moved ==
    ASSUME IInv, world' = world, NEW c \in Calls, Busy(c), NEW x \in CallType,
           call' = [call EXCEPT ![c] = x], UNCHANGED clusterVars,
           \A u \in Uuids : BornShare(u) => share'[u] = share[u],
           SameRequest(c, x), Place(c, x), Knows(x), Fresh(x), Sees(x)
    PROVE  CallInv(c)' /\ OnlyMoves(c)
<1>1. /\ CallInv(c) /\ call[c] \in CallType
      /\ Faulty' = Faulty /\ (Patient' <=> Patient) /\ QuotaLost' = QuotaLost
      /\ world'.wishes = world.wishes
  BY SameWorld DEF IInv, TypeOK
<1>2. /\ call'[c] = x /\ (\A k \in Calls : k # c => call'[k] = call[k])
      /\ phase' = phase /\ volumeId' = volumeId
  BY DEF IInv, TypeOK, clusterVars
<1>0. x.op = call[c].op /\ x.name = call[c].name /\ x.id = call[c].id /\ x.pc # "idle"
  BY DEF SameRequest, Place
<1>3. /\ x.name \in Names /\ ClusterInv(x.name)
      /\ x.op = "delete" => x.id \in Uuids /\ BornShare(x.id)
      /\ x.op = "expand" => volumeId[x.name] \in Uuids /\ BornShare(volumeId[x.name])
  BY <1>0, <1>1 DEF IInv, CallInv, RequestInv, ClusterInv, Kept
<1>4. RequestInv(c)'
  BY <1>1, <1>2 DEF CallInv, RequestInv, Clones, Busy, Kept, SameRequest, Place
<1>5. x.found # None => x.found \in Uuids /\ share'[x.found] = share[x.found]
  BY DEF CallType, Knows
<1>6. FoundInv(c)'
  BY <1>1, <1>2, <1>5 DEF FoundInv, FoundOwn, Busy, Kept, BornShare, Live, Knows, Clones
<1>7. PatientInv(c)'
  <2> SUFFICES ASSUME Patient
               PROVE  /\ x.live
                      /\ \A k \in Calls : Busy(k)' /\ call'[k].name = x.name => k = c
                      /\ x.op = "create" => phase[x.name] = "wanted"
                      /\ x.op = "create" /\ x.pc = "ShareSet" => share'[x.found].quota = 0
                      /\ x.op = "expand" =>
                           /\ share'[volumeId[x.name]].st = "live"
                           /\ x.found # None => share'[x.found].quota = x.quota
                           /\ x.pc = "ShareSet" => ~(MBToBytes(x.quota) > x.size)
    BY <1>1, <1>2 DEF PatientInv, Busy, Live, WouldShrink
  <2>1. PatientInv(c)
    BY <1>1 DEF CallInv
  <2>2. \A k \in Calls : Busy(k)' /\ call'[k].name = x.name => k = c
    BY <1>0, <1>2, <2>1 DEF PatientInv, Busy
  <2>3. x.op = "expand" => share'[volumeId[x.name]].st = "live"
    BY <1>0, <1>3, <2>1 DEF PatientInv, Live
  <2>4. x.live /\ (x.op = "create" => phase[x.name] = "wanted")
    BY <1>0, <2>1 DEF PatientInv, SameRequest
  <2> QED BY <1>5, <2>2, <2>3, <2>4 DEF Fresh, Knows
<1>8. SeenInv(c)'
  BY <1>1, <1>2, <1>3 DEF SeenInv, Live, Sees
<1>9. OnlyMoves(c)
  BY <1>0, <1>2 DEF OnlyMoves
<1> QED BY <1>4, <1>6, <1>7, <1>8, <1>9 DEF CallInv

\* A handler that ends.
LEMMA Ended ==
    ASSUME IInv, NEW c \in Calls,
           \/ Refuse(c) \/ DeleteDone(c) \/ ExpandDone(c)
           \/ \E u \in Uuids, q \in Quotas : CreateReply(c, u, q)
    PROVE  CallInv(c)' /\ OnlyMoves(c)
<1>1. call \in [Calls -> CallType] /\ TypeOK
  BY DEF IInv, TypeOK
<1>2. call' = [call EXCEPT ![c] = IdleCall]
  BY <1>1, ReplyTyped
<1>3. call'[c] = IdleCall /\ \A k \in Calls : k # c => call'[k] = call[k]
  BY <1>1, <1>2
<1>4. CallInv(c)'
  BY <1>3, IdleInv
<1>5. OnlyMoves(c)
  BY <1>3 DEF OnlyMoves, IdleCall, Busy
<1> QED BY <1>4, <1>5

LEMMA ListMoves ==
    ASSUME IInv, world' = world, NEW c \in Calls, ShareList(c)
    PROVE  CallInv(c)' /\ OnlyMoves(c)
<1>1. /\ CallInv(c) /\ call[c] \in CallType /\ call \in [Calls -> CallType]
      /\ call[c].pc = "List" /\ Busy(c)
      /\ UNCHANGED <<share, clusterVars>>
  BY DEF ShareList, At, Busy, IInv, TypeOK
<1>2. PICK d \in call[c].todo :
        LET fit == {u \in Uuids : Live(u) /\ share[u].dsm = d /\ Fits(c, u)}
        IN  \/ /\ d \in Unified \/ fit = {} \/ call[c].found # None
               /\ call' = [call EXCEPT ![c].todo = @ \ {d}]
            \/ /\ d \notin Unified /\ call[c].found = None
               /\ \E u \in fit :
                    call' = [[call EXCEPT ![c].todo = @ \ {d}] EXCEPT
                               ![c].found = u, ![c].host = d, ![c].quota = share[u].quota]
            \/ "ShareList" \in Faulty /\ call' = [call EXCEPT ![c].todo = @ \ {d}]
  BY DEF ShareList, Mishap
<1>3. d \in Dsms
  BY <1>1 DEF CallType
<1>4. CASE /\ call' = [call EXCEPT ![c].todo = @ \ {d}]
           /\ \/ d \in Unified \/ call[c].found # None \/ "ShareList" \in Faulty
              \/ \A u \in Uuids : Live(u) /\ Fits(c, u) => share[u].dsm # d
  <2> DEFINE x == [call[c] EXCEPT !.todo = @ \ {d}]
  <2>1. /\ x \in CallType /\ x.op = call[c].op /\ x.name = call[c].name /\ x.id = call[c].id
        /\ x.size = call[c].size /\ x.live = call[c].live /\ x.pc = "List"
        /\ x.byName = call[c].byName /\ x.found = call[c].found /\ x.host = call[c].host
        /\ x.quota = call[c].quota /\ x.todo = call[c].todo \ {d}
    BY <1>1 DEF CallType
  <2>2. call' = [call EXCEPT ![c] = x]
    BY <1>1, <1>4
  <2>3. ASSUME "ShareList" \notin Faulty, call[c].op = "delete", call[c].found = None, Live(call[c].id)
        PROVE  share[call[c].id].dsm \in call[c].todo \ {d}
    <3>1. PICK u \in Uuids : u = call[c].id /\ Live(u) /\ BornShare(u)
      BY <1>1, <2>3 DEF IInv, CallInv, RequestInv, ClusterInv, Kept
    <3>2. share[u].dsm \in call[c].todo /\ share[u].dsm \notin Unified
      BY <1>1, <2>3, <3>1 DEF CallInv, SeenInv, IInv, ShareInv
    <3>3. Fits(c, u)
      BY <1>1, <2>3, <3>1 DEF Fits, CallInv, RequestInv
    <3> QED BY <1>4, <2>3, <3>1, <3>2, <3>3
  <2> HIDE DEF x
  <2>4. SameRequest(c, x)
    BY <2>1 DEF SameRequest
  <2>5. Place(c, x)
    BY <1>1, <2>1 DEF Place, CallInv, RequestInv, Clones
  <2>6. Knows(x)
    BY <1>1, <2>1 DEF Knows, CallInv, FoundInv, FoundOwn, Clones
  <2>7. Fresh(x) /\ Sees(x)
    BY <1>1, <2>1, <2>3 DEF Fresh, Sees, CallInv, PatientInv
  <2> QED BY <1>1, <2>1, <2>2, <2>4, <2>5, <2>6, <2>7, Moved
<1>5. ASSUME NEW u \in Uuids, d \notin Unified, call[c].found = None, Live(u), share[u].dsm = d,
             Fits(c, u),
             call' = [[call EXCEPT ![c].todo = @ \ {d}] EXCEPT
                        ![c].found = u, ![c].host = d, ![c].quota = share[u].quota]
      PROVE  CallInv(c)' /\ OnlyMoves(c)
  <2> DEFINE x == [call[c] EXCEPT !.todo = @ \ {d}, !.found = u, !.host = d, !.quota = share[u].quota]
  <2>1. /\ x \in CallType /\ x.op = call[c].op /\ x.name = call[c].name /\ x.id = call[c].id
        /\ x.size = call[c].size /\ x.live = call[c].live /\ x.pc = "List"
        /\ x.byName = call[c].byName /\ x.found = u /\ x.host = d
        /\ x.quota = share[u].quota
    <3>1. share[u].quota \in Quotas
      BY DEF IInv, TypeOK, ShareType
    <3> QED BY <1>1, <1>3, <3>1 DEF CallType
  <2>2. call' = [call EXCEPT ![c] = x]
    BY <1>1, <1>5
  <2>3. /\ u # None /\ BornShare(u)
        /\ call[c].op \in {"delete", "expand"} => u = call[c].id
        /\ call[c].byName \/ call[c].op \in {"delete", "expand"} =>
             share[u].name = ShareOf[call[c].name]
    <3>1. call[c].op \in {"delete", "expand"} =>
            ~call[c].byName /\ phase[call[c].name] # "wanted" /\ call[c].id = volumeId[call[c].name]
      BY <1>1 DEF CallInv, RequestInv, Kept
    <3>2. call[c].name \in Names
      BY <1>1 DEF CallInv, RequestInv
    <3> QED BY <1>5, <3>1, <3>2, NoneIsNone DEF BornShare, Live, Fits, IInv, ClusterInv
  <2> HIDE DEF x
  <2>4. SameRequest(c, x)
    BY <2>1 DEF SameRequest
  <2>5. Place(c, x)
    BY <1>1, <2>1 DEF Place, CallInv, RequestInv, Clones
  <2>6. Knows(x) /\ Fresh(x) /\ Sees(x)
    BY <1>1, <1>5, <2>1, <2>3 DEF Knows, Fresh, Sees, CallInv, RequestInv, Clones
  <2> QED BY <1>1, <2>1, <2>2, <2>4, <2>5, <2>6, Moved
<1> QED BY <1>2, <1>4, <1>5

LEMMA ListEndMoves ==
    ASSUME IInv, world' = world, NEW c \in Calls, ListEnd(c)
    PROVE  CallInv(c)' /\ OnlyMoves(c)
<1>1. /\ CallInv(c) /\ call[c] \in CallType /\ call \in [Calls -> CallType]
      /\ call[c].pc = "List" /\ Busy(c) /\ UNCHANGED share /\ call[c].op # "none"
  BY DEF ListEnd, At, Busy, IInv, TypeOK, CallInv, RequestInv
<1>2. ASSUME NEW p \in {"ShareClone", "ShareDelete", "ShareSet"}, Goto(c, p),
             UNCHANGED clusterVars, call[c].found # None,
             p = "ShareClone" => call[c].op = "create" /\ ~call[c].byName,
             p = "ShareDelete" => call[c].op = "delete",
             p = "ShareSet" => call[c].op = "expand" /\ ~WouldShrink(c)
      PROVE  CallInv(c)' /\ OnlyMoves(c)
  <2> DEFINE x == [call[c] EXCEPT !.pc = p]
  <2>1. /\ x \in CallType /\ x.op = call[c].op /\ x.name = call[c].name /\ x.id = call[c].id
        /\ x.size = call[c].size /\ x.live = call[c].live /\ x.pc = p
        /\ x.byName = call[c].byName /\ x.found = call[c].found /\ x.host = call[c].host
        /\ x.quota = call[c].quota /\ call' = [call EXCEPT ![c] = x]
    BY <1>1, <1>2 DEF CallType, Goto
  <2> HIDE DEF x
  <2>2. ~call[c].byName
    BY <1>1, <1>2 DEF CallInv, RequestInv
  <2>3. SameRequest(c, x)
    BY <2>1 DEF SameRequest
  <2>4. Place(c, x)
    BY <1>1, <1>2, <2>1, <2>2 DEF Place, CallInv, RequestInv, Clones
  <2>5. Knows(x)
    BY <1>1, <1>2, <2>1, <2>2 DEF Knows, CallInv, FoundInv, FoundOwn, Clones
  <2>6. Fresh(x) /\ Sees(x)
    BY <1>1, <1>2, <2>1 DEF Fresh, Sees, CallInv, PatientInv, WouldShrink
  <2> QED BY <1>1, <1>2, <2>1, <2>3, <2>4, <2>5, <2>6, Moved
<1>3. CASE call[c].found # None /\ FoundShare(c)
  <2>1. call[c].found \in Uuids /\ call[c].quota \in Quotas
    BY <1>1, <1>3 DEF CallType
  <2>2. CASE Refuse(c) \/ CreateReply(c, call[c].found, call[c].quota)
    BY <2>1, <2>2, Ended
  <2> QED BY <1>2, <1>3, <2>2 DEF FoundShare
<1>4. ASSUME NEW p \in {"List", "Pick"}, NEW D \in SUBSET Dsms,
             call' = [call EXCEPT ![c].pc = p, ![c].byName = FALSE, ![c].todo = D],
             UNCHANGED clusterVars, call[c].found = None, call[c].byName,
             Clones(c) <=> p = "List"
      PROVE  CallInv(c)' /\ OnlyMoves(c)
  <2> DEFINE x == [call[c] EXCEPT !.pc = p, !.byName = FALSE, !.todo = D]
  <2>1. /\ x \in CallType /\ x.op = call[c].op /\ x.name = call[c].name /\ x.id = call[c].id
        /\ x.size = call[c].size /\ x.live = call[c].live /\ x.pc = p
        /\ x.byName = FALSE /\ x.found = None
    BY <1>1, <1>4 DEF CallType
  <2>2. call' = [call EXCEPT ![c] = x]
    BY <1>1, <1>4
  <2> HIDE DEF x
  <2>3. SameRequest(c, x)
    BY <2>1 DEF SameRequest
  <2>4. call[c].op = "create"
    BY <1>1, <1>4 DEF CallInv, RequestInv
  <2>5. Place(c, x) /\ Knows(x) /\ Fresh(x) /\ Sees(x)
    BY <1>4, <2>1, <2>4 DEF Place, Knows, Fresh, Sees
  <2> QED BY <1>1, <1>4, <2>1, <2>2, <2>3, <2>5, Moved
<1>5. CASE call[c].found = None /\ NoShare(c)
  <2>1. CASE DeleteNothing(c) \/ Refuse(c)
    BY <2>1, Ended DEF DeleteNothing
  <2>2. CASE /\ call[c].byName /\ UNCHANGED clusterVars
             /\ call' = [call EXCEPT ![c].pc = IF Clones(c) THEN "List" ELSE "Pick",
                               ![c].byName = FALSE,
                               ![c].todo = IF Clones(c) THEN Dsms ELSE HostsFor(c)]
    <3>1. CASE Clones(c)
      <4>1. call' = [call EXCEPT ![c].pc = "List", ![c].byName = FALSE, ![c].todo = Dsms]
        BY <2>2, <3>1
      <4> QED BY <1>4, <1>5, <2>2, <3>1, <4>1
    <3>2. CASE ~Clones(c)
      <4>1. /\ call' = [call EXCEPT ![c].pc = "Pick", ![c].byName = FALSE, ![c].todo = HostsFor(c)]
            /\ HostsFor(c) \in SUBSET Dsms
        BY <2>2, <3>2 DEF HostsFor
      <4> QED BY <1>4, <1>5, <2>2, <3>2, <4>1
    <3> QED BY <3>1, <3>2
  <2> QED BY <1>5, <2>1, <2>2 DEF NoShare
<1> QED BY <1>3, <1>5 DEF ListEnd

\* A creation that goes on to p, at the server h, with the share u in hand.
LEMMA CreateMoves ==
    ASSUME IInv, world' = world, NEW c \in Calls, Busy(c), call[c].op = "create",
           ~call[c].byName,
           NEW p \in {"Pick", "ShareCreate", "ShareGet", "ShareSet"}, NEW D \in SUBSET Dsms,
           NEW h \in Dsms \cup {None}, NEW u \in Uuids \cup {None},
           call' = [call EXCEPT ![c] = [call[c] EXCEPT !.pc = p, !.todo = D, !.host = h, !.found = u]],
           UNCHANGED clusterVars,
           \A v \in Uuids : BornShare(v) => share'[v] = share[v],
           p \in {"Pick", "ShareCreate"} => ~Clones(c),
           p = "ShareCreate" => h \in Dsms,
           ~Clones(c) => u = None, u # None => BornShare(u) /\ share[u].dsm = h,
           p = "ShareSet" => /\ Clones(c) /\ QuotaLost /\ u # None /\ Live(u)
                             /\ share[u].name = ShareOf[call[c].name] /\ share[u].quota = 0
    PROVE  CallInv(c)' /\ OnlyMoves(c)
<1> DEFINE x == [call[c] EXCEPT !.pc = p, !.todo = D, !.host = h, !.found = u]
<1>1. call[c] \in CallType
  BY DEF IInv, TypeOK
<1>2. /\ x \in CallType /\ x.op = call[c].op /\ x.name = call[c].name /\ x.id = call[c].id
      /\ x.size = call[c].size /\ x.live = call[c].live /\ x.pc = p
      /\ x.byName = call[c].byName /\ x.found = u /\ x.host = h
  <2>1. \A e \in CallType : [e EXCEPT !.pc = p, !.todo = D] \in CallType
    BY DEF CallType
  <2>2. \A e \in CallType : [e EXCEPT !.host = h, !.found = u] \in CallType
    BY DEF CallType
  <2>3. x = [[call[c] EXCEPT !.pc = p, !.todo = D] EXCEPT !.host = h, !.found = u]
    BY <1>1 DEF CallType
  <2>4. x \in CallType
    BY <1>1, <2>1, <2>2, <2>3
  <2>5. /\ x.op = call[c].op /\ x.name = call[c].name /\ x.id = call[c].id
        /\ x.size = call[c].size /\ x.live = call[c].live /\ x.pc = p
        /\ x.byName = call[c].byName /\ x.found = u /\ x.host = h
    BY <1>1 DEF CallType
  <2> QED BY <2>4, <2>5
<1>3. call' = [call EXCEPT ![c] = x]
  OBVIOUS
<1> HIDE DEF x
<1>4. SameRequest(c, x)
  BY <1>2 DEF SameRequest
<1>5. Place(c, x)
  BY <1>2 DEF Place
<1>6. Knows(x)
  BY <1>2 DEF Knows, Clones
<1>7. Fresh(x) /\ Sees(x)
  BY <1>2 DEF Fresh, Sees
<1> QED BY <1>2, <1>3, <1>4, <1>5, <1>6, <1>7, Moved

LEMMA PickMoves ==
    ASSUME IInv, world' = world, NEW c \in Calls, Pick(c)
    PROVE  CallInv(c)' /\ OnlyMoves(c)
<1>1. /\ CallInv(c) /\ call[c] \in CallType /\ call \in [Calls -> CallType]
      /\ call[c].pc = "Pick" /\ Busy(c) /\ UNCHANGED share
      /\ call[c].op = "create" /\ ~call[c].byName /\ ~Clones(c) /\ call[c].found = None
  BY DEF Pick, At, Busy, IInv, TypeOK, CallInv, RequestInv, FoundInv
<1>2. ASSUME NEW d \in call[c].todo, UNCHANGED clusterVars,
             \/ call' = [[call EXCEPT ![c].todo = @ \ {d}] EXCEPT ![c].pc = "ShareCreate", ![c].host = d]
             \/ call' = [call EXCEPT ![c].todo = @ \ {d}]
      PROVE  CallInv(c)' /\ OnlyMoves(c)
  <2> DEFINE D == call[c].todo \ {d}
             h == call[c].host
             At1(p, g) == [call[c] EXCEPT !.pc = p, !.todo = D, !.host = g, !.found = None]
  <2>1. d \in Dsms /\ D \in SUBSET Dsms /\ h \in Dsms \cup {None}
    BY <1>1 DEF CallType
  <2>2. CASE call' = [call EXCEPT ![c].todo = @ \ {d}]
    <3>1. At1("Pick", h) = [call[c] EXCEPT !.todo = D]
      BY <1>1 DEF CallType
    <3>2. call' = [call EXCEPT ![c] = At1("Pick", h)]
      BY <1>1, <2>2, <3>1
    <3> HIDE DEF D, h
    <3> QED BY <1>1, <1>2, <2>1, <3>2, CreateMoves
  <2>3. CASE call' = [[call EXCEPT ![c].todo = @ \ {d}] EXCEPT ![c].pc = "ShareCreate", ![c].host = d]
    <3>1. At1("ShareCreate", d) = [call[c] EXCEPT !.todo = D, !.pc = "ShareCreate", !.host = d]
      BY <1>1 DEF CallType
    <3>2. call' = [call EXCEPT ![c] = At1("ShareCreate", d)]
      BY <1>1, <2>3, <3>1
    <3> HIDE DEF D
    <3> QED BY <1>1, <1>2, <2>1, <3>2, CreateMoves
  <2> QED BY <1>2, <2>2, <2>3
<1> QED BY <1>2, Ended DEF Pick

\* A creation that goes on as it is, or fails.
LEMMA CreateGoes ==
    ASSUME IInv, world' = world, NEW c \in Calls,
           call[c].pc \in {"ShareCreate", "ShareClone", "ShareGet"},
           \A v \in Uuids : BornShare(v) => share'[v] = share[v],
           \/ Goto(c, "ShareGet") /\ UNCHANGED clusterVars
           \/ CreateStepFails(c)
    PROVE  CallInv(c)' /\ OnlyMoves(c)
<1>1. /\ CallInv(c) /\ call[c] \in CallType /\ call \in [Calls -> CallType] /\ Busy(c)
      /\ call[c].op = "create" /\ ~call[c].byName
  BY DEF Busy, IInv, TypeOK, CallInv, RequestInv
<1>2. ASSUME NEW p \in {"Pick", "ShareGet"}, Goto(c, p), UNCHANGED clusterVars,
             p = "Pick" => ~Clones(c)
      PROVE  CallInv(c)' /\ OnlyMoves(c)
  <2> DEFINE h == call[c].host
             u == call[c].found
  <2>1. /\ h \in Dsms \cup {None} /\ u \in Uuids \cup {None} /\ call[c].todo \in SUBSET Dsms
        /\ ~Clones(c) => u = None
        /\ u # None => BornShare(u) /\ share[u].dsm = h
    BY <1>1 DEF CallType, CallInv, FoundInv
  <2>2. call' = [call EXCEPT ![c] = [call[c] EXCEPT !.pc = p, !.todo = call[c].todo,
                                                   !.host = h, !.found = u]]
    BY <1>1, <1>2 DEF CallType, Goto
  <2> HIDE DEF h, u
  <2> QED BY <1>1, <1>2, <2>1, <2>2, CreateMoves
<1> QED BY <1>2, Ended DEF CreateStepFails

LEMMA MakeMoves ==
    ASSUME IInv, world' = world, NEW c \in Calls, ShareCreate(c) \/ ShareClone(c)
    PROVE  CallInv(c)' /\ OnlyMoves(c)
<1>1. call[c].pc \in {"ShareCreate", "ShareClone"} /\ share \in [Uuids -> ShareType]
  BY DEF ShareCreate, ShareClone, At, IInv, TypeOK
<1>2. \A v \in Uuids : BornShare(v) => share'[v] = share[v]
  <2>1. UNCHANGED share \/ \E u, r : u \in UnbornShares /\ share' = [share EXCEPT ![u] = r]
    <3>1. UNCHANGED share \/ Makes(c)
      BY <1>1, StepShares DEF ShareEffect, Sets, Drops, Step
    <3> QED BY <3>1 DEF Makes, NewShare
  <2> QED BY <1>1, <2>1 DEF UnbornShares, BornShare
<1>3. \/ Goto(c, "ShareGet") /\ UNCHANGED clusterVars
      \/ CreateStepFails(c)
      \/ Refuse(c)
  BY DEF ShareCreate, ShareClone
<1> QED BY <1>1, <1>2, <1>3, CreateGoes, Ended

LEMMA GetMoves ==
    ASSUME IInv, world' = world, NEW c \in Calls, ShareGet(c)
    PROVE  CallInv(c)' /\ OnlyMoves(c)
<1>1. /\ CallInv(c) /\ call[c] \in CallType /\ call \in [Calls -> CallType]
      /\ call[c].pc = "ShareGet" /\ Busy(c) /\ UNCHANGED share
      /\ call[c].op = "create" /\ ~call[c].byName /\ share \in [Uuids -> ShareType]
  BY DEF ShareGet, At, Busy, IInv, TypeOK, CallInv, RequestInv
<1>2. CASE CreateStepFails(c)
  BY <1>1, <1>2, CreateGoes
<1>3. ASSUME NEW u \in OwnShares(c)
      PROVE  /\ u \in Uuids /\ Live(u) /\ BornShare(u) /\ share[u].quota \in Quotas
             /\ share[u].dsm = call[c].host /\ share[u].name = ShareOf[call[c].name]
  BY <1>1 DEF OwnShares, SharesNamed, ShareType, Live, BornShare
<1>4. ASSUME NEW u \in OwnShares(c), CreateReply(c, u, share[u].quota)
      PROVE  CallInv(c)' /\ OnlyMoves(c)
  BY <1>3, <1>4, Ended
<1>5. ASSUME NEW u \in OwnShares(c), Clones(c), share[u].quota = 0, UNCHANGED clusterVars,
             call' = [call EXCEPT ![c].pc = "ShareSet", ![c].found = u]
      PROVE  CallInv(c)' /\ OnlyMoves(c)
  <2>1. QuotaLost
    BY <1>3, <1>5 DEF IInv, ShareInv
  <2>2. PICK D \in SUBSET Dsms : D = call[c].todo
    BY <1>1 DEF CallType
  <2>3. PICK h \in Dsms \cup {None} : h = call[c].host
    BY <1>1 DEF CallType
  <2> PICK p \in {"Pick", "ShareCreate", "ShareGet", "ShareSet"} : p = "ShareSet"
    OBVIOUS
  <2>4. call' = [call EXCEPT ![c] = [call[c] EXCEPT !.pc = p, !.todo = D, !.host = h, !.found = u]]
    BY <1>1, <1>5, <2>2, <2>3 DEF CallType
  <2>5. /\ u \in Uuids /\ u # None /\ BornShare(u) /\ share[u].dsm = h /\ Live(u)
        /\ share[u].name = ShareOf[call[c].name] /\ share[u].quota = 0
        /\ \A v \in Uuids : BornShare(v) => share'[v] = share[v]
    BY <1>1, <1>3, <1>5, <2>3, NoneIsNone
  <2>6. /\ Busy(c) /\ call[c].op = "create" /\ ~call[c].byName /\ UNCHANGED clusterVars
        /\ Clones(c) /\ QuotaLost /\ u \in Uuids \cup {None}
        /\ p \notin {"Pick", "ShareCreate"}
        /\ ~Clones(c) => u = None
    BY <1>1, <1>5, <2>1, <2>5
  <2> QED BY <2>4, <2>5, <2>6, CreateMoves, ZenonT(30)
<1> QED BY <1>2, <1>4, <1>5 DEF ShareGet, OwnShares

LEMMA ChangeMoves ==
    ASSUME IInv, NEW c \in Calls, ShareSet(c) \/ ShareDelete(c)
    PROVE  CallInv(c)' /\ OnlyMoves(c)
<1>1. CASE ShareSet(c)
  <2>1. /\ call[c].found \in Uuids /\ BytesToMBCeil(call[c].size) \in Quotas
    BY <1>1, FoundNamed, QuotasTyped DEF ShareSet, At, IInv, TypeOK, CallType
  <2> QED BY <1>1, <2>1, Ended DEF ShareSet
<1>2. CASE ShareDelete(c)
  BY <1>2, Ended DEF ShareDelete
<1> QED BY <1>1, <1>2

LEMMA StepCall ==
    ASSUME IInv, world' = world, NEW c \in Calls, Step(c)
    PROVE  CallInv(c)' /\ OnlyMoves(c) /\ Busy(c) /\ UNCHANGED wish
<1>1. Busy(c) /\ UNCHANGED wish
  BY DEF Step, ShareList, ListEnd, Pick, ShareCreate, ShareClone, ShareGet, ShareSet, ShareDelete,
     At, Busy
<1>2. CallInv(c)' /\ OnlyMoves(c)
  BY ListMoves, ListEndMoves, PickMoves, MakeMoves, GetMoves, ChangeMoves DEF Step
<1> QED BY <1>1, <1>2

LEMMA StepInv ==
    ASSUME IInv, NamesApart, world' = world, NEW c \in Calls, Step(c)
    PROVE  IInv'
<1>1. CallInv(c)' /\ OnlyMoves(c) /\ Busy(c) /\ UNCHANGED wish
  BY StepCall
<1>2. ShareEffect(c) /\ ClusterEffect(c)
  BY StepShares, StepCluster
<1>3. Lasting /\ PhaseMonotone /\ ShareInv'
  BY <1>1, <1>2, EffectLasts, EffectMonotone
<1>4. (\A n \in Names : ClusterInv(n)') /\ BoundKept'
  BY <1>1, <1>2, EffectCluster
<1>5. ASSUME NEW k \in Calls, k # c PROVE CallInv(k)'
  <2>1. call'[k] = call[k]
    BY <1>1, <1>5 DEF OnlyMoves
  <2>2. Undisturbed(k)
    BY <1>1, <1>2, <1>5, EffectUndisturbed
  <2> QED BY <1>3, <2>1, <2>2, OtherCall
<1>6. TypeOK'
  BY StepTyped
<1> QED BY <1>1, <1>3, <1>4, <1>5, <1>6 DEF IInv

-----------------------------------------------------------------------------
(* The steps of the cluster and the mishaps leave the shares alone.        *)

LEMMA QuietCluster ==
    ASSUME IInv, world' = world, UNCHANGED <<share, volumeId, capacity, wish>>,
           \A n \in Names : phase'[n] = phase[n] \/ (phase[n] = "bound" /\ phase'[n] = "released")
    PROVE  /\ Lasting /\ PhaseMonotone /\ ShareInv'
           /\ (\A n \in Names : ClusterInv(n)') /\ BoundKept'
<1>1. Lasting
  BY DEF Lasting, BornShare, Live
<1>2. PhaseMonotone
  BY DEF PhaseMonotone, Kept
<1>3. ShareInv'
  BY SameWorld DEF IInv, ShareInv, BornShare, Live
<1>4. ASSUME NEW n \in Names PROVE ClusterInv(n)'
  BY <1>4, SameWorld DEF IInv, ClusterInv, BornShare, Promise
<1>5. BoundKept'
  BY SameWorld DEF IInv, BoundKept, Live
<1> QED BY <1>1, <1>2, <1>3, <1>4, <1>5

\* A handler that stays while others start, end or are given up.
LEMMA QuietCall ==
    ASSUME IInv, world' = world, UNCHANGED <<share, volumeId>>,
           \A n \in Names : phase'[n] = phase[n] \/ (phase[n] = "bound" /\ phase'[n] = "released"),
           NEW k \in Calls, call'[k] = call[k],
           Patient /\ Busy(k) => \A j \in Calls : Busy(j)' /\ call'[j].name = call[k].name => j = k
    PROVE  CallInv(k)'
<1>1. Lasting
  BY DEF Lasting, BornShare, Live
<1>2. PhaseMonotone
  BY DEF PhaseMonotone, Kept
<1>3. Busy(k) => call[k].name \in Names
  BY DEF IInv, CallInv, RequestInv
<1>4. Undisturbed(k)
  BY <1>3 DEF Undisturbed, Live
<1> QED BY <1>1, <1>2, <1>4, OtherCall

LEMMA StartInv ==
    ASSUME IInv, world' = world, NEW c \in Calls, NEW n \in Names, NEW op \in {"create", "delete", "expand"},
           NEW id \in Uuids \cup {None}, NEW size \in Sizes \cup {0},
           Start(c, op, n, id, size),
           op = "create" =>
             /\ phase[n] = "wanted" /\ size = Request[n].size
             /\ Request[n].source # None => id \in Uuids,
           op = "delete" => phase[n] = "released" /\ id = volumeId[n],
           op = "expand" =>
             /\ phase[n] = "bound" /\ id = volumeId[n] /\ size \in Sizes
             /\ size \in world.wishes[n] /\ Request[n].size <= size
    PROVE  IInv'
<1> DEFINE x == [IdleCall EXCEPT
                   !.pc = "List", !.op = op, !.name = n, !.id = id, !.size = size,
                   !.live = TRUE, !.byName = (op = "create"), !.todo = Dsms]
<1>1. /\ TypeOK /\ ~Busy(c) /\ ~LiveCall(n)
      /\ UNCHANGED <<share, phase, volumeId, capacity, wish, faults>>
      /\ call' = [call EXCEPT ![c] = x]
  BY DEF Start, IInv, clusterVars
<1>2. /\ x \in CallType /\ x.pc = "List" /\ x.op = op /\ x.name = n /\ x.id = id /\ x.size = size
      /\ x.live = TRUE /\ x.byName = (op = "create") /\ x.todo = Dsms /\ x.found = None
  BY QuotasTyped DEF IdleCall, CallType
<1> HIDE DEF x
<1>3. call'[c] = x /\ \A k \in Calls : k # c => call'[k] = call[k]
  BY <1>1 DEF TypeOK
<1>4. Patient => \A k \in Calls : k # c /\ Busy(k) => call[k].name # n
  BY <1>1 DEF IInv, CallInv, PatientInv, LiveCall
<1>5. ASSUME NEW k \in Calls, k # c PROVE CallInv(k)'
  <2>1. Patient /\ Busy(k) => \A j \in Calls : Busy(j)' /\ call'[j].name = call[k].name => j = k
    BY <1>2, <1>3, <1>4, <1>5 DEF IInv, CallInv, PatientInv, Busy
  <2> QED BY <1>1, <1>3, <1>5, <2>1, QuietCall
<1>6. CallInv(c)'
  <2>0. QuotaLost' = QuotaLost /\ world'.wishes = world.wishes /\ (Patient' <=> Patient)
    BY SameWorld
  <2>1. RequestInv(c)'
    BY <1>1, <1>2, <1>3, <2>0 DEF RequestInv, Busy, Kept, Clones
  <2>2. FoundInv(c)'
    BY <1>2, <1>3 DEF FoundInv
  <2>3. PatientInv(c)'
    <3>1. \A k \in Calls : Patient /\ Busy(k)' /\ call'[k].name = n => k = c
      BY <1>3, <1>4 DEF Busy
    <3>2. op = "expand" => Live(volumeId[n])
      BY DEF IInv, BoundKept
    <3> QED BY <1>1, <1>2, <1>3, <2>0, <3>1, <3>2 DEF PatientInv, Live
  <2>4. SeenInv(c)'
    <3>1. ASSUME op = "delete", Live(id) PROVE share[id].dsm \in Dsms
      BY <3>1 DEF IInv, ClusterInv, ShareInv, BornShare, Live
    <3> QED BY <1>1, <1>2, <1>3, <3>1 DEF SeenInv, Live
  <2> QED BY <2>1, <2>2, <2>3, <2>4 DEF CallInv
<1>7. TypeOK'
  BY <1>1, <1>2, SameWorld DEF TypeOK
<1>8. ShareInv' /\ (\A m \in Names : ClusterInv(m)') /\ BoundKept'
  BY <1>1, QuietCluster
<1> QED BY <1>5, <1>6, <1>7, <1>8 DEF IInv

LEMMA InitInv == Init => IInv
<1> SUFFICES ASSUME Init PROVE IInv
  OBVIOUS
<1>1. TypeOK
  BY QuotasTyped, IdleTyped, WorldTyped DEF Init, TypeOK, ShareType
<1>2. ShareInv /\ BoundKept /\ \A n \in Names : ClusterInv(n)
  BY WorldTyped DEF Init, ShareInv, BoundKept, ClusterInv, BornShare, Live
<1>3. \A c \in Calls : CallInv(c)
  BY DEF Init, CallInv, RequestInv, FoundInv, PatientInv, SeenInv, IdleCall, Busy
<1> QED BY <1>1, <1>2, <1>3 DEF IInv, Init

LEMMA CapacityCovers ==
    ASSUME NEW n \in Names, ClusterInv(n), phase[n] # "wanted"
    PROVE  \E t \in Sizes : /\ Request[n].size <= t /\ t <= capacity[n] /\ capacity[n] < t + MB
                            /\ capacity[n] \in Nat
<1>1. PICK t \in Sizes : /\ Request[n].size <= t
                         /\ capacity[n] = MBToBytes(BytesToMBCeil(t))
  BY DEF ClusterInv, Promise
<1>2. /\ t \in Nat /\ BytesToMBCeil(t) \in Nat
  BY SizesAreNat, CeilNat
<1>3. MBToBytes(BytesToMBCeil(t)) \in Nat
  BY <1>2, MBPositive, SMT DEF MBToBytes
<1> QED BY <1>1, <1>2, <1>3, CeilBounds

LEMMA NextInv ==
    ASSUME IInv, NamesApart, [Next /\ UNCHANGED world]_<<vars, world>>
    PROVE  IInv'
<1>0. world' = world /\ (Next \/ UNCHANGED vars)
  OBVIOUS
<1>1. ASSUME NEW c \in Calls, Step(c) PROVE IInv'
  BY <1>0, <1>1, StepInv
<1>2. ASSUME NEW c \in Calls, NEW n \in Names, StartCreate(c, n) PROVE IInv'
  <2>1. PICK id \in Uuids \cup {None} : id = IF Request[n].source = None THEN None
                                             ELSE volumeId[Request[n].source]
    BY RequestsTyped DEF RequestType, IInv, TypeOK
  <2>2. Request[n].source # None => id \in Uuids
    BY <1>2, <2>1, RequestsTyped DEF StartCreate, RequestType, IInv, BoundKept
  <2>3. Request[n].size \in Sizes
    BY RequestsTyped DEF RequestType
  <2>4. phase[n] = "wanted" /\ Start(c, "create", n, id, Request[n].size)
    BY <1>2, <2>1 DEF StartCreate
  <2> QED BY <1>0, <2>2, <2>3, <2>4, StartInv
<1>3. ASSUME NEW c \in Calls, NEW n \in Names, StartExpand(c, n) PROVE IInv'
  <2>1. /\ phase[n] = "bound" /\ wish[n] > capacity[n]
        /\ Start(c, "expand", n, volumeId[n], wish[n])
    BY <1>3 DEF StartExpand
  <2>2. ClusterInv(n) /\ wish[n] \in Sizes \cup {0} /\ capacity[n] \in Nat /\ volumeId[n] \in Uuids
    BY <2>1 DEF IInv, TypeOK, ClusterInv
  <2>3. PICK t \in Sizes : Request[n].size <= t /\ t <= capacity[n]
    BY <2>1, <2>2, CapacityCovers
  <2>4. Request[n].size \in Nat /\ t \in Nat /\ wish[n] \in Nat
    <3>1. Request[n].size \in Sizes
      BY RequestsTyped DEF RequestType
    <3>2. \A s \in Sizes \cup {0} : s \in Nat
      BY SizesAreNat
    <3> QED BY <2>2, <3>1, <3>2
  <2>5. Request[n].size <= wish[n] /\ wish[n] # 0
    BY <2>1, <2>2, <2>3, <2>4, SMT
  <2>6. PICK id \in Uuids, s \in Sizes : id = volumeId[n] /\ s = wish[n]
    BY <2>2, <2>5
  <2>7. s \in world.wishes[n]
    BY <2>2, <2>5, <2>6 DEF ClusterInv
  <2> QED BY <1>0, <2>1, <2>5, <2>6, <2>7, StartInv
<1>4. ASSUME NEW c \in Calls, NEW n \in Names, StartDelete(c, n) PROVE IInv'
  <2>1. PICK id \in Uuids : id = volumeId[n]
    BY <1>4 DEF StartDelete, IInv, ClusterInv
  <2> QED BY <1>0, <1>4, <2>1, StartInv DEF StartDelete
<1>5. ASSUME NEW n \in Names, Wish(n) PROVE IInv'
  <2>1. /\ UNCHANGED <<share, call, phase, volumeId, capacity, faults>>
        /\ \E s \in world.wishes[n] : wish' = [wish EXCEPT ![n] = s]
    BY <1>5 DEF Wish, clusterVars
  <2>2. TypeOK'
    <3>1. world.wishes[n] \subseteq Sizes
      BY WorldTyped DEF IInv
    <3> QED BY <1>0, <2>1, <3>1, SameWorld DEF IInv, TypeOK
  <2>3. ASSUME NEW m \in Names PROVE ClusterInv(m)'
    BY <1>0, <2>1, <2>3, SameWorld DEF IInv, TypeOK, ClusterInv, BornShare, Promise
  <2>4. ASSUME NEW k \in Calls PROVE CallInv(k)'
    <3>1. Patient /\ Busy(k) => \A j \in Calls : Busy(j)' /\ call'[j].name = call[k].name => j = k
      BY <2>1 DEF IInv, CallInv, PatientInv, Busy
    <3> QED BY <1>0, <2>1, <3>1, QuietCall
  <2>5. ShareInv' /\ BoundKept'
    BY <1>0, <2>1, SameWorld DEF IInv, ShareInv, BoundKept, BornShare, Live
  <2> QED BY <1>0, <2>2, <2>3, <2>4, <2>5 DEF IInv
<1>6. ASSUME NEW n \in Names, Release(n) PROVE IInv'
  <2>1. /\ UNCHANGED <<share, call, volumeId, capacity, wish, faults>>
        /\ \A m \in Names : phase'[m] = phase[m] \/ (phase[m] = "bound" /\ phase'[m] = "released")
        /\ phase' \in [Names -> {"wanted", "bound", "released", "deleted"}]
    BY <1>6 DEF Release, IInv, TypeOK
  <2>2. TypeOK'
    BY <1>0, <2>1, SameWorld DEF IInv, TypeOK
  <2>3. ASSUME NEW k \in Calls PROVE CallInv(k)'
    <3>1. Patient /\ Busy(k) => \A j \in Calls : Busy(j)' /\ call'[j].name = call[k].name => j = k
      BY <2>1 DEF IInv, CallInv, PatientInv, Busy
    <3> QED BY <1>0, <2>1, <3>1, QuietCall
  <2> QED BY <1>0, <2>1, <2>2, <2>3, QuietCluster DEF IInv
<1>7. ASSUME NEW c \in Calls, Deadline(c) PROVE IInv'
  <2>1. /\ UNCHANGED <<share, phase, volumeId, capacity, wish>>
        /\ call' = [call EXCEPT ![c].live = FALSE]
        /\ Busy(c) /\ ~Patient /\ Mishap("Deadline")
    BY <1>7 DEF Deadline, clusterVars, Mishap, Patient
  <2>2. /\ call \in [Calls -> CallType] /\ call[c] \in CallType
        /\ call'[c] = [call[c] EXCEPT !.live = FALSE]
        /\ \A k \in Calls : k # c => call'[k] = call[k]
    BY <2>1 DEF IInv, TypeOK
  <2>3. TypeOK'
    <3>1. faults' \in 0..MaxFaults'
      BY <1>0, <2>1, FaultsTyped DEF IInv
    <3>2. call' \in [Calls -> CallType]
      <4>1. [call[c] EXCEPT !.live = FALSE] \in CallType
        BY <2>2 DEF CallType
      <4> QED BY <2>1, <2>2, <4>1
    <3> QED BY <2>1, <3>1, <3>2 DEF IInv, TypeOK
  <2>4. ASSUME NEW k \in Calls, k # c PROVE CallInv(k)'
    BY <1>0, <2>1, <2>2, <2>4, QuietCall
  <2>5. CallInv(c)'
    <3>1. /\ call'[c].pc = call[c].pc /\ call'[c].op = call[c].op /\ call'[c].name = call[c].name
          /\ call'[c].id = call[c].id /\ call'[c].size = call[c].size
          /\ call'[c].byName = call[c].byName /\ call'[c].todo = call[c].todo
          /\ call'[c].found = call[c].found /\ call'[c].quota = call[c].quota
          /\ call'[c].host = call[c].host
      BY <2>2 DEF CallType
    <3>2. CallInv(c) /\ (Patient' <=> Patient) /\ Faulty' = Faulty /\ QuotaLost' = QuotaLost
          /\ world'.wishes = world.wishes
      BY <1>0, SameWorld DEF IInv
    <3>3. RequestInv(c)'
      BY <2>1, <3>1, <3>2 DEF CallInv, RequestInv, Busy, Kept, Clones
    <3>4. FoundInv(c)'
      BY <2>1, <3>1, <3>2 DEF CallInv, FoundInv, Busy, Kept, Clones, FoundOwn, BornShare, Live
    <3>5. PatientInv(c)' /\ SeenInv(c)'
      BY <2>1, <3>1, <3>2 DEF CallInv, PatientInv, SeenInv, Live
    <3> QED BY <3>3, <3>4, <3>5 DEF CallInv
  <2>6. ShareInv' /\ (\A n \in Names : ClusterInv(n)') /\ BoundKept'
    BY <1>0, <2>1, QuietCluster
  <2> QED BY <1>0, <2>3, <2>4, <2>5, <2>6 DEF IInv
<1>8. CASE Restart
  <2>1. /\ UNCHANGED <<share, phase, volumeId, capacity, wish>>
        /\ \A k \in Calls : call'[k] = IdleCall
        /\ call' \in [Calls -> CallType]
    BY <1>8, IdleTyped DEF Restart, clusterVars
  <2>2. faults' \in 0..MaxFaults'
    BY <1>0, <1>8, FaultsTyped DEF Restart, IInv
  <2>3. TypeOK'
    BY <2>1, <2>2 DEF IInv, TypeOK
  <2>4. \A k \in Calls : CallInv(k)'
    BY <2>1, IdleInv
  <2>5. ShareInv' /\ (\A n \in Names : ClusterInv(n)') /\ BoundKept'
    BY <1>0, <2>1, QuietCluster
  <2> QED BY <1>0, <2>3, <2>4, <2>5 DEF IInv
<1>9. CASE UNCHANGED vars
  <2>1. UNCHANGED <<share, call, phase, volumeId, capacity, wish, faults>>
    BY <1>9 DEF vars, clusterVars
  <2>2. TypeOK'
    BY <1>0, <2>1, SameWorld DEF IInv, TypeOK
  <2>3. ASSUME NEW k \in Calls PROVE CallInv(k)'
    <3>1. Patient /\ Busy(k) => \A j \in Calls : Busy(j)' /\ call'[j].name = call[k].name => j = k
      BY <2>1 DEF IInv, CallInv, PatientInv, Busy
    <3> QED BY <1>0, <2>1, <3>1, QuietCall
  <2> QED BY <1>0, <2>1, <2>2, <2>3, QuietCluster DEF IInv
<1> QED BY <1>0, <1>1, <1>2, <1>3, <1>4, <1>5, <1>6, <1>7, <1>8, <1>9 DEF Next, Finished

\* Every variable keeps its type in every world: no handler, however late, puts
\* a share, a request or a promise of the cluster out of shape.
THEOREM VolumesTyped == ASSUME NamesApart PROVE Spec => []TypeOK
<1>1. Init => IInv
  BY InitInv
<1>2. IInv /\ [Next /\ UNCHANGED world]_<<vars, world>> => IInv'
  BY NextInv
<1>3. IInv => TypeOK
  BY DEF IInv
<1> QED BY <1>1, <1>2, <1>3, PTL DEF Spec

\* A bound volume is a live share of its own name with a quota until its release,
\* whatever fails, crashes or comes late, if share names tell volumes apart; the
\* quota holds the capacity promised last where no out-of-date handler can set it.
THEOREM VolumesKept == ASSUME NamesApart PROVE Spec => []BoundKept
<1>1. Init => IInv
  BY InitInv
<1>2. IInv /\ [Next /\ UNCHANGED world]_<<vars, world>> => IInv'
  BY NextInv
<1>3. IInv => BoundKept
  BY DEF IInv
<1> QED BY <1>1, <1>2, <1>3, PTL DEF Spec

\* The capacity a volume is bound or expanded with is a size that was asked for,
\* rounded up to whole megabytes once, whatever path the answer took.
THEOREM CapacityRounded == ASSUME NamesApart PROVE Spec => []RoundedOnce
<1>1. Init => IInv
  BY InitInv
<1>2. IInv /\ [Next /\ UNCHANGED world]_<<vars, world>> => IInv'
  BY NextInv
<1>3. IInv => RoundedOnce
  <2> SUFFICES ASSUME IInv, NEW n \in Names, phase[n] = "bound"
               PROVE  \E s \in Sizes : Request[n].size <= s /\ s <= capacity[n] /\ capacity[n] < s + MB
    BY DEF RoundedOnce
  <2>1. ClusterInv(n)
    BY DEF IInv
  <2> QED BY <2>1, CapacityCovers
<1> QED BY <1>1, <1>2, <1>3, PTL DEF Spec

\* If the cluster waits for every answer then no request makes a quota smaller:
\* the quota that ExpandVolume compared is still the share's when it sets the
\* new one.
THEOREM QuotasOnlyGrow == ASSUME NamesApart PROVE Spec => NeverShrinks
<1>1. Init => IInv
  BY InitInv
<1>2. IInv /\ [Next /\ UNCHANGED world]_<<vars, world>> => IInv'
  BY NextInv
<1>3. IInv /\ [Next /\ UNCHANGED world]_<<vars, world>> =>
        [\A u \in Uuids : "Deadline" \notin Faulty /\ Live(u) /\ share'[u].st = "live" =>
            share'[u].quota >= share[u].quota]_vars
  <2> SUFFICES ASSUME IInv, [Next /\ UNCHANGED world]_<<vars, world>>,
                      NEW u \in Uuids, Patient, Live(u)
               PROVE  share'[u].quota >= share[u].quota
    BY DEF Patient
  <2>0. world' = world /\ (Next \/ UNCHANGED vars)
    OBVIOUS
  <2>1. share[u].quota \in Nat /\ BornShare(u)
    BY QuotasTyped DEF IInv, TypeOK, ShareType, BornShare, Live
  <2>2. CASE UNCHANGED share
    BY <2>1, <2>2, SMT
  <2>3. ASSUME NEW c \in Calls, Step(c) PROVE share'[u].quota >= share[u].quota
    <3>1. OthersKept(c)
      BY <2>0, <2>3, StepShares, EffectLasts
    <3>2. CASE share'[u].quota = share[u].quota
      BY <2>1, <3>2, SMT
    <3>3. CASE share'[u].quota # share[u].quota
      <4>1. /\ u \in OwnShares(c) /\ call[c].pc = "ShareSet"
            /\ share'[u].quota = BytesToMBCeil(call[c].size)
        BY <2>1, <3>1, <3>3 DEF OthersKept, Sets
      <4>2. BytesToMBCeil(call[c].size) \in Nat
        BY QuotasTyped DEF IInv, TypeOK, CallType
      <4>3. share[u].quota <= BytesToMBCeil(call[c].size)
        BY <4>1, SetsMore
      <4> QED BY <2>1, <4>1, <4>2, <4>3, SMT
    <3> QED BY <3>2, <3>3
  <2> QED BY <2>0, <2>2, <2>3 DEF Next, StartCreate, StartExpand, StartDelete, Start, Wish, Release,
          Deadline, Restart, Finished, vars
<1> QED BY <1>1, <1>2, <1>3, PTL DEF Spec, NeverShrinks

-----------------------------------------------------------------------------
(* SmbVolumes implements VolumeStore.                                      *)

\* Share names are unique on a server.
LEMMA OneOwn ==
    ASSUME IInv, NEW c \in Calls
    PROVE  OwnShares(c) = {} \/ \E u \in Uuids : OwnShares(c) = {u}
BY DEF OwnShares, SharesNamed, IInv, ShareInv

\* A handler that deletes or sets quotas leaves other names' volumes alone.
LEMMA DropsUnbound ==
    ASSUME IInv, NamesApart, NEW c \in Calls, Drops(c), NEW u \in OwnShares(c)
    PROVE  ~Store!Bound(u)
<1> SUFFICES ASSUME NEW n \in Names, phase[n] = "bound", volumeId[n] = u
             PROVE  FALSE
  BY DEF Store!Bound
<1>1. Busy(c) /\ CallInv(c) /\ ClusterInv(n)
  BY DEF Drops, Busy, IInv
<1>2. share[u].name = ShareOf[n]
  BY <1>1 DEF ClusterInv
<1>3. n = call[c].name
  BY <1>1, <1>2, OwnName
<1> QED BY <1>1, <1>3 DEF Drops, CallInv, RequestInv, Kept

LEMMA SetsUsable ==
    ASSUME IInv, NEW c \in Calls, Sets(c)
    PROVE  UsableShares' = UsableShares \cup OwnShares(c)
<1>1. /\ share \in [Uuids -> ShareType] /\ Busy(c) /\ call[c].op \in {"create", "expand"}
  BY DEF IInv, TypeOK, CallInv, RequestInv, Sets, Busy
<1>2. BytesToMBCeil(call[c].size) # 0
  BY <1>1, Asked
<1>3. \A u \in OwnShares(c) : u \in Uuids /\ Live(u)
  BY DEF OwnShares, SharesNamed
<1>4. \A u \in Uuids : /\ Live(u)' <=> Live(u)
                       /\ u \in OwnShares(c) => share'[u].quota # 0
                       /\ u \notin OwnShares(c) => share'[u].quota = share[u].quota
  BY <1>1, <1>2 DEF Sets, Live, ShareType
<1> QED BY <1>3, <1>4 DEF UsableShares, Live

LEMMA DropsUsable ==
    ASSUME IInv, NEW c \in Calls, Drops(c)
    PROVE  UsableShares' = UsableShares \ OwnShares(c)
<1>1. share \in [Uuids -> ShareType]
  BY DEF IInv, TypeOK
<1>2. \A u \in Uuids : /\ Live(u)' <=> Live(u) /\ u \notin OwnShares(c)
                       /\ share'[u].quota = share[u].quota
  BY <1>1 DEF Drops, Live, ShareType
<1> QED BY <1>2 DEF UsableShares, Live

LEMMA MakesUsable ==
    ASSUME IInv, NEW c \in Calls, Makes(c)
    PROVE  UsableShares' = UsableShares \/ \E u \in Uuids : UsableShares' = UsableShares \cup {u}
<1>1. PICK u \in UnbornShares, q \in Quotas :
        NewShare(u, call[c].host, ShareOf[call[c].name], q)
  BY DEF Makes
<1>2. /\ u \in Uuids /\ ~Live(u) /\ (Live(u)' /\ share'[u].quota = q)
      /\ \A v \in Uuids : v # u => share'[v] = share[v]
  BY <1>1 DEF NewShare, UnbornShares, Live, IInv, TypeOK
<1>3. CASE q = 0
  BY <1>2, <1>3 DEF UsableShares, Live
<1>4. CASE q # 0
  BY <1>2, <1>4 DEF UsableShares, Live
<1> QED BY <1>2, <1>3, <1>4

LEMMA StepStore ==
    ASSUME "ShareList" \notin Faulty, IInv, NamesApart, NEW c \in Calls, Step(c), world' = world
    PROVE  Store!Next \/ UNCHANGED Store!vars
<1>1. /\ ShareEffect(c) /\ ClusterEffect(c) /\ Busy(c) /\ CallInv(c)
      /\ call[c].name \in Names /\ TypeOK
  BY StepShares, StepCluster, StepCall DEF IInv, CallInv, RequestInv
<1>2. \A n \in Names : phase[n] = "bound" => volumeId[n] \in UsableShares
  BY DEF IInv, BoundKept, UsableShares
<1>3. CASE UNCHANGED <<phase, volumeId>>
  <2>1. CASE UNCHANGED share
    BY <1>3, <2>1 DEF Store!vars, UsableShares, Live
  <2>2. CASE Makes(c)
    BY <1>3, <2>2, MakesUsable DEF Store!vars, Store!Next, Store!Appear
  <2>3. CASE Sets(c)
    <3>1. CASE OwnShares(c) = {}
      BY <1>3, <2>3, <3>1, SetsUsable DEF Store!vars
    <3>2. ASSUME NEW u \in Uuids, OwnShares(c) = {u} PROVE Store!Next
      BY <1>3, <2>3, <3>2, SetsUsable DEF Store!Next, Store!Appear
    <3> QED BY <3>1, <3>2, OneOwn
  <2>4. CASE Drops(c)
    <3>1. CASE OwnShares(c) = {}
      BY <1>3, <2>4, <3>1, DropsUsable DEF Store!vars
    <3>2. ASSUME NEW u \in Uuids, OwnShares(c) = {u} PROVE Store!Next
      <4>1. ~Store!Bound(u)
        BY <2>4, <3>2, DropsUnbound
      <4>2. Store!Vanish(u)
        BY <1>3, <2>4, <3>2, <4>1, DropsUsable DEF Store!Vanish
      <4> QED BY <4>2 DEF Store!Next
    <3> QED BY <3>1, <3>2, OneOwn
  <2> QED BY <1>1, <2>1, <2>2, <2>3, <2>4 DEF ShareEffect
<1>4. CASE Binds(c)
  <2>1. PICK n \in Names : n = call[c].name
    BY <1>1
  <2>2. PICK u \in Uuids :
          /\ Live(u)' /\ share'[u].quota = BytesToMBCeil(call[c].size)
          /\ UNCHANGED share \/ (Sets(c) /\ u \in OwnShares(c))
          /\ phase' = [phase EXCEPT ![n] = "bound"]
          /\ volumeId' = [volumeId EXCEPT ![n] = u]
    BY <1>4, <2>1 DEF Binds
  <2>3. BytesToMBCeil(call[c].size) # 0
    BY <1>1, <1>4, Asked DEF Binds
  <2>4. u \in UsableShares'
    BY <2>2, <2>3 DEF UsableShares, Live
  <2>5. UsableShares' = UsableShares \cup {u}
    <3>1. CASE UNCHANGED share
      BY <2>4, <3>1 DEF UsableShares, Live
    <3>2. CASE Sets(c) /\ u \in OwnShares(c)
      BY <3>2, SetsUsable, OneOwn
    <3> QED BY <2>2, <3>1, <3>2
  <2>6. Store!Create(n, u)
    BY <1>4, <2>1, <2>2, <2>5 DEF Store!Create, Binds, Answers
  <2> QED BY <2>6 DEF Store!Next
<1>5. CASE TellsDeleted(c)
  <2>1. PICK n \in Names : n = call[c].name
    BY <1>1
  <2>2. /\ phase[n] = "released" /\ volumeId' = volumeId
        /\ phase' = [phase EXCEPT ![n] = "deleted"]
        /\ call[c].op = "delete" /\ call[c].id = volumeId[n]
    BY <1>1, <1>5, <2>1 DEF TellsDeleted, Answers, CallInv, RequestInv
  <2>3. PICK v \in Uuids : v = volumeId[n] /\ BornShare(v) /\ share[v].name = ShareOf[n]
    BY <2>2 DEF IInv, ClusterInv
  <2>4. CASE Drops(c)
    <3>1. v \notin UsableShares'
      <4>1. /\ call[c].found = v /\ share[v].dsm = call[c].host
        BY <1>1, <2>2, <2>3, <2>4, NoneIsNone DEF Drops, CallInv, FoundInv
      <4>2. Live(v) => v \in OwnShares(c)
        BY <2>1, <2>3, <4>1 DEF OwnShares, SharesNamed
      <4> QED BY <2>4, <4>2, DropsUsable DEF UsableShares
    <3>2. UsableShares' = UsableShares \ (OwnShares(c) \cap UsableShares)
      BY <2>4, DropsUsable
    <3>3. \A u \in OwnShares(c) \cap UsableShares : ~Store!Bound(u)
      BY <2>4, DropsUnbound
    <3>4. Store!Delete(n)
      <4> DEFINE gone == OwnShares(c) \cap UsableShares
      <4>1. gone \in SUBSET UsableShares
        OBVIOUS
      <4> HIDE DEF gone
      <4> QED BY <2>2, <2>3, <3>1, <3>2, <3>3, <4>1 DEF Store!Delete, gone
    <3> QED BY <3>4 DEF Store!Next
  <2>5. CASE call[c].pc = "List" /\ call[c].todo = {} /\ call[c].found = None /\ UNCHANGED share
    <3>1. ~Live(v)
      BY <1>1, <2>2, <2>3, <2>5 DEF CallInv, SeenInv
    <3>2. UsableShares' = UsableShares /\ v \notin UsableShares'
      BY <2>5, <3>1 DEF UsableShares, Live
    <3>3. Store!Delete(n)
      <4>1. {} \in SUBSET UsableShares /\ UsableShares' = UsableShares \ {}
        BY <3>2
      <4> QED BY <2>2, <2>3, <3>2, <4>1 DEF Store!Delete
    <3> QED BY <3>3 DEF Store!Next
  <2> QED BY <1>5, <2>4, <2>5 DEF TellsDeleted
<1> QED BY <1>1, <1>3, <1>4, <1>5 DEF ClusterEffect, Tells, TellsExpanded, clusterVars

\* SMB volumes are the volume store that VolumeStore describes, as long as no
\* listing of shares fails: each call of each handler, answered, lost, late or
\* cut off by a crash, is a step of the store or none.
THEOREM SharesAreStore == ASSUME NamesApart PROVE Spec => ImplementsStore
<1>1. Init => IInv /\ Store!Init
  <2>1. Init => UsableShares = {}
    BY DEF Init, UsableShares, Live
  <2> QED BY <2>1, InitInv DEF Init, Store!Init
<1>2. IInv /\ [Next /\ UNCHANGED world]_<<vars, world>> => IInv'
  BY NextInv
<1>3. IInv /\ [Next /\ UNCHANGED world]_<<vars, world>> =>
        [Store!Next \/ "ShareList" \in Faulty]_(Store!vars)
  <2> SUFFICES ASSUME IInv, [Next /\ UNCHANGED world]_<<vars, world>>, "ShareList" \notin Faulty
               PROVE  Store!Next \/ UNCHANGED Store!vars
    OBVIOUS
  <2>0. world' = world /\ (Next \/ UNCHANGED vars)
    OBVIOUS
  <2>1. ASSUME NEW c \in Calls, Step(c) PROVE Store!Next \/ UNCHANGED Store!vars
    BY <2>0, <2>1, StepStore
  <2>2. ASSUME UNCHANGED <<share, phase, volumeId>> PROVE UNCHANGED Store!vars
    BY <2>2 DEF Store!vars, UsableShares, Live
  <2>3. ASSUME NEW n \in Names, Release(n) PROVE Store!Next
    <3>1. Store!Release(n)
      BY <2>3 DEF Release, Store!Release, UsableShares, Live
    <3> QED BY <3>1 DEF Store!Next
  <2>4. ASSUME NEW c \in Calls, NEW n \in Names,
               StartCreate(c, n) \/ StartExpand(c, n) \/ StartDelete(c, n)
        PROVE  UNCHANGED Store!vars
    BY <2>2, <2>4 DEF StartCreate, StartExpand, StartDelete, Start, clusterVars
  <2>5. ASSUME NEW n \in Names, Wish(n) PROVE UNCHANGED Store!vars
    BY <2>2, <2>5 DEF Wish, clusterVars
  <2>6. CASE (\E c \in Calls : Deadline(c)) \/ Restart \/ UNCHANGED vars
    BY <2>2, <2>6 DEF Deadline, Restart, vars, clusterVars
  <2> QED BY <2>0, <2>1, <2>3, <2>4, <2>5, <2>6 DEF Next, Finished
<1> QED BY <1>1, <1>2, <1>3, PTL DEF Spec, ImplementsStore

=============================================================================
