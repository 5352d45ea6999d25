-------------------------- MODULE NodeVolume_proofs --------------------------
(***************************************************************************)
(* What holds of a volume on a node in every world, for every number of    *)
(* pods, handlers and mishaps: first what holds also when the kubelet      *)
(* gives requests up, then what holds if it waits for its answers.         *)
(***************************************************************************)
EXTENDS NodeVolume, SequenceTheorems, TLAPS

\* Where a handler may be in serving a request.
PcsOf(op) ==
    CASE op = "stage" -> {"Permission", "GetVolume", "Session", "Login", "Device", "Probe", "Mount"}
      [] op = "unstage" -> {"Unmount", "GetVolume", "HasSession", "Logout"}
      [] op = "publish" -> {"MkTarget", "GetVolume", "Session", "Login", "Device", "Bind"}
      [] op = "unpublish" -> {"Look", "UnmountTarget", "RemoveTarget"}
      [] op = "expand" -> {"GetVolume", "Rescan", "Resize"}
      [] op = "none" -> {"idle"}

\* The parts of the type invariant.
Flags == staging \in BOOLEAN /\ permitted \in BOOLEAN /\ dir \in [Pods -> BOOLEAN]

KubeletTyped ==
    /\ pod \in [Pods -> {"new", "wanted", "removed"}]
    /\ staged \in {"no", "maybe", "yes"}
    /\ published \in [Pods -> {"no", "maybe", "yes"}]
    /\ granted \in 0..MaxSize

\* The file system is no larger than the device, and the device than the LUN.
SizeOK == /\ size \in [lun : 1..MaxSize, dev : 1..MaxSize, fs : 0..MaxSize]
          /\ size.fs <= size.dev /\ size.dev <= size.lun

\* Nothing is mounted where there is no directory.
DirInv == \A p \in Pods : ~dir[p] => path[p] = <<>>

\* A handler is where its request takes it, at a portal of the target, and the
\* size it was asked for is the LUN's, and the device's after the rescan.
CallInv(c) ==
    /\ call[c].pc \in PcsOf(call[c].op)
    /\ call[c].op \in {"publish", "unpublish"} => call[c].pod \in Pods
    /\ call[c].pc \in {"Session", "Login", "Device"} =>
         call[c].next <= call[c].last /\ call[c].last <= NPortals
    /\ call[c].op = "expand" => /\ call[c].size <= size.lun
                                /\ call[c].pc = "Resize" => call[c].size <= size.dev

NodeOK == sessions \subseteq Portals /\ path \in [Pods -> Seq(Shown)]

IInv == /\ NodeOK /\ Flags /\ SizeOK /\ DirInv /\ KubeletTyped /\ ExpandHonest
        /\ call \in [Calls -> CallType] /\ (\A c \in Calls : CallInv(c))
        /\ faults \in 0..MaxFaults /\ world \in Worlds

\* What a step may never do: report an unpublishing with something on the path.
Honest == \A p \in Pods : published[p] # "no" /\ published'[p] = "no" => path'[p] = <<>>

-----------------------------------------------------------------------------
(* Steps by their effect.                                                  *)

LEMMA WorldTyped ==
  ASSUME world \in Worlds
  PROVE  MaxFaults \in Nat /\ MaxSize \in Nat \ {0} /\ Kind \in {"fs", "block", "smb"}
  BY WorldsTyped DEF MaxFaults, MaxSize, Kind

LEMMA SameWorld ==
  ASSUME world' = world
  PROVE  MaxFaults' = MaxFaults /\ MaxSize' = MaxSize /\ Kind' = Kind /\ (Iscsi' <=> Iscsi)
         /\ Faulty' = Faulty
  BY DEF MaxFaults, MaxSize, Kind, Iscsi, Faulty

LEMMA FaultsTyped ==
  ASSUME IInv, NEW k, NEW o, Mishap(k) \/ Outcome(k, o) \/ UNCHANGED faults
  PROVE  faults' \in 0..MaxFaults
  BY WorldTyped DEF Mishap, Outcome, IInv

\* The sizes only grow.
Grows == size.lun <= size'.lun /\ size.dev <= size'.dev /\ size.fs <= size'.fs

\* The node stays what it is, and its sizes do not shrink.
NodeStep == NodeOK' /\ Flags' /\ SizeOK' /\ DirInv' /\ Grows /\ faults' \in 0..MaxFaults

LEMMA SizesSame ==
  ASSUME IInv, UNCHANGED size, UNCHANGED world
  PROVE  SizeOK' /\ Grows
  BY WorldTyped, SameWorld DEF IInv, SizeOK, Grows

\* A step that leaves the node alone.
LEMMA NodeSame ==
  ASSUME IInv, UNCHANGED <<nodeVars, world>>, faults' \in 0..MaxFaults
  PROVE  NodeStep
<1>1. UNCHANGED <<sessions, staging, dir, path, permitted, size>>
  BY DEF nodeVars
<1>2. SizeOK' /\ Grows
  BY <1>1, SizesSame
<1>3. NodeOK' /\ DirInv'
  BY <1>1 DEF IInv, NodeOK, DirInv
<1>4. Flags'
  BY <1>1 DEF IInv, Flags
<1> QED BY <1>2, <1>3, <1>4 DEF NodeStep

LEMMA IdleTyped ==
  ASSUME world \in Worlds
  PROVE  /\ IdleCall \in CallType
         /\ \A c \in Calls : call'[c] = IdleCall => CallInv(c)'
<1>1. IdleCall \in CallType
  BY WorldTyped DEF IdleCall, CallType
<1>2. IdleCall.pc = "idle" /\ IdleCall.op = "none" /\ "idle" \in PcsOf("none")
  BY DEF IdleCall, PcsOf
<1> QED BY <1>1, <1>2 DEF CallInv

\* A handler that does not move keeps its invariant while the sizes grow.
LEMMA OtherCall ==
  ASSUME IInv, NodeStep, UNCHANGED world, NEW d \in Calls, call'[d] = call[d]
  PROVE  CallInv(d)'
<1>1. CallInv(d) /\ call[d] \in CallType /\ SizeOK /\ SizeOK'
  BY DEF IInv, NodeStep
<1>2. /\ size.lun \in Int /\ size.dev \in Int /\ size'.lun \in Int /\ size'.dev \in Int
      /\ call[d].size \in Int
  BY <1>1, WorldTyped, SameWorld DEF SizeOK, CallType, IInv
<1> QED BY <1>1, <1>2 DEF CallInv, NodeStep, Grows

\* What was granted is still there when nothing is granted.
LEMMA GrantKept ==
  ASSUME IInv, NodeStep, UNCHANGED <<granted, world>>
  PROVE  ExpandHonest'
<1>1. /\ SizeOK /\ SizeOK' /\ granted \in Int
  BY WorldTyped DEF IInv, KubeletTyped, NodeStep
<1>2. /\ size.fs \in Int /\ size.dev \in Int /\ size'.fs \in Int /\ size'.dev \in Int
  BY <1>1, WorldTyped, SameWorld DEF SizeOK, IInv
<1> QED BY <1>1, <1>2, SameWorld DEF IInv, ExpandHonest, NodeStep, Grows

\* A handler that goes on.
LEMMA MoveStep ==
  ASSUME IInv, NodeStep, UNCHANGED <<pod, kubeletVars, world>>,
         NEW c \in Calls, NEW x \in CallType, call' = [call EXCEPT ![c] = x],
         CallInv(c)'
  PROVE  IInv' /\ Honest
<1>1. UNCHANGED <<staged, published, granted>>
  BY DEF kubeletVars
<1>2. KubeletTyped' /\ world' \in Worlds
  BY <1>1, SameWorld DEF IInv, KubeletTyped
<1>3. ExpandHonest'
  BY <1>1, GrantKept
<1>4. call' \in [Calls -> CallType] /\ \A d \in Calls : d # c => call'[d] = call[d]
  BY DEF IInv
<1>5. \A d \in Calls : CallInv(d)'
  BY <1>4, OtherCall
<1>6. CallType' = CallType
  BY SameWorld DEF CallType
<1> QED BY <1>1, <1>2, <1>3, <1>4, <1>5, <1>6, SameWorld DEF IInv, NodeStep, Honest

\* A handler that ends.
LEMMA EndStep ==
  ASSUME IInv, NodeStep, UNCHANGED <<pod, world>>, NEW c \in Calls,
         \/ Refuse(c)
         \/ /\ Done(c)
            /\ call[c].op = "expand" /\ Iscsi =>
                 call[c].size <= IF Kind = "block" THEN size'.dev ELSE size'.fs
            /\ call[c].op = "unpublish" => path'[call[c].pod] = <<>>
  PROVE  IInv' /\ Honest
<1>1. call' = [call EXCEPT ![c] = IdleCall]
  BY DEF Refuse, Done, Return
<1>2. IdleCall \in CallType /\ CallInv(c)'
  BY <1>1, IdleTyped DEF IInv
<1>3. CASE Refuse(c)
  BY <1>1, <1>2, <1>3, MoveStep DEF Refuse
<1>4. CASE /\ Done(c)
           /\ call[c].op = "expand" /\ Iscsi =>
                call[c].size <= IF Kind = "block" THEN size'.dev ELSE size'.fs
           /\ call[c].op = "unpublish" => path'[call[c].pod] = <<>>
  <2>1. call[c] \in CallType /\ CallInv(c)
    BY DEF IInv
  <2>2. /\ staged' \in {"no", "yes", staged}
        /\ \/ granted' = granted
           \/ call[c].op = "expand" /\ granted' = call[c].size
        /\ \/ published' = published
           \/ call[c].op = "publish" /\ published' = [published EXCEPT ![call[c].pod] = "yes"]
           \/ call[c].op = "unpublish" /\ published' = [published EXCEPT ![call[c].pod] = "no"]
    BY <1>4 DEF Done
  <2>3. KubeletTyped'
    <3>1. granted' \in 0..MaxSize
      BY <2>1, <2>2 DEF CallType, IInv, KubeletTyped
    <3>2. published' \in [Pods -> {"no", "maybe", "yes"}]
      BY <2>1, <2>2 DEF CallInv, IInv, KubeletTyped
    <3> QED BY <2>2, <3>1, <3>2, SameWorld DEF IInv, KubeletTyped
  <2>4. ExpandHonest'
    <3>1. CASE granted' = granted
      BY <3>1, GrantKept
    <3>2. CASE call[c].op = "expand" /\ granted' = call[c].size
      BY <1>4, <3>2, SameWorld DEF ExpandHonest
    <3> QED BY <2>2, <3>1, <3>2
  <2>5. Honest
    BY <1>4, <2>1, <2>2 DEF Honest, CallInv, IInv, KubeletTyped
  <2>6. call' \in [Calls -> CallType] /\ \A d \in Calls : d # c => call'[d] = call[d]
    BY <1>1, <1>2 DEF IInv
  <2>7. \A d \in Calls : CallInv(d)'
    BY <1>2, <2>6, OtherCall
  <2>8. CallType' = CallType
    BY SameWorld DEF CallType
  <2> QED BY <2>3, <2>4, <2>5, <2>6, <2>7, <2>8, SameWorld DEF IInv, NodeStep
<1> QED BY <1>3, <1>4

\* The request by which a handler came to where it is.
LEMMA OpOf ==
  ASSUME IInv, NEW c \in Calls
  PROVE  /\ call[c] \in CallType /\ CallInv(c)
         /\ call[c].pc \in {"Look", "UnmountTarget", "RemoveTarget"} => call[c].op = "unpublish"
         /\ call[c].pc \in {"MkTarget", "Bind"} => call[c].op = "publish"
         /\ call[c].pc \in {"Rescan", "Resize"} => call[c].op = "expand"
         /\ call[c].pc \in {"HasSession", "Logout", "Unmount"} => call[c].op = "unstage"
         /\ call[c].pc \in {"Permission", "Probe", "Mount"} => call[c].op = "stage"
         /\ call[c].pc \in {"Session", "Login", "Device"} => call[c].op \in {"stage", "publish"}
         /\ call[c].pc = "GetVolume" => call[c].op \in {"stage", "publish", "unstage", "expand"}
<1>1. call[c] \in CallType /\ CallInv(c)
  BY DEF IInv
<1>2. call[c].op \in {"none", "stage", "unstage", "publish", "unpublish", "expand"}
  BY <1>1 DEF CallType
<1> QED BY <1>1, <1>2 DEF CallInv, PcsOf

\* A handler of the same request that goes to p.
LEMMA GotoStep ==
  ASSUME IInv, NodeStep, UNCHANGED <<pod, kubeletVars, world>>,
         NEW c \in Calls, NEW p \in PcsOf(call[c].op), Goto(c, p),
         p \in {"Session", "Login", "Device"} =>
           call[c].next <= call[c].last /\ call[c].last <= NPortals,
         p = "Resize" => call[c].size <= size'.dev
  PROVE  IInv' /\ Honest
<1> DEFINE x == [call[c] EXCEPT !.pc = p]
<1>1. call[c] \in CallType /\ CallInv(c)
  BY OpOf
<1>2. p \in {"idle", "Permission", "GetVolume", "Session", "Login", "Device",
             "Probe", "Mount", "MkTarget", "Bind", "Look", "UnmountTarget",
             "RemoveTarget", "Unmount", "HasSession", "Logout", "Rescan", "Resize"}
  <2>1. call[c].op \in {"none", "stage", "unstage", "publish", "unpublish", "expand"}
    BY <1>1 DEF CallType
  <2> QED BY <2>1 DEF PcsOf
<1>3. /\ x \in CallType /\ x.pc = p /\ x.op = call[c].op /\ x.pod = call[c].pod
      /\ x.size = call[c].size /\ x.next = call[c].next /\ x.last = call[c].last
  BY <1>1, <1>2 DEF CallType
<1>4. call' = [call EXCEPT ![c] = x] /\ call'[c] = x
  BY DEF Goto, IInv
<1>5. call[c].op = "expand" => call[c].size <= size'.lun
  <2>1. SizeOK /\ SizeOK'
    BY DEF IInv, NodeStep
  <2>2. size.lun \in Int /\ size'.lun \in Int /\ call[c].size \in Int
    BY <1>1, <2>1, WorldTyped, SameWorld DEF SizeOK, CallType, IInv
  <2> QED BY <1>1, <2>2 DEF CallInv, NodeStep, Grows
<1>6. CallInv(c)'
  <2> HIDE DEF x
  <2> QED BY <1>1, <1>3, <1>4, <1>5 DEF CallInv
<1> HIDE DEF x
<1> QED BY <1>3, <1>4, <1>6, MoveStep

-----------------------------------------------------------------------------
(* The handlers.                                                           *)

\* The steps that only look.
LEMMA GetVolumeStep ==
  ASSUME IInv, UNCHANGED world, NEW c \in Calls, GetVolume(c)
  PROVE  IInv' /\ Honest
<1>1. /\ call[c] \in CallType /\ CallInv(c) /\ call[c].pc = "GetVolume"
      /\ call[c].op \in {"stage", "publish", "unstage", "expand"}
      /\ UNCHANGED <<nodeVars, pod>>
  BY OpOf DEF GetVolume, At
<1>2. faults' \in 0..MaxFaults
  BY FaultsTyped DEF GetVolume
<1>3. NodeStep
  BY <1>1, <1>2, NodeSame
<1>4. CASE call[c].op = "expand" /\ ~Iscsi /\ Done(c)
  BY <1>1, <1>3, <1>4, EndStep
<1>5. ASSUME NEW found \in {"HasSession", "Rescan", "Session"}, NEW last \in 1..NPortals,
             found = CASE call[c].op = "unstage" -> "HasSession"
                       [] call[c].op = "expand" -> "Rescan"
                       [] OTHER -> "Session",
             call' = [call EXCEPT ![c].pc = found, ![c].next = 1, ![c].last = last],
             UNCHANGED kubeletVars
      PROVE  IInv' /\ Honest
  <2> DEFINE x == [call[c] EXCEPT !.pc = found, !.next = 1, !.last = last]
  <2>1. found \in PcsOf(call[c].op)
    BY <1>1, <1>5 DEF PcsOf
  <2>2. last \in 1..2 /\ 1 <= last /\ last <= NPortals
    BY PortalsGiven
  <2>3. /\ x \in CallType /\ x.pc = found /\ x.op = call[c].op /\ x.pod = call[c].pod
        /\ x.size = call[c].size /\ x.next = 1 /\ x.last = last
    <3>1. found \in {"HasSession", "Rescan", "Session"} /\ 1 \in 1..2
      OBVIOUS
    <3> QED BY <1>1, <2>2, <3>1 DEF CallType
  <2>4. call' = [call EXCEPT ![c] = x] /\ call'[c] = x
    BY <1>5 DEF IInv
  <2>5. UNCHANGED size
    BY <1>1 DEF nodeVars
  <2>6. CallInv(c)'
    <3> HIDE DEF x
    <3> QED BY <1>1, <2>1, <2>2, <2>3, <2>4, <2>5 DEF CallInv
  <2> HIDE DEF x
  <2> QED BY <1>1, <1>3, <1>5, <2>3, <2>4, <2>6, MoveStep
<1>6. CASE /\ call' = [call EXCEPT ![c].pc = CASE call[c].op = "unstage" -> "HasSession"
                                               [] call[c].op = "expand" -> "Rescan"
                                               [] OTHER -> "Session",
                                   ![c].next = 1, ![c].last = NPortals]
           /\ UNCHANGED kubeletVars
  <2>1. NPortals \in 1..NPortals
    BY PortalsGiven
  <2> QED BY <1>1, <1>5, <1>6, <2>1
<1>7. CASE /\ call' = [call EXCEPT ![c].pc = CASE call[c].op = "unstage" -> "HasSession"
                                               [] call[c].op = "expand" -> "Rescan"
                                               [] OTHER -> "Session",
                                   ![c].next = 1, ![c].last = 1]
           /\ UNCHANGED kubeletVars
  <2>1. 1 \in 1..NPortals
    BY PortalsGiven
  <2> QED BY <1>1, <1>5, <1>7, <2>1
<1>8. CASE IF call[c].op = "unstage" THEN Done(c) ELSE Refuse(c)
  BY <1>1, <1>3, <1>8, EndStep
<1> QED BY <1>4, <1>6, <1>7, <1>8 DEF GetVolume

LEMMA SessionStep ==
  ASSUME IInv, UNCHANGED world, NEW c \in Calls, Session(c)
  PROVE  IInv' /\ Honest
<1>1. /\ call[c].pc = "Session" /\ CallInv(c) /\ call[c].op \in {"stage", "publish"}
      /\ UNCHANGED <<nodeVars, pod, kubeletVars>>
  BY OpOf DEF Session, At
<1>2. faults' \in 0..MaxFaults
  BY FaultsTyped DEF Session
<1>3. NodeStep
  BY <1>1, <1>2, NodeSame
<1>4. PICK p \in {"Device", "Login"} : Goto(c, p)
  BY DEF Session
<1>5. p \in PcsOf(call[c].op)
  BY <1>1 DEF PcsOf
<1> QED BY <1>1, <1>3, <1>4, <1>5, GotoStep DEF CallInv

LEMMA LoginStep ==
  ASSUME IInv, UNCHANGED world, NEW c \in Calls, Login(c)
  PROVE  IInv' /\ Honest
<1>1. /\ call[c].pc = "Login" /\ CallInv(c) /\ call[c].op \in {"stage", "publish"}
      /\ call[c] \in CallType /\ UNCHANGED <<staging, dir, path, permitted, pod>>
  BY OpOf DEF Login, At
<1>2. faults' \in 0..MaxFaults
  BY FaultsTyped DEF Login
<1>3. call[c].next \in Portals
  BY <1>1, PortalsGiven DEF CallInv, CallType, Portals
<1>4. /\ sessions' \in {sessions, sessions \cup {call[c].next}}
      /\ size' \in {size, [size EXCEPT !.dev = size.lun]}
  BY DEF Login
<1>5. NodeStep
  <2>1. SizeOK' /\ Grows
    BY <1>4, WorldTyped, SameWorld DEF IInv, SizeOK, Grows
  <2>2. NodeOK' /\ DirInv'
    BY <1>1, <1>3, <1>4 DEF IInv, NodeOK, DirInv
  <2>3. Flags'
    BY <1>1 DEF IInv, Flags
  <2> QED BY <1>2, <2>1, <2>2, <2>3 DEF NodeStep
<1>6. CASE Goto(c, "Device") /\ UNCHANGED kubeletVars
  <2>1. "Device" \in PcsOf(call[c].op)
    BY <1>1 DEF PcsOf
  <2> QED BY <1>1, <1>5, <1>6, <2>1, GotoStep DEF CallInv
<1>7. CASE Refuse(c)
  BY <1>1, <1>5, <1>7, EndStep
<1> QED BY <1>6, <1>7 DEF Login

LEMMA DeviceStep ==
  ASSUME IInv, UNCHANGED world, NEW c \in Calls, Device(c)
  PROVE  IInv' /\ Honest
<1>1. /\ call[c].pc = "Device" /\ CallInv(c) /\ call[c].op \in {"stage", "publish"}
      /\ call[c] \in CallType /\ UNCHANGED <<nodeVars, pod>>
  BY OpOf DEF Device, At
<1>2. faults' \in 0..MaxFaults
  BY FaultsTyped DEF Device
<1>3. NodeStep
  BY <1>1, <1>2, NodeSame
<1>4. CASE Refuse(c)
  BY <1>1, <1>3, <1>4, EndStep
<1>5. ASSUME NEW p \in {"Probe", "Bind", "Session"}, NEW n \in {call[c].next, call[c].next + 1},
             p \in PcsOf(call[c].op), p = "Session" => n <= call[c].last,
             n = call[c].next + 1 => call[c].next # call[c].last,
             call' = [call EXCEPT ![c].pc = p, ![c].next = n], UNCHANGED kubeletVars
      PROVE  IInv' /\ Honest
  <2> DEFINE x == [call[c] EXCEPT !.pc = p, !.next = n]
  <2>1. n \in 1..2
    BY <1>1, <1>5, PortalsGiven DEF CallInv, CallType
  <2>2. /\ x \in CallType /\ x.pc = p /\ x.op = call[c].op /\ x.pod = call[c].pod
        /\ x.size = call[c].size /\ x.next = n /\ x.last = call[c].last
    BY <1>1, <2>1 DEF CallType
  <2>3. call' = [call EXCEPT ![c] = x] /\ call'[c] = x
    BY <1>5 DEF IInv
  <2>4. UNCHANGED size
    BY <1>1 DEF nodeVars
  <2>5. CallInv(c)'
    <3> HIDE DEF x
    <3> QED BY <1>1, <1>5, <2>2, <2>3, <2>4 DEF CallInv
  <2> HIDE DEF x
  <2> QED BY <1>1, <1>3, <1>5, <2>2, <2>3, <2>5, MoveStep
<1>6. CASE /\ call[c].next = call[c].last /\ UNCHANGED kubeletVars
           /\ call' = [call EXCEPT ![c].pc = IF call[c].op = "stage" THEN "Probe" ELSE "Bind",
                                   ![c].next = @]
  <2> DEFINE p == IF call[c].op = "stage" THEN "Probe" ELSE "Bind"
  <2>1. p \in {"Probe", "Bind"} /\ p \in PcsOf(call[c].op)
    BY <1>1 DEF PcsOf
  <2>2. call[c].next # call[c].next + 1
    BY <1>1 DEF CallType
  <2> HIDE DEF p
  <2>3. call' = [call EXCEPT ![c].pc = p, ![c].next = call[c].next]
    BY <1>6 DEF p
  <2> QED BY <1>5, <1>6, <2>1, <2>2, <2>3
<1>7. CASE /\ call[c].next # call[c].last /\ UNCHANGED kubeletVars
           /\ call' = [call EXCEPT ![c].pc = "Session", ![c].next = @ + 1]
  <2>1. "Session" \in PcsOf(call[c].op)
    BY <1>1 DEF PcsOf
  <2>2. call[c].next + 1 <= call[c].last
    BY <1>1, <1>7 DEF CallInv, CallType
  <2>3. call' = [call EXCEPT ![c].pc = "Session", ![c].next = call[c].next + 1]
    BY <1>7
  <2> QED BY <1>5, <1>7, <2>1, <2>2, <2>3
<1> QED BY <1>4, <1>6, <1>7 DEF Device

LEMMA PermissionStep ==
  ASSUME IInv, UNCHANGED world, NEW c \in Calls, Permission(c)
  PROVE  IInv' /\ Honest
<1>1. /\ call[c].pc = "Permission" /\ call[c].op = "stage"
      /\ UNCHANGED <<sessions, staging, dir, path, size, pod>>
  BY OpOf DEF Permission, At
<1>2. faults' \in 0..MaxFaults
  BY FaultsTyped DEF Permission
<1>3. NodeStep
  <2>1. Flags'
    <3>1. permitted' \in BOOLEAN
      BY DEF Permission
    <3> QED BY <1>1, <3>1 DEF IInv, Flags
  <2>2. NodeOK' /\ DirInv'
    BY <1>1 DEF IInv, NodeOK, DirInv
  <2> QED BY <1>1, <1>2, <2>1, <2>2, SizesSame DEF NodeStep
<1>4. CASE Goto(c, "Probe") /\ UNCHANGED kubeletVars
  <2>1. "Probe" \in PcsOf(call[c].op)
    BY <1>1 DEF PcsOf
  <2> QED BY <1>1, <1>3, <1>4, <2>1, GotoStep
<1>5. CASE Refuse(c)
  BY <1>1, <1>3, <1>5, EndStep
<1> QED BY <1>4, <1>5 DEF Permission

LEMMA ProbeStep ==
  ASSUME IInv, UNCHANGED world, NEW c \in Calls, Probe(c)
  PROVE  IInv' /\ Honest
<1>1. /\ call[c].pc = "Probe" /\ call[c].op = "stage" /\ UNCHANGED <<nodeVars, pod, faults>>
  BY OpOf DEF Probe, At
<1>2. NodeStep
  BY <1>1, NodeSame DEF IInv
<1>3. CASE Goto(c, "Mount") /\ UNCHANGED kubeletVars
  <2>1. "Mount" \in PcsOf(call[c].op)
    BY <1>1 DEF PcsOf
  <2> QED BY <1>1, <1>2, <1>3, <2>1, GotoStep
<1>4. CASE Done(c)
  BY <1>1, <1>2, <1>4, EndStep
<1> QED BY <1>3, <1>4 DEF Probe

LEMMA MountStep ==
  ASSUME IInv, UNCHANGED world, NEW c \in Calls, Mount(c)
  PROVE  IInv' /\ Honest
<1>1. /\ call[c].pc = "Mount" /\ call[c].op = "stage" /\ call[c] \in CallType /\ CallInv(c)
      /\ UNCHANGED <<sessions, dir, path, permitted, pod>>
  BY OpOf DEF Mount, At
<1>2. faults' \in 0..MaxFaults
  BY FaultsTyped DEF Mount
<1>3. size' = size \/ (size.fs = 0 /\ size' = [size EXCEPT !.fs = size.dev])
  BY DEF Mount
<1>4. NodeStep
  <2>1. Flags'
    <3>1. staging' \in BOOLEAN
      BY DEF Mount
    <3> QED BY <1>1, <3>1 DEF IInv, Flags
  <2>2. NodeOK' /\ DirInv'
    BY <1>1 DEF IInv, NodeOK, DirInv
  <2>3. SizeOK' /\ Grows
    BY <1>3, WorldTyped, SameWorld DEF IInv, SizeOK, Grows
  <2> QED BY <1>2, <2>1, <2>2, <2>3 DEF NodeStep
<1>5. CASE Done(c) \/ Refuse(c)
  BY <1>1, <1>4, <1>5, EndStep
<1>6. CASE UNCHANGED <<call, kubeletVars>>
  <2>1. call' = [call EXCEPT ![c] = call[c]]
    BY <1>6 DEF IInv
  <2>2. CallInv(c)'
    BY <1>4, <1>6, OtherCall
  <2> QED BY <1>1, <1>4, <1>6, <2>1, <2>2, MoveStep
<1> QED BY <1>5, <1>6 DEF Mount

\* Directories and binds.
LEMMA MkTargetStep ==
  ASSUME IInv, UNCHANGED world, NEW c \in Calls, MkTarget(c)
  PROVE  IInv' /\ Honest
<1>1. /\ call[c].pc = "MkTarget" /\ call[c].op = "publish"
      /\ UNCHANGED <<sessions, staging, path, permitted, size, pod, faults>>
  BY OpOf DEF MkTarget, At
<1>2. dir' = dir \/ dir' = [dir EXCEPT ![call[c].pod] = TRUE]
  BY DEF MkTarget
<1>3. NodeStep
  <2>1. dir' \in [Pods -> BOOLEAN] /\ \A p \in Pods : ~dir'[p] => ~dir[p]
    BY <1>2 DEF IInv, Flags
  <2>2. Flags'
    BY <1>1, <2>1 DEF IInv, Flags
  <2>3. NodeOK' /\ DirInv'
    BY <1>1, <2>1 DEF IInv, NodeOK, DirInv
  <2> QED BY <1>1, <2>2, <2>3, SizesSame DEF NodeStep, IInv
<1>4. CASE Done(c)
  BY <1>1, <1>3, <1>4, EndStep
<1>5. ASSUME NEW p \in {"GetVolume", "Bind"}, Goto(c, p), UNCHANGED kubeletVars
      PROVE  IInv' /\ Honest
  <2>1. p \in PcsOf(call[c].op)
    BY <1>1 DEF PcsOf
  <2> QED BY <1>1, <1>3, <1>5, <2>1, GotoStep
<1> QED BY <1>4, <1>5 DEF MkTarget

LEMMA BindStep ==
  ASSUME IInv, UNCHANGED world, NEW c \in Calls, Bind(c)
  PROVE  IInv' /\ Honest
<1>1. /\ call[c].pc = "Bind" /\ call[c].op = "publish" /\ call[c].pod \in Pods
      /\ UNCHANGED <<sessions, staging, dir, permitted, size, pod>>
  BY OpOf DEF Bind, At, CallInv
<1>2. faults' \in 0..MaxFaults
  BY FaultsTyped DEF Bind
<1>3. \/ path' = path
      \/ dir[call[c].pod] /\ \E s \in Shown : path' = [path EXCEPT ![call[c].pod] = Append(@, s)]
  BY DEF Bind, Shown
<1>4. NodeStep
  <2>1. NodeOK' /\ DirInv'
    <3>1. \A q \in Pods, s \in Shown : Append(path[q], s) \in Seq(Shown)
      BY AppendProperties DEF IInv, NodeOK
    <3>2. path' \in [Pods -> Seq(Shown)]
      <4>1. CASE path' = path
        BY <4>1 DEF IInv, NodeOK
      <4>2. ASSUME NEW s \in Shown, path' = [path EXCEPT ![call[c].pod] = Append(@, s)]
            PROVE  path' \in [Pods -> Seq(Shown)]
        <5>1. Append(path[call[c].pod], s) \in Seq(Shown)
          BY <1>1, <3>1
        <5> QED BY <4>2, <5>1 DEF IInv, NodeOK
      <4> QED BY <1>3, <4>1, <4>2
    <3>3. \A q \in Pods : path'[q] = path[q] \/ dir[q]
      BY <1>1, <1>3 DEF IInv, NodeOK
    <3> QED BY <1>1, <3>2, <3>3 DEF IInv, NodeOK, DirInv
  <2>2. Flags'
    BY <1>1 DEF IInv, Flags
  <2> QED BY <1>1, <1>2, <2>1, <2>2, SizesSame DEF NodeStep
<1>5. Done(c) \/ Refuse(c)
  BY DEF Bind
<1> QED BY <1>1, <1>4, <1>5, EndStep

LEMMA LookStep ==
  ASSUME IInv, UNCHANGED world, NEW c \in Calls, Look(c)
  PROVE  IInv' /\ Honest
<1>1. /\ call[c].pc = "Look" /\ call[c].op = "unpublish" /\ call[c].pod \in Pods
      /\ UNCHANGED <<nodeVars, pod, faults>>
  BY OpOf DEF Look, At, CallInv
<1>2. NodeStep
  BY <1>1, NodeSame DEF IInv
<1>3. CASE Goto(c, "UnmountTarget") /\ UNCHANGED kubeletVars
  <2>1. "UnmountTarget" \in PcsOf(call[c].op)
    BY <1>1 DEF PcsOf
  <2> QED BY <1>1, <1>2, <1>3, <2>1, GotoStep
<1>4. CASE (~dir[call[c].pod] \/ path[call[c].pod] = <<>>) /\ Done(c)
  <2>1. path'[call[c].pod] = <<>>
    BY <1>1, <1>4 DEF IInv, DirInv, nodeVars
  <2> QED BY <1>1, <1>2, <1>4, <2>1, EndStep
<1> QED BY <1>3, <1>4 DEF Look

LEMMA UnmountTargetStep ==
  ASSUME IInv, UNCHANGED world, NEW c \in Calls, UnmountTarget(c)
  PROVE  IInv' /\ Honest
<1>1. /\ call[c].pc = "UnmountTarget" /\ call[c].op = "unpublish" /\ call[c].pod \in Pods
      /\ UNCHANGED <<sessions, staging, dir, permitted, size, pod>>
  BY OpOf DEF UnmountTarget, At, CallInv
<1>2. faults' \in 0..MaxFaults
  BY FaultsTyped DEF UnmountTarget
<1> DEFINE s == path[call[c].pod]
<1>3. \/ path' = path
      \/ s # <<>> /\ path' = [path EXCEPT ![call[c].pod] = SubSeq(s, 1, Len(s) - 1)]
  BY DEF UnmountTarget
<1>4. NodeStep
  <2>1. NodeOK' /\ DirInv'
    <3>1. s \in Seq(Shown)
      BY <1>1 DEF IInv, NodeOK
    <3>2. s # <<>> => SubSeq(s, 1, Len(s) - 1) \in Seq(Shown)
      BY <3>1, SubSeqProperties
    <3>3. path' \in [Pods -> Seq(Shown)]
      BY <1>3, <3>2 DEF IInv, NodeOK
    <3>4. \A q \in Pods : path'[q] = path[q] \/ path[q] # <<>>
      BY <1>1, <1>3 DEF IInv, NodeOK
    <3> QED BY <1>1, <3>3, <3>4 DEF IInv, NodeOK, DirInv
  <2>2. Flags'
    BY <1>1 DEF IInv, Flags
  <2> QED BY <1>1, <1>2, <2>1, <2>2, SizesSame DEF NodeStep
<1>5. CASE Goto(c, "RemoveTarget") /\ UNCHANGED kubeletVars
  <2>1. "RemoveTarget" \in PcsOf(call[c].op)
    BY <1>1 DEF PcsOf
  <2> QED BY <1>1, <1>4, <1>5, <2>1, GotoStep
<1>6. CASE Refuse(c)
  BY <1>1, <1>4, <1>6, EndStep
<1> QED BY <1>5, <1>6 DEF UnmountTarget

LEMMA RemoveTargetStep ==
  ASSUME IInv, UNCHANGED world, NEW c \in Calls, RemoveTarget(c)
  PROVE  IInv' /\ Honest
<1>1. /\ call[c].pc = "RemoveTarget" /\ call[c].op = "unpublish" /\ call[c].pod \in Pods
      /\ UNCHANGED <<sessions, staging, path, permitted, size, pod>>
  BY OpOf DEF RemoveTarget, At, CallInv
<1>2. faults' \in 0..MaxFaults
  BY FaultsTyped DEF RemoveTarget
<1>3. PICK b \in BOOLEAN : /\ dir' = [dir EXCEPT ![call[c].pod] = @ /\ ~b]
                           /\ b => path[call[c].pod] = <<>>
                           /\ IF b THEN Done(c) ELSE Refuse(c)
  BY DEF RemoveTarget
<1>4. NodeStep
  <2>1. dir' \in [Pods -> BOOLEAN] /\ \A p \in Pods : ~dir'[p] => ~dir[p] \/ path[p] = <<>>
    BY <1>1, <1>3 DEF IInv, Flags
  <2>2. Flags'
    BY <1>1, <2>1 DEF IInv, Flags
  <2>3. NodeOK' /\ DirInv'
    BY <1>1, <2>1 DEF IInv, NodeOK, DirInv
  <2> QED BY <1>1, <1>2, <2>2, <2>3, SizesSame DEF NodeStep
<1> QED BY <1>1, <1>3, <1>4, EndStep

\* Unstaging.
LEMMA UnmountStep ==
  ASSUME IInv, UNCHANGED world, NEW c \in Calls, Unmount(c)
  PROVE  IInv' /\ Honest
<1>1. /\ call[c].pc = "Unmount" /\ call[c].op = "unstage"
      /\ UNCHANGED <<sessions, dir, path, permitted, size, pod>>
  BY OpOf DEF Unmount, At
<1>2. faults' \in 0..MaxFaults
  BY FaultsTyped DEF Unmount
<1>3. NodeStep
  <2>1. Flags'
    <3>1. staging' \in BOOLEAN
      BY DEF Unmount
    <3> QED BY <1>1, <3>1 DEF IInv, Flags
  <2>2. NodeOK' /\ DirInv'
    BY <1>1 DEF IInv, NodeOK, DirInv
  <2> QED BY <1>1, <1>2, <2>1, <2>2, SizesSame DEF NodeStep
<1>4. CASE Goto(c, "GetVolume") /\ UNCHANGED kubeletVars
  <2>1. "GetVolume" \in PcsOf(call[c].op)
    BY <1>1 DEF PcsOf
  <2> QED BY <1>1, <1>3, <1>4, <2>1, GotoStep
<1>5. CASE Refuse(c)
  BY <1>1, <1>3, <1>5, EndStep
<1> QED BY <1>4, <1>5 DEF Unmount

LEMMA HasSessionStep ==
  ASSUME IInv, UNCHANGED world, NEW c \in Calls, HasSession(c)
  PROVE  IInv' /\ Honest
<1>1. /\ call[c].pc = "HasSession" /\ call[c].op = "unstage" /\ UNCHANGED <<nodeVars, pod>>
  BY OpOf DEF HasSession, At
<1>2. faults' \in 0..MaxFaults
  BY FaultsTyped DEF HasSession
<1>3. NodeStep
  BY <1>1, <1>2, NodeSame
<1>4. CASE Goto(c, "Logout") /\ UNCHANGED kubeletVars
  <2>1. "Logout" \in PcsOf(call[c].op)
    BY <1>1 DEF PcsOf
  <2> QED BY <1>1, <1>3, <1>4, <2>1, GotoStep
<1>5. CASE Done(c)
  BY <1>1, <1>3, <1>5, EndStep
<1> QED BY <1>4, <1>5 DEF HasSession

LEMMA LogoutStep ==
  ASSUME IInv, UNCHANGED world, NEW c \in Calls, Logout(c)
  PROVE  IInv' /\ Honest
<1>1. /\ call[c].pc = "Logout" /\ call[c].op = "unstage" /\ Done(c)
      /\ UNCHANGED <<staging, dir, path, permitted, size, pod>>
  BY OpOf DEF Logout, At
<1>2. faults' \in 0..MaxFaults
  BY FaultsTyped DEF Logout
<1>3. NodeStep
  <2>1. sessions' \in {sessions, {}}
    BY DEF Logout
  <2>2. NodeOK' /\ DirInv'
    BY <1>1, <2>1 DEF IInv, NodeOK, DirInv
  <2>3. Flags'
    BY <1>1 DEF IInv, Flags
  <2> QED BY <1>1, <1>2, <2>2, <2>3, SizesSame DEF NodeStep
<1> QED BY <1>1, <1>3, EndStep

\* Growing.
LEMMA RescanStep ==
  ASSUME IInv, UNCHANGED world, NEW c \in Calls, Rescan(c)
  PROVE  IInv' /\ Honest
<1>1. /\ call[c].pc = "Rescan" /\ call[c].op = "expand" /\ CallInv(c)
      /\ UNCHANGED <<sessions, staging, dir, path, permitted, pod>>
  BY OpOf DEF Rescan, At
<1>2. faults' \in 0..MaxFaults
  BY FaultsTyped DEF Rescan
<1>3. size' = size \/ size' = [size EXCEPT !.dev = size.lun]
  BY DEF Rescan
<1>4. NodeStep
  <2>1. SizeOK' /\ Grows
    BY <1>3, WorldTyped, SameWorld DEF IInv, SizeOK, Grows
  <2>2. NodeOK' /\ DirInv'
    BY <1>1 DEF IInv, NodeOK, DirInv
  <2>3. Flags'
    BY <1>1 DEF IInv, Flags
  <2> QED BY <1>2, <2>1, <2>2, <2>3 DEF NodeStep
<1>5. CASE /\ Goto(c, "Resize") /\ UNCHANGED kubeletVars
           /\ size' = [size EXCEPT !.dev = size.lun]
  <2>1. "Resize" \in PcsOf(call[c].op)
    BY <1>1 DEF PcsOf
  <2>2. call[c].size <= size'.dev
    BY <1>1, <1>5 DEF CallInv, IInv, SizeOK
  <2> QED BY <1>1, <1>4, <1>5, <2>1, <2>2, GotoStep
<1>6. CASE Refuse(c)
  BY <1>1, <1>4, <1>6, EndStep
<1> QED BY <1>5, <1>6 DEF Rescan

LEMMA ResizeStep ==
  ASSUME IInv, UNCHANGED world, NEW c \in Calls, Resize(c)
  PROVE  IInv' /\ Honest
<1>1. /\ call[c].pc = "Resize" /\ call[c].op = "expand" /\ CallInv(c)
      /\ UNCHANGED <<sessions, staging, dir, path, permitted, pod>>
  BY OpOf DEF Resize, At
<1>2. faults' \in 0..MaxFaults
  BY FaultsTyped DEF Resize
<1>3. size' = size \/ size' = [size EXCEPT !.fs = size.dev]
  BY DEF Resize
<1>4. NodeStep
  <2>1. SizeOK' /\ Grows
    BY <1>3, WorldTyped, SameWorld DEF IInv, SizeOK, Grows
  <2>2. NodeOK' /\ DirInv'
    BY <1>1 DEF IInv, NodeOK, DirInv
  <2>3. Flags'
    BY <1>1 DEF IInv, Flags
  <2> QED BY <1>2, <2>1, <2>2, <2>3 DEF NodeStep
<1>5. CASE Done(c) /\ size' = IF Kind = "block" THEN size ELSE [size EXCEPT !.fs = size.dev]
  <2>1. call[c].size <= IF Kind = "block" THEN size'.dev ELSE size'.fs
    BY <1>1, <1>5 DEF CallInv, IInv, SizeOK
  <2> QED BY <1>1, <1>4, <1>5, <2>1, EndStep
<1>6. CASE Refuse(c)
  BY <1>1, <1>4, <1>6, EndStep
<1> QED BY <1>5, <1>6 DEF Resize

-----------------------------------------------------------------------------
(* The kubelet, the driver's process and the node.                         *)

\* A step that grants nothing and unpublishes nothing.
LEMMA OtherStep ==
  ASSUME IInv, NodeStep, UNCHANGED <<granted, world>>, KubeletTyped',
         \A p \in Pods : published'[p] = "no" => published[p] = "no",
         call' \in [Calls -> CallType], \A d \in Calls : CallInv(d)'
  PROVE  IInv' /\ Honest
<1>1. ExpandHonest'
  BY GrantKept
<1>2. CallType' = CallType
  BY SameWorld DEF CallType
<1>3. Honest
  BY DEF Honest
<1> QED BY <1>1, <1>2, <1>3, SameWorld DEF IInv, NodeStep

LEMMA RequestStep ==
  ASSUME IInv, UNCHANGED <<nodeVars, granted, faults, world>>, KubeletTyped',
         \A p \in Pods : published'[p] = "no" => published[p] = "no",
         NEW c \in Calls, NEW op \in {"stage", "unstage", "publish", "unpublish", "expand"},
         NEW p \in Pods \cup {None}, NEW n \in 0..MaxSize, NEW pc \in PcsOf(op),
         op \in {"publish", "unpublish"} => p \in Pods, op = "expand" => n = size.lun,
         pc \in {"Permission", "GetVolume", "MkTarget", "Look", "Unmount"},
         Request(c, op, p, pc, n)
  PROVE  IInv' /\ Honest
<1> DEFINE x == [IdleCall EXCEPT !.pc = pc, !.op = op, !.pod = p, !.size = n, !.live = TRUE]
<1>1. NodeStep
  BY NodeSame DEF IInv
<1>2. call' = [call EXCEPT ![c] = x] /\ call'[c] = x /\ \A d \in Calls : d # c => call'[d] = call[d]
  BY DEF Request, IInv
<1>3. /\ x \in CallType /\ x.pc = pc /\ x.op = op /\ x.pod = p /\ x.size = n
  <2> DEFINE x1 == [IdleCall EXCEPT !.pc = pc]
             x2 == [x1 EXCEPT !.op = op]
             x3 == [x2 EXCEPT !.pod = p]
             x4 == [x3 EXCEPT !.size = n]
             x5 == [x4 EXCEPT !.live = TRUE]
  <2>1. IdleCall \in CallType
    BY IdleTyped DEF IInv
  <2>2. x1 \in CallType /\ x1.pc = pc
    BY <2>1 DEF CallType
  <2>3. x2 \in CallType /\ x2.pc = pc /\ x2.op = op
    <3> HIDE DEF x1
    <3> QED BY <2>2 DEF CallType
  <2>4. x3 \in CallType /\ x3.pc = pc /\ x3.op = op /\ x3.pod = p
    <3> HIDE DEF x1, x2
    <3> QED BY <2>3 DEF CallType
  <2>5. x4 \in CallType /\ x4.pc = pc /\ x4.op = op /\ x4.pod = p /\ x4.size = n
    <3> HIDE DEF x1, x2, x3
    <3> QED BY <2>4 DEF CallType
  <2>6. /\ x5 \in CallType /\ x5.pc = pc /\ x5.op = op /\ x5.pod = p
        /\ x5.size = n
    <3> HIDE DEF x1, x2, x3, x4
    <3> QED BY <2>5 DEF CallType
  <2>7. x = x5
    OBVIOUS
  <2> QED BY <2>6, <2>7
<1>4. size'.lun = size.lun /\ size.lun \in Int
  BY WorldTyped DEF nodeVars, IInv, SizeOK
<1>5. CallInv(c)'
  <2> HIDE DEF x
  <2> QED BY <1>2, <1>3, <1>4 DEF CallInv
<1>6. \A d \in Calls : CallInv(d)'
  BY <1>1, <1>2, <1>5, OtherCall
<1>7. call' \in [Calls -> CallType]
  <2> HIDE DEF x
  <2> QED BY <1>2, <1>3 DEF IInv
<1> QED BY <1>1, <1>6, <1>7, OtherStep

LEMMA StartStep ==
  ASSUME IInv, UNCHANGED world, NEW c \in Calls,
         \/ StartStage(c) \/ StartUnstage(c) \/ StartExpand(c)
         \/ \E p \in Pods : StartPublish(c, p) \/ StartUnpublish(c, p)
  PROVE  IInv' /\ Honest
<1>0. 0 \in 0..MaxSize /\ size.lun \in 0..MaxSize
  BY WorldTyped DEF IInv, SizeOK
<1>1. CASE StartStage(c)
  <2>1. UNCHANGED <<nodeVars, pod, published, granted, faults>> /\ staged' \in {"yes", "maybe"}
    BY <1>1 DEF StartStage
  <2>2. KubeletTyped'
    BY <2>1, SameWorld DEF IInv, KubeletTyped
  <2>3. CASE call' = call
    <3>1. NodeStep
      BY <2>1, NodeSame DEF IInv
    <3>2. \A d \in Calls : CallInv(d)'
      BY <2>3, <3>1, OtherCall
    <3> QED BY <2>1, <2>2, <2>3, <3>1, <3>2, OtherStep DEF IInv
  <2>4. ASSUME NEW pc \in {"GetVolume", "Permission"}, Request(c, "stage", None, pc, 0)
        PROVE  IInv' /\ Honest
    <3>1. pc \in PcsOf("stage")
      BY DEF PcsOf
    <3> QED BY <1>0, <2>1, <2>2, <2>4, <3>1, RequestStep
  <2> QED BY <1>1, <2>3, <2>4 DEF StartStage
<1>2. CASE StartUnstage(c)
  <2>1. UNCHANGED <<nodeVars, pod, published, granted, faults>> /\ staged' = "maybe"
    BY <1>2 DEF StartUnstage
  <2>2. KubeletTyped'
    BY <2>1, SameWorld DEF IInv, KubeletTyped
  <2>3. "Unmount" \in PcsOf("unstage")
    BY DEF PcsOf
  <2> QED BY <1>0, <1>2, <2>1, <2>2, <2>3, RequestStep DEF StartUnstage
<1>3. CASE StartExpand(c)
  <2>1. UNCHANGED <<nodeVars, pod, staged, published, granted, faults>>
    BY <1>3 DEF StartExpand, kubeletVars
  <2>2. KubeletTyped'
    BY <2>1, SameWorld DEF IInv, KubeletTyped
  <2>3. "GetVolume" \in PcsOf("expand")
    BY DEF PcsOf
  <2> QED BY <1>0, <1>3, <2>1, <2>2, <2>3, RequestStep DEF StartExpand
<1>4. ASSUME NEW p \in Pods, StartPublish(c, p) PROVE IInv' /\ Honest
  <2>1. /\ UNCHANGED <<nodeVars, pod, staged, granted, faults>>
        /\ published' = [published EXCEPT ![p] = "maybe"]
    BY <1>4 DEF StartPublish
  <2>2. KubeletTyped' /\ \A q \in Pods : published'[q] = "no" => published[q] = "no"
    BY <2>1, SameWorld DEF IInv, KubeletTyped
  <2>3. "MkTarget" \in PcsOf("publish")
    BY DEF PcsOf
  <2> QED BY <1>0, <1>4, <2>1, <2>2, <2>3, RequestStep DEF StartPublish
<1>5. ASSUME NEW p \in Pods, StartUnpublish(c, p) PROVE IInv' /\ Honest
  <2>1. /\ UNCHANGED <<nodeVars, pod, staged, granted, faults>>
        /\ published' = [published EXCEPT ![p] = "maybe"]
    BY <1>5 DEF StartUnpublish
  <2>2. KubeletTyped' /\ \A q \in Pods : published'[q] = "no" => published[q] = "no"
    BY <2>1, SameWorld DEF IInv, KubeletTyped
  <2>3. "Look" \in PcsOf("unpublish")
    BY DEF PcsOf
  <2> QED BY <1>0, <1>5, <2>1, <2>2, <2>3, RequestStep DEF StartUnpublish
<1> QED BY <1>1, <1>2, <1>3, <1>4, <1>5

LEMMA PodStep ==
  ASSUME IInv, UNCHANGED world, NEW p \in Pods, Schedule(p) \/ Remove(p)
  PROVE  IInv' /\ Honest
<1>1. /\ UNCHANGED <<nodeVars, call, kubeletVars, faults>>
      /\ \E s \in {"wanted", "removed"} : pod' = [pod EXCEPT ![p] = s]
  BY DEF Schedule, Remove
<1>2. UNCHANGED <<staged, published, granted>>
  BY <1>1 DEF kubeletVars
<1>3. NodeStep
  BY <1>1, NodeSame DEF IInv
<1>4. KubeletTyped'
  BY <1>1, <1>2, SameWorld DEF IInv, KubeletTyped
<1>5. \A d \in Calls : CallInv(d)'
  BY <1>1, <1>3, OtherCall
<1> QED BY <1>1, <1>2, <1>3, <1>4, <1>5, OtherStep DEF IInv

LEMMA GrowStep ==
  ASSUME IInv, UNCHANGED world, Grow
  PROVE  IInv' /\ Honest
<1>1. /\ UNCHANGED <<sessions, staging, dir, path, permitted, call, pod, faults>>
      /\ UNCHANGED <<staged, published, granted>>
  BY DEF Grow, kubeletVars
<1>2. SizeOK' /\ Grows
  BY WorldTyped, SameWorld DEF Grow, IInv, SizeOK, Grows
<1>3. NodeOK' /\ DirInv'
  BY <1>1 DEF IInv, NodeOK, DirInv
<1>4. Flags'
  BY <1>1 DEF IInv, Flags
<1>5. NodeStep
  BY <1>1, <1>2, <1>3, <1>4 DEF NodeStep, IInv
<1>6. KubeletTyped'
  BY <1>1, SameWorld DEF IInv, KubeletTyped
<1>7. \A d \in Calls : CallInv(d)'
  BY <1>1, <1>5, OtherCall
<1> QED BY <1>1, <1>5, <1>6, <1>7, OtherStep DEF IInv

\* The handler runs on as it is.
LEMMA DeadlineStep ==
  ASSUME IInv, UNCHANGED world, NEW c \in Calls, Deadline(c)
  PROVE  IInv' /\ Honest
<1> DEFINE x == [call[c] EXCEPT !.live = FALSE]
<1>1. /\ UNCHANGED <<nodeVars, pod, kubeletVars>> /\ faults' \in 0..MaxFaults
      /\ call[c] \in CallType /\ CallInv(c)
  BY FaultsTyped, OpOf DEF Deadline
<1>2. NodeStep
  BY <1>1, NodeSame
<1>3. /\ x \in CallType /\ x.pc = call[c].pc /\ x.op = call[c].op /\ x.pod = call[c].pod
      /\ x.size = call[c].size /\ x.next = call[c].next /\ x.last = call[c].last
  BY <1>1 DEF CallType
<1>4. call' = [call EXCEPT ![c] = x] /\ call'[c] = x
  BY DEF Deadline, IInv
<1>5. UNCHANGED size
  BY <1>1 DEF nodeVars
<1>6. CallInv(c)'
  <2> HIDE DEF x
  <2> QED BY <1>1, <1>3, <1>4, <1>5 DEF CallInv
<1> HIDE DEF x
<1> QED BY <1>1, <1>2, <1>3, <1>4, <1>6, MoveStep

LEMMA CrashStep ==
  ASSUME IInv, UNCHANGED world, Crash
  PROVE  IInv' /\ Honest
<1>1. /\ UNCHANGED <<nodeVars, pod, kubeletVars>> /\ faults' \in 0..MaxFaults
      /\ call' = [c \in Calls |-> IdleCall]
  BY FaultsTyped DEF Crash
<1>2. NodeStep
  BY <1>1, NodeSame
<1>3. UNCHANGED <<staged, published, granted>>
  BY <1>1 DEF kubeletVars
<1>4. KubeletTyped'
  BY <1>1, <1>3, SameWorld DEF IInv, KubeletTyped
<1>5. call' \in [Calls -> CallType] /\ \A d \in Calls : CallInv(d)'
  BY <1>1, IdleTyped DEF IInv
<1> QED BY <1>2, <1>3, <1>4, <1>5, OtherStep

LEMMA RebootStep ==
  ASSUME IInv, UNCHANGED world, Reboot
  PROVE  IInv' /\ Honest
<1>1. /\ faults' \in 0..MaxFaults /\ call' = [c \in Calls |-> IdleCall]
      /\ sessions' = {} /\ staging' = FALSE /\ path' = [p \in Pods |-> <<>>]
      /\ staged' = (IF staged = "no" THEN "no" ELSE "maybe")
      /\ published' = [p \in Pods |-> IF published[p] = "no" THEN "no" ELSE "maybe"]
      /\ UNCHANGED <<dir, permitted, size, pod, granted>>
  BY FaultsTyped DEF Reboot
<1>2. NodeStep
  <2>1. <<>> \in Seq(Shown)
    OBVIOUS
  <2>2. NodeOK' /\ DirInv'
    BY <1>1, <2>1 DEF NodeOK, DirInv
  <2>3. Flags'
    BY <1>1 DEF IInv, Flags
  <2> QED BY <1>1, <2>2, <2>3, SizesSame DEF NodeStep
<1>3. KubeletTyped' /\ \A p \in Pods : published'[p] = "no" => published[p] = "no"
  BY <1>1, SameWorld DEF IInv, KubeletTyped
<1>4. call' \in [Calls -> CallType] /\ \A d \in Calls : CallInv(d)'
  BY <1>1, IdleTyped DEF IInv
<1> QED BY <1>1, <1>2, <1>3, <1>4, OtherStep

LEMMA StutterStep ==
  ASSUME IInv, UNCHANGED <<vars, world>>
  PROVE  IInv' /\ Honest
<1>1. UNCHANGED <<nodeVars, call, pod, kubeletVars, faults>>
  BY DEF vars
<1>2. NodeStep
  BY <1>1, NodeSame DEF IInv
<1>3. UNCHANGED <<staged, published, granted>>
  BY <1>1 DEF kubeletVars
<1>4. KubeletTyped'
  BY <1>1, <1>3, SameWorld DEF IInv, KubeletTyped
<1>5. \A d \in Calls : CallInv(d)'
  BY <1>1, <1>2, OtherCall
<1> QED BY <1>1, <1>2, <1>3, <1>4, <1>5, OtherStep DEF IInv

-----------------------------------------------------------------------------
(* The invariant holds.                                                    *)

LEMMA InitInv == Init => IInv
<1> SUFFICES ASSUME Init PROVE IInv
  OBVIOUS
<1>0. world \in Worlds /\ MaxFaults \in Nat /\ MaxSize \in Nat \ {0}
  BY WorldTyped DEF Init
<1>1. <<>> \in Seq(Shown)
  OBVIOUS
<1>2. NodeOK /\ DirInv
  BY <1>1 DEF Init, NodeOK, DirInv
<1>3. Flags
  BY DEF Init, Flags
<1>4. SizeOK
  BY <1>0 DEF Init, SizeOK
<1>5. KubeletTyped /\ ExpandHonest
  BY <1>0 DEF Init, KubeletTyped, ExpandHonest
<1>6. call \in [Calls -> CallType]
  BY <1>0, IdleTyped DEF Init
<1>7. ASSUME NEW c \in Calls PROVE CallInv(c)
  <2>1. call[c].pc = "idle" /\ call[c].op = "none" /\ "idle" \in PcsOf("none")
    BY DEF Init, IdleCall, PcsOf
  <2> QED BY <2>1 DEF CallInv
<1>8. faults \in 0..MaxFaults
  BY <1>0 DEF Init
<1> QED BY <1>0, <1>2, <1>3, <1>4, <1>5, <1>6, <1>7, <1>8 DEF IInv

LEMMA NextInv == IInv /\ [Next /\ UNCHANGED world]_<<vars, world>> => IInv' /\ Honest
<1> SUFFICES ASSUME IInv, [Next /\ UNCHANGED world]_<<vars, world>> PROVE IInv' /\ Honest
  OBVIOUS
<1>1. CASE UNCHANGED <<vars, world>>
  BY <1>1, StutterStep
<1>2. CASE Next /\ UNCHANGED world
  <2>1. ASSUME NEW c \in Calls, Step(c) PROVE IInv' /\ Honest
    BY <1>2, <2>1, GetVolumeStep, SessionStep, LoginStep, DeviceStep, PermissionStep, ProbeStep,
       MountStep, MkTargetStep, BindStep, LookStep, UnmountTargetStep, RemoveTargetStep,
       UnmountStep, HasSessionStep, LogoutStep, RescanStep, ResizeStep DEF Step
  <2>2. ASSUME NEW c \in Calls,
               \/ StartStage(c) \/ StartUnstage(c) \/ StartExpand(c)
               \/ \E p \in Pods : StartPublish(c, p) \/ StartUnpublish(c, p)
        PROVE  IInv' /\ Honest
    BY <1>2, <2>2, StartStep
  <2>3. ASSUME NEW p \in Pods, Schedule(p) \/ Remove(p) PROVE IInv' /\ Honest
    BY <1>2, <2>3, PodStep
  <2>4. ASSUME NEW c \in Calls, Deadline(c) PROVE IInv' /\ Honest
    BY <1>2, <2>4, DeadlineStep
  <2>5. CASE Grow \/ Crash \/ Reboot
    BY <1>2, <2>5, GrowStep, CrashStep, RebootStep
  <2>6. CASE Finished
    BY <1>2, <2>6, StutterStep DEF Finished
  <2> QED BY <1>2, <2>1, <2>2, <2>3, <2>4, <2>5, <2>6 DEF Next
<1> QED BY <1>1, <1>2

\* The invariant holds in every reachable state.
THEOREM Invariance == Spec => []IInv
<1>1. IInv /\ [Next /\ UNCHANGED world]_<<vars, world>> => IInv'
  BY NextInv
<1> QED BY <1>1, InitInv, PTL DEF Spec

\* Every variable keeps its type, in every world.
THEOREM NodeTypes == Spec => []TypeOK
<1>1. IInv => TypeOK
  BY DEF IInv, NodeOK, Flags, SizeOK, KubeletTyped, TypeOK
<1> QED BY <1>1, Invariance, PTL

\* The size NodeExpandVolume reported is there, whatever the kubelet gave up and
\* whatever crashed or rebooted: a node never loses what it learnt of a LUN.
THEOREM ExpansionsHonest == Spec => []ExpandHonest
<1>1. IInv => ExpandHonest
  BY DEF IInv
<1> QED BY <1>1, Invariance, PTL

\* NodeUnpublishVolume reports success only with nothing on the pod's path, also
\* when late handlers of the same pod mount and unmount at the same time.
THEOREM UnpublishesHonest == Spec => UnpublishHonest
<1>1. IInv /\ [Next /\ UNCHANGED world]_<<vars, world>>
        => [\A p \in Pods : published[p] # "no" /\ published'[p] = "no" => path'[p] = <<>>]_vars
  BY NextInv DEF Honest
<1> QED BY <1>1, Invariance, PTL DEF Spec, UnpublishHonest

-----------------------------------------------------------------------------
(* What holds if the kubelet waits for its answers.  Requests of a volume  *)
(* are then served one by one, and what the kubelet believes is so.        *)

\* While a request is served no other is, unpublishings of different pods
\* excepted, and what the kubelet knew when it made the request is still so.
Waiting(c) == Busy(c) =>
    /\ call[c].live
    /\ \A d \in Calls : Busy(d) /\ d # c =>
         call[c].op = "unpublish" /\ call[d].op = "unpublish" /\ call[c].pod # call[d].pod
    /\ call[c].op = "stage" => staged = "maybe" /\ Kind # "block"
    /\ call[c].op = "publish" => staged = "yes" /\ published[call[c].pod] = "maybe"
    /\ call[c].op = "unpublish" => published[call[c].pod] = "maybe"
    /\ call[c].op = "expand" => staged = "yes"
    /\ call[c].op = "unstage" => /\ staged = "maybe" /\ \A p \in Pods : published[p] = "no"
                                 /\ call[c].pc # "Unmount" => ~staging
    /\ \/ call[c].pc \in {"Session", "Login", "Device"}
       \/ call[c].pc = "GetVolume" /\ call[c].op \in {"stage", "publish"}
       => Iscsi

\* What the kubelet believes and what the node has.
Believed ==
    /\ \A p \in Pods : /\ published[p] = "no" => path[p] = <<>>
                       /\ published[p] = "yes" => path[p] # <<>>
                       /\ \A i \in DOMAIN path[p] : path[p][i] = "vol"
    /\ staged = "yes" /\ Kind # "block" => staging
    /\ staged = "no" => ~staging /\ \A p \in Pods : published[p] = "no"

\* A mount has its session, and a share needs none.
Backed ==
    /\ Iscsi /\ Mounted => sessions # {}
    /\ ~Iscsi => sessions = {}
    /\ LogoutsWork /\ staged = "no" => sessions = {}

Served == Believed /\ Backed /\ \A c \in Calls : Waiting(c)

PInv == Patient => Served

LEMMA SamePatience ==
  ASSUME world' = world
  PROVE  (Patient' <=> Patient) /\ (LogoutsWork' <=> LogoutsWork)
  BY DEF Patient, LogoutsWork, Faulty

\* The cluster that waits, before a step of a world.
Awaited == IInv /\ Patient /\ Served

\* Nothing that Believed and Backed are about changes.
LEMMA SameBelief ==
  ASSUME Awaited, UNCHANGED <<sessions, staging, path, staged, published, world>>
  PROVE  Believed' /\ Backed'
<1>1. Believed'
  BY SameWorld DEF Awaited, Served, Believed
<1>2. Mounted' = Mounted
  BY DEF Mounted
<1> QED BY <1>1, <1>2, SameWorld, SamePatience DEF Awaited, Served, Backed

\* A step of one handler, which changes the kubelet's view of its own request
\* only, leaves the other handlers as they are.
LEMMA OthersWait ==
  ASSUME Awaited, UNCHANGED world, NEW c \in Calls, Busy(c),
         NEW x, call' = [call EXCEPT ![c] = x],
         x.pc = "idle" \/ (x.op = call[c].op /\ x.pod = call[c].pod),
         call[c].op = "unpublish" =>
           UNCHANGED staged /\ \A p \in Pods : p # call[c].pod => published'[p] = published[p]
  PROVE  \A d \in Calls : d # c => Waiting(d)'
<1> SUFFICES ASSUME NEW d \in Calls, d # c, Busy(d)' PROVE Waiting(d)'
  BY DEF Waiting
<1>1. /\ call \in [Calls -> CallType] /\ call'[c] = x /\ call'[d] = call[d]
      /\ \A e \in Calls : e # c => call'[e] = call[e]
  BY DEF Awaited, Served, IInv
<1>2. Busy(d) /\ Waiting(d) /\ Waiting(c) /\ CallInv(d)
  BY <1>1 DEF Awaited, Served, Busy, IInv
<1>3. call[d].op = "unpublish" /\ call[c].op = "unpublish" /\ call[c].pod # call[d].pod
  BY <1>2 DEF Waiting
<1>4. published'[call[d].pod] = "maybe" /\ call[d].pod \in Pods
  BY <1>2, <1>3 DEF Waiting, CallInv
<1>5. call[d].pc \in {"Look", "UnmountTarget", "RemoveTarget"}
  BY <1>2, <1>3 DEF CallInv, PcsOf
<1>6. \A e \in Calls : Busy(e)' /\ e # d =>
        call'[d].op = "unpublish" /\ call'[e].op = "unpublish" /\ call'[d].pod # call'[e].pod
  <2> SUFFICES ASSUME NEW e \in Calls, Busy(e)', e # d
               PROVE  call'[d].op = "unpublish" /\ call'[e].op = "unpublish" /\ call'[d].pod # call'[e].pod
    OBVIOUS
  <2>1. CASE e = c
    BY <1>1, <1>3, <2>1 DEF Busy
  <2>2. CASE e # c
    BY <1>1, <1>2, <2>2 DEF Busy, Waiting
  <2> QED BY <2>1, <2>2
<1> QED BY <1>1, <1>2, <1>3, <1>4, <1>5, <1>6 DEF Waiting

\* A handler that goes on with its request.
LEMMA MoveWaits ==
  ASSUME Awaited, UNCHANGED world, NEW c \in Calls, Busy(c), UNCHANGED kubeletVars,
         NEW x \in CallType, call' = [call EXCEPT ![c] = x],
         x.op = call[c].op, x.pod = call[c].pod, x.live = call[c].live,
         x.op = "unstage" /\ x.pc # "Unmount" => ~staging',
         x.pc \in {"Session", "Login", "Device"} => Iscsi,
         x.pc = "GetVolume" /\ x.op \in {"stage", "publish"} => Iscsi
  PROVE  \A d \in Calls : Waiting(d)'
<1>1. UNCHANGED <<staged, published>>
  BY DEF kubeletVars
<1>2. \A d \in Calls : d # c => Waiting(d)'
  BY <1>1, OthersWait
<1>3. /\ call'[c] = x /\ \A e \in Calls : e # c => call'[e] = call[e]
      /\ Waiting(c)
  BY DEF Awaited, Served, IInv
<1>4. \A e \in Calls : Busy(e)' /\ e # c => Busy(e)
  BY <1>3 DEF Busy
<1>5. Waiting(c)'
  BY <1>1, <1>3, <1>4, SameWorld DEF Waiting
<1> QED BY <1>2, <1>5

\* A handler that ends.
LEMMA EndWaits ==
  ASSUME Awaited, UNCHANGED world, NEW c \in Calls, Busy(c), Refuse(c) \/ Done(c)
  PROVE  \A d \in Calls : Waiting(d)'
<1>1. call' = [call EXCEPT ![c] = IdleCall] /\ IdleCall.pc = "idle"
  BY DEF Refuse, Done, Return, IdleCall
<1>2. call[c].op = "unpublish" =>
        UNCHANGED staged /\ \A p \in Pods : p # call[c].pod => published'[p] = published[p]
  BY DEF Refuse, Done, kubeletVars, Awaited, IInv, KubeletTyped
<1>3. \A d \in Calls : d # c => Waiting(d)'
  BY <1>1, <1>2, OthersWait
<1>4. ~Busy(c)'
  BY <1>1 DEF Busy, Awaited, IInv
<1> QED BY <1>3, <1>4 DEF Waiting

\* A handler that ends with an error, or with a success that says nothing of
\* mounts and sessions, and leaves mounts and sessions alone.
LEMMA EndServed ==
  ASSUME Awaited, UNCHANGED <<sessions, staging, path, world>>, NEW c \in Calls, Busy(c),
         \/ Refuse(c)
         \/ Done(c) /\ call[c].op = "expand"
         \/ Done(c) /\ call[c].op = "stage" /\ (Kind # "block" => staging)
         \/ Done(c) /\ call[c].op = "publish" /\ path[call[c].pod] # <<>>
         \/ Done(c) /\ call[c].op = "unpublish" /\ path[call[c].pod] = <<>>
         \/ /\ Done(c) /\ call[c].op = "unstage" /\ ~staging
            /\ LogoutsWork => sessions = {}
  PROVE  Served'
<1>1. \A d \in Calls : Waiting(d)'
  BY EndWaits
<1>2. CASE UNCHANGED <<staged, published>>
  BY <1>1, <1>2, SameBelief DEF Served
<1>3. /\ Waiting(c) /\ call[c].live /\ CallInv(c) /\ KubeletTyped
      /\ Believed /\ Backed /\ Mounted' = Mounted
  BY DEF Awaited, Served, Waiting, IInv, Mounted
<1>4. CASE Done(c) /\ call[c].op = "stage" /\ (Kind # "block" => staging)
  <2>1. staged' = "yes" /\ published' = published
    BY <1>3, <1>4 DEF Done
  <2> QED BY <1>1, <1>3, <1>4, <2>1, SameWorld, SamePatience DEF Served, Believed, Backed
<1>5. CASE Done(c) /\ call[c].op = "publish" /\ path[call[c].pod] # <<>>
  <2>1. staged' = staged /\ published' = [published EXCEPT ![call[c].pod] = "yes"] /\ staged = "yes"
    BY <1>3, <1>5 DEF Done, Waiting
  <2> QED BY <1>1, <1>3, <1>5, <2>1, SameWorld, SamePatience DEF Served, Believed, Backed, KubeletTyped
<1>6. CASE Done(c) /\ call[c].op = "unpublish" /\ path[call[c].pod] = <<>>
  <2>1. staged' = staged /\ published' = [published EXCEPT ![call[c].pod] = "no"]
    BY <1>3, <1>6 DEF Done
  <2> QED BY <1>1, <1>3, <1>6, <2>1, SameWorld, SamePatience DEF Served, Believed, Backed, KubeletTyped
<1>7. CASE /\ Done(c) /\ call[c].op = "unstage" /\ ~staging
           /\ LogoutsWork => sessions = {}
  <2>1. staged' = "no" /\ published' = published /\ \A p \in Pods : published[p] = "no"
    BY <1>3, <1>7 DEF Done, Waiting
  <2> QED BY <1>1, <1>3, <1>7, <2>1, SameWorld, SamePatience DEF Served, Believed, Backed
<1>8. Refuse(c) \/ (Done(c) /\ call[c].op = "expand") => UNCHANGED <<staged, published>>
  BY DEF Refuse, Done, kubeletVars
<1> QED BY <1>2, <1>4, <1>5, <1>6, <1>7, <1>8

\* A handler that goes on with its request.
Onward(c) ==
    /\ call' = [call EXCEPT ![c] = call'[c]]
    /\ call'[c].op = call[c].op /\ call'[c].pod = call[c].pod /\ call'[c].live = call[c].live
    /\ call'[c].op = "unstage" /\ call'[c].pc # "Unmount" => ~staging'
    /\ call'[c].pc \in {"Session", "Login", "Device"} => Iscsi
    /\ call'[c].pc = "GetVolume" /\ call'[c].op \in {"stage", "publish"} => Iscsi

LEMMA OnwardWaits ==
  ASSUME Awaited, IInv', UNCHANGED world, NEW c \in Calls, Busy(c), UNCHANGED kubeletVars,
         Onward(c)
  PROVE  \A d \in Calls : Waiting(d)'
<1>1. PICK x : x = call'[c]
  OBVIOUS
<1>2. call' \in [Calls -> CallType] /\ x \in CallType
  BY <1>1, SameWorld DEF IInv, CallType
<1> QED BY <1>1, <1>2, MoveWaits DEF Onward

\* A handler that goes on and has changed neither mounts nor sessions.
LEMMA OnwardServed ==
  ASSUME Awaited, IInv', UNCHANGED <<sessions, staging, path, world>>, NEW c \in Calls, Busy(c),
         UNCHANGED kubeletVars, Onward(c)
  PROVE  Served'
<1>1. UNCHANGED <<staged, published>>
  BY DEF kubeletVars
<1> QED BY <1>1, OnwardWaits, SameBelief DEF Served

LEMMA GotoSame ==
  ASSUME IInv, NEW c \in Calls, NEW p, Goto(c, p)
  PROVE  /\ call' = [call EXCEPT ![c] = call'[c]]
         /\ call'[c].op = call[c].op /\ call'[c].pod = call[c].pod /\ call'[c].live = call[c].live
         /\ call'[c].pc = p
<1>1. call[c] \in CallType
  BY DEF IInv
<1>2. call'[c] = [call[c] EXCEPT !.pc = p]
  BY DEF Goto, IInv
<1> QED BY <1>1, <1>2 DEF Goto, IInv, CallType

-----------------------------------------------------------------------------
(* The handlers, if the kubelet waits.                                     *)

LEMMA GetVolumeServed ==
  ASSUME Awaited, IInv', UNCHANGED world, NEW c \in Calls, GetVolume(c)
  PROVE  Served'
<1>1. /\ Busy(c) /\ call[c].pc = "GetVolume" /\ call[c] \in CallType /\ Waiting(c)
      /\ call[c].op \in {"stage", "publish", "unstage", "expand"}
      /\ UNCHANGED <<sessions, staging, path>>
  BY OpOf DEF GetVolume, At, Busy, Awaited, Served, nodeVars
<1>2. CASE call[c].op = "expand" /\ Done(c)
  BY <1>1, <1>2, EndServed
<1>3. CASE Refuse(c)
  BY <1>1, <1>3, EndServed
<1>4. CASE Mishap("GetVolume") /\ call[c].op = "unstage" /\ Done(c)
  <2>1. ~LogoutsWork
    BY <1>4 DEF Mishap, LogoutsWork
  <2>2. ~staging
    BY <1>1, <1>4 DEF Waiting
  <2> QED BY <1>1, <1>4, <2>1, <2>2, EndServed
<1>5. ASSUME NEW last,
             call' = [call EXCEPT ![c].pc = CASE call[c].op = "unstage" -> "HasSession"
                                              [] call[c].op = "expand" -> "Rescan"
                                              [] OTHER -> "Session",
                                  ![c].next = 1, ![c].last = last],
             UNCHANGED kubeletVars
      PROVE  Served'
  <2>1. PICK found \in {"HasSession", "Rescan", "Session"} :
          /\ found = CASE call[c].op = "unstage" -> "HasSession"
                       [] call[c].op = "expand" -> "Rescan"
                       [] OTHER -> "Session"
          /\ found = "Session" => call[c].op \in {"stage", "publish"}
    BY <1>1
  <2>2. call'[c] = [call[c] EXCEPT !.pc = found, !.next = 1, !.last = last]
    BY <1>5, <2>1 DEF Awaited, IInv
  <2>3. /\ call'[c].pc = found /\ call'[c].op = call[c].op /\ call'[c].pod = call[c].pod
        /\ call'[c].live = call[c].live
    BY <1>1, <2>2 DEF CallType
  <2>4. call' = [call EXCEPT ![c] = call'[c]]
    BY <1>5 DEF Awaited, IInv
  <2>5. Onward(c)
    BY <1>1, <2>1, <2>3, <2>4 DEF Onward, Waiting
  <2> QED BY <1>1, <1>5, <2>5, OnwardServed
<1> QED BY <1>1, <1>2, <1>3, <1>4, <1>5 DEF GetVolume

LEMMA SessionServed ==
  ASSUME Awaited, IInv', UNCHANGED world, NEW c \in Calls, Session(c)
  PROVE  Served'
<1>1. /\ Busy(c) /\ call[c].pc = "Session" /\ Waiting(c) /\ call[c].op \in {"stage", "publish"}
      /\ UNCHANGED <<sessions, staging, path>> /\ UNCHANGED kubeletVars
  BY OpOf DEF Session, At, Busy, Awaited, Served, nodeVars
<1>2. PICK p \in {"Device", "Login"} : Goto(c, p)
  BY DEF Session
<1>3. Onward(c)
  BY <1>1, <1>2, GotoSame DEF Onward, Waiting, Awaited
<1> QED BY <1>1, <1>3, OnwardServed

\* A login only adds a session, which no unstaging is there to leave behind.
LEMMA LoginServed ==
  ASSUME Awaited, IInv', UNCHANGED world, NEW c \in Calls, Login(c)
  PROVE  Served'
<1>1. /\ Busy(c) /\ call[c].pc = "Login" /\ Waiting(c) /\ call[c].op \in {"stage", "publish"}
      /\ sessions \subseteq sessions' /\ UNCHANGED <<staging, path>>
  BY OpOf DEF Login, At, Busy, Awaited, Served
<1>2. (Goto(c, "Device") /\ UNCHANGED kubeletVars) \/ Refuse(c)
  BY DEF Login
<1>3. UNCHANGED <<staged, published>> /\ UNCHANGED kubeletVars
  BY <1>2 DEF Refuse, kubeletVars
<1>4. staged # "no" /\ Iscsi /\ Mounted' = Mounted
  BY <1>1 DEF Waiting, Mounted
<1>5. Believed'
  BY <1>1, <1>3, SameWorld DEF Awaited, Served, Believed
<1>6. Backed'
  BY <1>1, <1>3, <1>4, SameWorld, SamePatience DEF Awaited, Served, Backed
<1>7. CASE Goto(c, "Device")
  <2>1. Onward(c)
    BY <1>1, <1>7, GotoSame DEF Onward, Waiting, Awaited
  <2> QED BY <1>1, <1>3, <1>5, <1>6, <2>1, OnwardWaits DEF Served
<1>8. CASE Refuse(c)
  BY <1>1, <1>5, <1>6, <1>8, EndWaits DEF Served
<1> QED BY <1>2, <1>7, <1>8

LEMMA DeviceServed ==
  ASSUME Awaited, IInv', UNCHANGED world, NEW c \in Calls, Device(c)
  PROVE  Served'
<1>1. /\ Busy(c) /\ call[c].pc = "Device" /\ Waiting(c) /\ call[c].op \in {"stage", "publish"}
      /\ call[c] \in CallType /\ UNCHANGED <<sessions, staging, path>>
  BY OpOf DEF Device, At, Busy, Awaited, Served, nodeVars
<1>2. CASE Refuse(c)
  BY <1>1, <1>2, EndServed
<1>3. ASSUME NEW p \in {"Probe", "Bind", "Session"}, NEW n,
             call' = [call EXCEPT ![c].pc = p, ![c].next = n], UNCHANGED kubeletVars
      PROVE  Served'
  <2>1. call'[c] = [call[c] EXCEPT !.pc = p, !.next = n]
    BY <1>3 DEF Awaited, IInv
  <2>2. /\ call'[c].pc = p /\ call'[c].op = call[c].op /\ call'[c].pod = call[c].pod
        /\ call'[c].live = call[c].live
    BY <1>1, <2>1 DEF CallType
  <2>3. call' = [call EXCEPT ![c] = call'[c]]
    BY <1>3 DEF Awaited, IInv
  <2>4. Onward(c)
    BY <1>1, <2>2, <2>3 DEF Onward, Waiting
  <2> QED BY <1>1, <1>3, <2>4, OnwardServed
<1> QED BY <1>1, <1>2, <1>3 DEF Device

LEMMA PermissionServed ==
  ASSUME Awaited, IInv', UNCHANGED world, NEW c \in Calls, Permission(c)
  PROVE  Served'
<1>1. /\ Busy(c) /\ call[c].pc = "Permission" /\ call[c].op = "stage"
      /\ UNCHANGED <<sessions, staging, path>>
  BY OpOf DEF Permission, At, Busy, Awaited
<1>2. CASE Refuse(c)
  BY <1>1, <1>2, EndServed
<1>3. CASE Goto(c, "Probe") /\ UNCHANGED kubeletVars
  <2>1. Onward(c)
    BY <1>1, <1>3, GotoSame DEF Onward, Awaited
  <2> QED BY <1>1, <1>3, <2>1, OnwardServed
<1> QED BY <1>2, <1>3 DEF Permission

LEMMA ProbeServed ==
  ASSUME Awaited, IInv', UNCHANGED world, NEW c \in Calls, Probe(c)
  PROVE  Served'
<1>1. /\ Busy(c) /\ call[c].pc = "Probe" /\ call[c].op = "stage"
      /\ UNCHANGED <<sessions, staging, path>>
  BY OpOf DEF Probe, At, Busy, Awaited, nodeVars
<1>2. CASE staging /\ Done(c)
  BY <1>1, <1>2, EndServed
<1>3. CASE Goto(c, "Mount") /\ UNCHANGED kubeletVars
  <2>1. Onward(c)
    BY <1>1, <1>3, GotoSame DEF Onward, Awaited
  <2> QED BY <1>1, <1>3, <2>1, OnwardServed
<1> QED BY <1>2, <1>3 DEF Probe

\* A mount is made with a session, or of a share.
LEMMA MountServed ==
  ASSUME Awaited, IInv', UNCHANGED world, NEW c \in Calls, Mount(c)
  PROVE  Served'
<1>1. /\ Busy(c) /\ call[c].pc = "Mount" /\ call[c].op = "stage" /\ Waiting(c)
      /\ UNCHANGED <<sessions, path>>
  BY OpOf DEF Mount, At, Busy, Awaited, Served
<1>2. CASE UNCHANGED staging /\ Refuse(c)
  BY <1>1, <1>2, EndServed
<1>3. CASE UNCHANGED <<staging, call, kubeletVars>>
  <2>1. UNCHANGED <<staged, published>>
    BY <1>3 DEF kubeletVars
  <2>2. \A d \in Calls : Waiting(d)'
    BY <1>1, <1>3, <2>1, SameWorld DEF Waiting, Busy, Awaited, Served
  <2> QED BY <1>1, <1>3, <2>1, <2>2, SameBelief DEF Served
<1>4. CASE staging' = TRUE /\ (Iscsi => sessions # {}) /\ Done(c)
  <2>1. staged' = "yes" /\ published' = published
    BY <1>1, <1>4 DEF Done, Waiting
  <2>2. Believed'
    BY <1>1, <1>4, <2>1, SameWorld DEF Believed, Awaited, Served
  <2>3. Backed'
    BY <1>1, <1>4, <2>1, SameWorld, SamePatience DEF Backed, Awaited, Served
  <2> QED BY <1>1, <1>4, <2>2, <2>3, EndWaits DEF Served
<1>5. staging \in BOOLEAN
  BY DEF Awaited, IInv, Flags
<1> QED BY <1>2, <1>3, <1>4, <1>5 DEF Mount

LEMMA MkTargetServed ==
  ASSUME Awaited, IInv', UNCHANGED world, NEW c \in Calls, MkTarget(c)
  PROVE  Served'
<1>1. /\ Busy(c) /\ call[c].pc = "MkTarget" /\ call[c].op = "publish"
      /\ UNCHANGED <<sessions, staging, path>>
  BY OpOf DEF MkTarget, At, Busy, Awaited
<1>2. CASE path[call[c].pod] # <<>> /\ Done(c)
  BY <1>1, <1>2, EndServed
<1>3. CASE Goto(c, IF Iscsi THEN "GetVolume" ELSE "Bind") /\ UNCHANGED kubeletVars
  <2>1. Onward(c)
    BY <1>1, <1>3, GotoSame DEF Onward, Awaited
  <2> QED BY <1>1, <1>3, <2>1, OnwardServed
<1> QED BY <1>2, <1>3 DEF MkTarget

\* While a pod is published the volume is staged, so that the volume itself is
\* bound to the pod's path and not the bare staging directory.
LEMMA BindServed ==
  ASSUME Awaited, IInv', UNCHANGED world, NEW c \in Calls, Bind(c)
  PROVE  Served'
<1>1. /\ Busy(c) /\ call[c].pc = "Bind" /\ call[c].op = "publish" /\ Waiting(c)
      /\ call[c].pod \in Pods /\ KubeletTyped /\ path \in [Pods -> Seq(Shown)]
      /\ Believed /\ Backed /\ UNCHANGED <<sessions, staging>>
  BY OpOf DEF Bind, At, Busy, Awaited, Served, CallInv, IInv, NodeOK
<1>2. CASE Refuse(c) /\ UNCHANGED path
  BY <1>1, <1>2, EndServed
<1>3. CASE /\ path' = [path EXCEPT ![call[c].pod] =
                         Append(@, IF Kind = "block" \/ staging THEN "vol" ELSE "dir")]
           /\ Done(c) /\ (Kind = "block" => sessions # {})
  <2>1. Kind = "block" \/ staging
    BY <1>1 DEF Waiting, Believed
  <2>2. path' = [path EXCEPT ![call[c].pod] = Append(@, "vol")]
    BY <1>3, <2>1
  <2>3. PICK s \in Seq(Shown) : s = path[call[c].pod]
    BY <1>1
  <2>4. /\ Append(s, "vol") # <<>>
        /\ (\A i \in DOMAIN s : s[i] = "vol")
             => \A i \in DOMAIN Append(s, "vol") : Append(s, "vol")[i] = "vol"
    <3>1. "vol" \in Shown
      BY DEF Shown
    <3> QED BY <3>1
  <2>5. /\ staged' = staged /\ published' = [published EXCEPT ![call[c].pod] = "yes"]
        /\ staged = "yes"
    BY <1>1, <1>3 DEF Done, Waiting
  <2>6. /\ path'[call[c].pod] = Append(s, "vol")
        /\ \A p \in Pods : p # call[c].pod => path'[p] = path[p] /\ published'[p] = published[p]
        /\ published'[call[c].pod] = "yes"
    BY <1>1, <2>2, <2>3, <2>5 DEF KubeletTyped
  <2>7. Believed'
    <3>1. \A i \in DOMAIN s : s[i] = "vol"
      BY <1>1, <2>3 DEF Believed
    <3>2. /\ path'[call[c].pod] # <<>>
          /\ \A i \in DOMAIN path'[call[c].pod] : path'[call[c].pod][i] = "vol"
      BY <2>4, <2>6, <3>1
    <3>3. ASSUME NEW p \in Pods
          PROVE  /\ published'[p] = "no" => path'[p] = <<>>
                 /\ published'[p] = "yes" => path'[p] # <<>>
                 /\ \A i \in DOMAIN path'[p] : path'[p][i] = "vol"
      <4>1. CASE p = call[c].pod
        BY <2>6, <3>2, <4>1
      <4>2. CASE p # call[c].pod
        BY <1>1, <2>6, <4>2 DEF Believed
      <4> QED BY <4>1, <4>2
    <3> QED BY <1>1, <2>5, <3>3, SameWorld DEF Believed
  <2>8. Iscsi => sessions # {}
    BY <1>1, <1>3, <2>1 DEF Backed, Mounted
  <2>9. Backed'
    BY <1>1, <2>5, <2>8, SameWorld, SamePatience DEF Backed
  <2> QED BY <1>1, <1>3, <2>7, <2>9, EndWaits DEF Served
<1> QED BY <1>2, <1>3 DEF Bind

LEMMA LookServed ==
  ASSUME Awaited, IInv', UNCHANGED world, NEW c \in Calls, Look(c)
  PROVE  Served'
<1>1. /\ Busy(c) /\ call[c].pc = "Look" /\ call[c].op = "unpublish" /\ call[c].pod \in Pods
      /\ UNCHANGED <<sessions, staging, path>>
  BY OpOf DEF Look, At, Busy, Awaited, CallInv, nodeVars
<1>2. CASE (~dir[call[c].pod] \/ path[call[c].pod] = <<>>) /\ Done(c)
  <2>1. path[call[c].pod] = <<>>
    BY <1>1, <1>2 DEF Awaited, IInv, DirInv
  <2> QED BY <1>1, <1>2, <2>1, EndServed
<1>3. CASE Goto(c, "UnmountTarget") /\ UNCHANGED kubeletVars
  <2>1. Onward(c)
    BY <1>1, <1>3, GotoSame DEF Onward, Awaited
  <2> QED BY <1>1, <1>3, <2>1, OnwardServed
<1> QED BY <1>2, <1>3 DEF Look

\* What is left on a path when the topmost mount is gone was there before.
LEMMA UnmountTargetServed ==
  ASSUME Awaited, IInv', UNCHANGED world, NEW c \in Calls, UnmountTarget(c)
  PROVE  Served'
<1>1. /\ Busy(c) /\ call[c].pc = "UnmountTarget" /\ call[c].op = "unpublish" /\ Waiting(c)
      /\ call[c].pod \in Pods /\ path \in [Pods -> Seq(Shown)]
      /\ Believed /\ Backed /\ UNCHANGED <<sessions, staging>>
  BY OpOf DEF UnmountTarget, At, Busy, Awaited, Served, CallInv, IInv, NodeOK
<1>2. CASE Refuse(c) /\ UNCHANGED path
  BY <1>1, <1>2, EndServed
<1>3. CASE /\ path[call[c].pod] # <<>>
           /\ path' = [path EXCEPT ![call[c].pod] = SubSeq(@, 1, Len(@) - 1)]
           /\ Goto(c, "RemoveTarget") /\ UNCHANGED kubeletVars
  <2>1. PICK s \in Seq(Shown) : s = path[call[c].pod]
    BY <1>1
  <2>2. PICK t : t = SubSeq(s, 1, Len(s) - 1)
    OBVIOUS
  <2>3. \A i \in DOMAIN t : i \in DOMAIN s /\ t[i] = s[i]
    BY <1>3, <2>1, <2>2
  <2>4. path'[call[c].pod] = t /\ \A p \in Pods : p # call[c].pod => path'[p] = path[p]
    BY <1>1, <1>3, <2>1, <2>2
  <2>5. UNCHANGED <<staged, published>>
    BY <1>3 DEF kubeletVars
  <2>6. published[call[c].pod] = "maybe"
    BY <1>1 DEF Waiting
  <2>7. Believed'
    BY <1>1, <2>1, <2>3, <2>4, <2>5, <2>6, SameWorld DEF Believed
  <2>8. Mounted' => Mounted
    BY <1>1, <2>1, <2>3, <2>4 DEF Mounted
  <2>9. Backed'
    BY <1>1, <2>5, <2>8, SameWorld, SamePatience DEF Backed
  <2>10. Onward(c)
    BY <1>1, <1>3, GotoSame DEF Onward, Awaited
  <2> QED BY <1>1, <1>3, <2>7, <2>9, <2>10, OnwardWaits DEF Served
<1> QED BY <1>1, <1>2, <1>3 DEF UnmountTarget

LEMMA RemoveTargetServed ==
  ASSUME Awaited, IInv', UNCHANGED world, NEW c \in Calls, RemoveTarget(c)
  PROVE  Served'
<1>1. /\ Busy(c) /\ call[c].op = "unpublish" /\ UNCHANGED <<sessions, staging, path>>
  BY OpOf DEF RemoveTarget, At, Busy, Awaited
<1> QED BY <1>1, EndServed DEF RemoveTarget

LEMMA UnmountServed ==
  ASSUME Awaited, IInv', UNCHANGED world, NEW c \in Calls, Unmount(c)
  PROVE  Served'
<1>1. /\ Busy(c) /\ call[c].pc = "Unmount" /\ call[c].op = "unstage" /\ Waiting(c)
      /\ staging \in BOOLEAN /\ UNCHANGED <<sessions, path>>
  BY OpOf DEF Unmount, At, Busy, Awaited, Served, IInv, Flags
<1>2. CASE Refuse(c) /\ UNCHANGED staging
  BY <1>1, <1>2, EndServed
<1>3. CASE staging' = FALSE /\ Goto(c, "GetVolume") /\ UNCHANGED kubeletVars
  <2>1. UNCHANGED <<staged, published>> /\ staged = "maybe"
    BY <1>1, <1>3 DEF kubeletVars, Waiting
  <2>2. Believed'
    BY <1>1, <1>3, <2>1, SameWorld DEF Believed, Awaited, Served
  <2>3. Mounted' => Mounted
    BY <1>1, <1>3 DEF Mounted
  <2>4. Backed'
    BY <1>1, <2>1, <2>3, SameWorld, SamePatience DEF Backed, Awaited, Served
  <2>5. Onward(c)
    BY <1>1, <1>3, GotoSame DEF Onward, Awaited
  <2> QED BY <1>1, <1>3, <2>2, <2>4, <2>5, OnwardWaits DEF Served
<1> QED BY <1>1, <1>2, <1>3 DEF Unmount

LEMMA HasSessionServed ==
  ASSUME Awaited, IInv', UNCHANGED world, NEW c \in Calls, HasSession(c)
  PROVE  Served'
<1>1. /\ Busy(c) /\ call[c].pc = "HasSession" /\ call[c].op = "unstage" /\ Waiting(c) /\ Backed
      /\ UNCHANGED <<sessions, staging, path>>
  BY OpOf DEF HasSession, At, Busy, Awaited, Served, nodeVars
<1>2. ~staging
  BY <1>1 DEF Waiting
<1>3. CASE Goto(c, "Logout") /\ UNCHANGED kubeletVars
  <2>1. Onward(c)
    BY <1>1, <1>2, <1>3, GotoSame DEF Onward, Awaited
  <2> QED BY <1>1, <1>3, <2>1, OnwardServed
<1>4. CASE ~(Iscsi /\ sessions # {}) /\ Done(c)
  <2>1. sessions = {}
    BY <1>1, <1>4 DEF Backed
  <2> QED BY <1>1, <1>2, <1>4, <2>1, EndServed
<1>5. CASE Mishap("SessionList") /\ Done(c)
  <2>1. ~LogoutsWork
    BY <1>5 DEF Mishap, LogoutsWork
  <2> QED BY <1>1, <1>2, <1>5, <2>1, EndServed
<1> QED BY <1>3, <1>4, <1>5 DEF HasSession

\* When the sessions are closed nothing is mounted: not staged any more, and no
\* pod has anything on its path.
LEMMA LogoutServed ==
  ASSUME Awaited, IInv', UNCHANGED world, NEW c \in Calls, Logout(c)
  PROVE  Served'
<1>1. /\ Busy(c) /\ call[c].pc = "Logout" /\ call[c].op = "unstage" /\ Waiting(c)
      /\ Believed /\ Backed /\ Done(c) /\ UNCHANGED <<staging, path>>
  BY OpOf DEF Logout, At, Busy, Awaited, Served
<1>2. ~staging /\ \A p \in Pods : published[p] = "no" /\ path[p] = <<>>
  BY <1>1 DEF Waiting, Believed
<1>3. staged' = "no" /\ published' = published
  BY <1>1 DEF Done, Waiting
<1>4. Believed'
  BY <1>1, <1>2, <1>3, SameWorld DEF Believed
<1>5. ~Mounted'
  BY <1>1, <1>2 DEF Mounted
<1>6. sessions' = {} \/ (sessions' = sessions /\ ~LogoutsWork)
  BY DEF Logout, Outcome, Outcomes, Mishap, LogoutsWork
<1>7. Backed'
  BY <1>1, <1>3, <1>5, <1>6, SameWorld, SamePatience DEF Backed
<1> QED BY <1>1, <1>4, <1>7, EndWaits DEF Served

LEMMA ExpandServed ==
  ASSUME Awaited, IInv', UNCHANGED world, NEW c \in Calls, Rescan(c) \/ Resize(c)
  PROVE  Served'
<1>1. /\ Busy(c) /\ call[c].op = "expand" /\ UNCHANGED <<sessions, staging, path>>
  BY OpOf DEF Rescan, Resize, At, Busy, Awaited
<1>2. CASE Refuse(c) \/ Done(c)
  BY <1>1, <1>2, EndServed
<1>3. CASE Goto(c, "Resize") /\ UNCHANGED kubeletVars
  <2>1. Onward(c)
    BY <1>1, <1>3, GotoSame DEF Onward, Awaited
  <2> QED BY <1>1, <1>3, <2>1, OnwardServed
<1> QED BY <1>2, <1>3 DEF Rescan, Resize

-----------------------------------------------------------------------------
(* The kubelet and the node, if the kubelet waits.                         *)

\* A request of the kubelet that waits comes with no other request before it,
\* unpublishings of other pods excepted.
LEMMA RequestWaits ==
  ASSUME Awaited, UNCHANGED world, NEW c \in Calls, NEW op, NEW p, NEW pc, NEW n,
         Request(c, op, p, pc, n),
         \A d \in Calls : Busy(d) => op = "unpublish" /\ call[d].op = "unpublish" /\ call[d].pod # p,
         \A q \in Pods : q # p => published'[q] = published[q],
         op = "unpublish" => UNCHANGED staged,
         op = "stage" => staged' = "maybe" /\ Kind # "block",
         op = "publish" => staged' = "yes" /\ published'[p] = "maybe",
         op = "unpublish" => published'[p] = "maybe",
         op = "expand" => staged' = "yes",
         op = "unstage" => /\ staged' = "maybe" /\ \A q \in Pods : published'[q] = "no"
                           /\ pc = "Unmount",
         pc \notin {"Session", "Login", "Device"},
         pc = "GetVolume" /\ op \in {"stage", "publish"} => Iscsi
  PROVE  \A d \in Calls : Waiting(d)'
<1>1. /\ call'[c] = [IdleCall EXCEPT !.pc = pc, !.op = op, !.pod = p, !.size = n, !.live = TRUE]
      /\ \A d \in Calls : d # c => call'[d] = call[d]
  BY DEF Request, Awaited, IInv
<1>2. /\ call'[c].pc = pc /\ call'[c].op = op /\ call'[c].pod = p /\ call'[c].live
  BY <1>1 DEF IdleCall
<1>3. \A d \in Calls : d # c /\ Busy(d)' => Busy(d)
  BY <1>1 DEF Busy
<1>4. Waiting(c)'
  BY <1>1, <1>2, <1>3, SameWorld DEF Waiting
<1>5. ASSUME NEW d \in Calls, d # c, Busy(d)' PROVE Waiting(d)'
  <2>1. /\ Busy(d) /\ Waiting(d) /\ CallInv(d) /\ call'[d] = call[d]
        /\ op = "unpublish" /\ call[d].op = "unpublish" /\ call[d].pod # p
    BY <1>1, <1>3, <1>5 DEF Awaited, Served, IInv
  <2>2. call[d].pod \in Pods /\ published'[call[d].pod] = "maybe"
    BY <2>1 DEF CallInv, Waiting
  <2>3. call[d].pc \in {"Look", "UnmountTarget", "RemoveTarget"}
    BY <2>1 DEF CallInv, PcsOf
  <2>4. \A e \in Calls : Busy(e)' /\ e # d =>
          call'[d].op = "unpublish" /\ call'[e].op = "unpublish" /\ call'[d].pod # call'[e].pod
    <3> SUFFICES ASSUME NEW e \in Calls, Busy(e)', e # d
                 PROVE  /\ call'[d].op = "unpublish" /\ call'[e].op = "unpublish"
                        /\ call'[d].pod # call'[e].pod
      OBVIOUS
    <3>1. CASE e = c
      BY <1>2, <2>1, <3>1
    <3>2. CASE e # c
      BY <1>1, <1>3, <2>1, <3>2 DEF Waiting
    <3> QED BY <3>1, <3>2
  <2> QED BY <2>1, <2>2, <2>3, <2>4 DEF Waiting
<1> QED BY <1>4, <1>5 DEF Waiting

LEMMA StartStageServed ==
  ASSUME Awaited, IInv', UNCHANGED world, NEW c \in Calls, StartStage(c)
  PROVE  Served'
<1>1. /\ Quiet /\ staged # "yes" /\ UNCHANGED <<sessions, staging, path, published>>
      /\ Believed /\ Backed /\ \A d \in Calls : ~Busy(d)
  BY DEF StartStage, nodeVars, Awaited, Served, Quiet, Live, Waiting
<1>2. CASE Kind = "block" /\ staged' = "yes" /\ UNCHANGED call
  <2>1. Believed' /\ Backed'
    BY <1>1, <1>2, SameWorld, SamePatience DEF Believed, Backed, Mounted
  <2>2. \A d \in Calls : ~Busy(d)'
    BY <1>1, <1>2 DEF Busy
  <2> QED BY <2>1, <2>2 DEF Served, Waiting
<1>3. CASE /\ Kind # "block" /\ staged' = "maybe"
           /\ Request(c, "stage", None, IF Iscsi THEN "GetVolume" ELSE "Permission", 0)
  <2>1. Believed' /\ Backed'
    BY <1>1, <1>3, SameWorld, SamePatience DEF Believed, Backed, Mounted
  <2>2. \A d \in Calls : Waiting(d)'
    BY <1>1, <1>3, RequestWaits
  <2> QED BY <2>1, <2>2 DEF Served
<1> QED BY <1>2, <1>3 DEF StartStage

LEMMA StartPublishServed ==
  ASSUME Awaited, IInv', UNCHANGED world, NEW c \in Calls, NEW p \in Pods, StartPublish(c, p)
  PROVE  Served'
<1>1. /\ staged = "yes" /\ published[p] # "yes" /\ UNCHANGED <<sessions, staging, path, staged>>
      /\ Believed /\ Backed /\ KubeletTyped /\ \A d \in Calls : ~Busy(d)
      /\ published' = [published EXCEPT ![p] = "maybe"]
      /\ Request(c, "publish", p, "MkTarget", 0)
  BY DEF StartPublish, nodeVars, Awaited, IInv, Served, Quiet, Live, Waiting
<1>2. published'[p] = "maybe" /\ \A q \in Pods : q # p => published'[q] = published[q]
  BY <1>1 DEF KubeletTyped
<1>3. Believed' /\ Backed'
  BY <1>1, <1>2, SameWorld, SamePatience DEF Believed, Backed, Mounted
<1>4. \A d \in Calls : Waiting(d)'
  BY <1>1, <1>2, RequestWaits
<1> QED BY <1>3, <1>4 DEF Served

LEMMA StartUnpublishServed ==
  ASSUME Awaited, IInv', UNCHANGED world, NEW c \in Calls, NEW p \in Pods, StartUnpublish(c, p)
  PROVE  Served'
<1>1. /\ published[p] # "no" /\ UNCHANGED <<sessions, staging, path, staged>>
      /\ Believed /\ Backed /\ KubeletTyped
      /\ published' = [published EXCEPT ![p] = "maybe"]
      /\ Request(c, "unpublish", p, "Look", 0)
      /\ \A d \in Calls : Busy(d) => call[d].op = "unpublish" /\ call[d].pod # p
  BY DEF StartUnpublish, nodeVars, Awaited, IInv, Served, Live, Waiting
<1>2. published'[p] = "maybe" /\ \A q \in Pods : q # p => published'[q] = published[q]
  BY <1>1 DEF KubeletTyped
<1>3. staged # "no"
  BY <1>1 DEF Believed
<1>4. Believed' /\ Backed'
  BY <1>1, <1>2, <1>3, SameWorld, SamePatience DEF Believed, Backed, Mounted
<1>5. \A d \in Calls : Waiting(d)'
  BY <1>1, <1>2, RequestWaits
<1> QED BY <1>4, <1>5 DEF Served

LEMMA StartUnstageServed ==
  ASSUME Awaited, IInv', UNCHANGED world, NEW c \in Calls, StartUnstage(c)
  PROVE  Served'
<1>1. /\ staged' = "maybe" /\ UNCHANGED <<sessions, staging, path, published>>
      /\ Believed /\ Backed /\ \A d \in Calls : ~Busy(d)
      /\ \A p \in Pods : published[p] = "no"
      /\ Request(c, "unstage", None, "Unmount", 0)
  BY DEF StartUnstage, nodeVars, Awaited, Served, Quiet, Live, Waiting
<1>2. Believed' /\ Backed'
  BY <1>1, SameWorld, SamePatience DEF Believed, Backed, Mounted
<1>3. \A d \in Calls : Waiting(d)'
  BY <1>1, RequestWaits
<1> QED BY <1>2, <1>3 DEF Served

LEMMA StartExpandServed ==
  ASSUME Awaited, IInv', UNCHANGED world, NEW c \in Calls, StartExpand(c)
  PROVE  Served'
<1>1. /\ staged = "yes" /\ UNCHANGED <<sessions, staging, path, staged, published>>
      /\ \A d \in Calls : ~Busy(d)
      /\ Request(c, "expand", None, "GetVolume", size.lun)
  BY DEF StartExpand, nodeVars, kubeletVars, Awaited, Served, Quiet, Live, Waiting
<1>2. Believed' /\ Backed'
  BY <1>1, SameBelief
<1>3. \A d \in Calls : Waiting(d)'
  BY <1>1, RequestWaits
<1> QED BY <1>2, <1>3 DEF Served

\* Pods come and go, LUNs grow, and nothing happens.
LEMMA QuietServed ==
  ASSUME Awaited, UNCHANGED <<sessions, staging, path, call, staged, published, world>>
  PROVE  Served'
<1>1. Believed' /\ Backed'
  BY SameBelief
<1>2. \A d \in Calls : Waiting(d)'
  BY SameWorld DEF Awaited, Served, Waiting, Busy
<1> QED BY <1>1, <1>2 DEF Served

\* The process or the node is restarted: a reboot takes mounts and sessions, and
\* the kubelet forgets what it was told of them.
LEMMA RestartServed ==
  ASSUME Awaited, UNCHANGED world, Crash \/ Reboot
  PROVE  Served'
<1>1. \A d \in Calls : ~Busy(d)'
  BY DEF Crash, Reboot, Busy, IdleCall
<1>2. CASE Crash
  <2>1. UNCHANGED <<sessions, staging, path, staged, published>>
    BY <1>2 DEF Crash, nodeVars, kubeletVars
  <2> QED BY <1>1, <2>1, SameBelief DEF Served, Waiting
<1>3. CASE Reboot
  <2>1. /\ sessions' = {} /\ staging' = FALSE /\ path' = [p \in Pods |-> <<>>]
        /\ staged' = IF staged = "no" THEN "no" ELSE "maybe"
        /\ published' = [p \in Pods |-> IF published[p] = "no" THEN "no" ELSE "maybe"]
    BY <1>3 DEF Reboot
  <2>2. Believed
    BY DEF Awaited, Served
  <2>3. ~Mounted'
    BY <2>1 DEF Mounted
  <2>4. Believed'
    BY <2>1, <2>2 DEF Believed
  <2>5. Backed'
    BY <2>1, <2>3 DEF Backed
  <2> QED BY <1>1, <2>4, <2>5 DEF Served, Waiting
<1> QED BY <1>2, <1>3

LEMMA InitServed == Init => Served
<1> SUFFICES ASSUME Init PROVE Served
  OBVIOUS
<1>1. Believed
  BY DEF Init, Believed
<1>2. Backed
  BY DEF Init, Backed, Mounted
<1>3. \A d \in Calls : Waiting(d)
  BY DEF Init, Waiting, Busy, IdleCall
<1> QED BY <1>1, <1>2, <1>3 DEF Served

LEMMA NextServed ==
  IInv /\ IInv' /\ PInv /\ [Next /\ UNCHANGED world]_<<vars, world>> => PInv'
<1> SUFFICES ASSUME IInv, IInv', PInv, [Next /\ UNCHANGED world]_<<vars, world>>, Patient
             PROVE  Served'
  BY SamePatience DEF PInv
<1>0. Awaited /\ UNCHANGED world
  BY DEF Awaited, PInv
<1>1. CASE UNCHANGED vars
  BY <1>0, <1>1, QuietServed DEF vars, nodeVars, kubeletVars
<1>2. ASSUME NEW c \in Calls, Step(c) PROVE Served'
  BY <1>0, <1>2, GetVolumeServed, SessionServed, LoginServed, DeviceServed, PermissionServed,
     ProbeServed, MountServed, MkTargetServed, BindServed, LookServed, UnmountTargetServed,
     RemoveTargetServed, UnmountServed, HasSessionServed, LogoutServed, ExpandServed DEF Step
<1>3. ASSUME NEW c \in Calls, StartStage(c) \/ StartUnstage(c) \/ StartExpand(c) PROVE Served'
  BY <1>0, <1>3, StartStageServed, StartUnstageServed, StartExpandServed
<1>4. ASSUME NEW c \in Calls, NEW p \in Pods, StartPublish(c, p) \/ StartUnpublish(c, p)
      PROVE  Served'
  BY <1>0, <1>4, StartPublishServed, StartUnpublishServed
<1>5. ASSUME NEW p \in Pods, Schedule(p) \/ Remove(p) PROVE Served'
  BY <1>0, <1>5, QuietServed DEF Schedule, Remove, nodeVars, kubeletVars
<1>6. CASE Grow
  BY <1>0, <1>6, QuietServed DEF Grow, kubeletVars
<1>7. ASSUME NEW c \in Calls, Deadline(c) PROVE FALSE
  BY <1>7 DEF Deadline, Mishap, Patient
<1>8. CASE Crash \/ Reboot
  BY <1>0, <1>8, RestartServed
<1>9. CASE Finished
  BY <1>0, <1>9, QuietServed DEF Finished, vars, nodeVars, kubeletVars
<1> QED BY <1>1, <1>2, <1>3, <1>4, <1>5, <1>6, <1>7, <1>8, <1>9 DEF Next

\* What the kubelet that waits believes of the node is so.
THEOREM BeliefsTrue == Spec => []PInv
<1>1. Init => PInv
  BY InitServed DEF PInv
<1>2. IInv /\ [Next /\ UNCHANGED world]_<<vars, world>> => IInv'
  BY NextInv
<1>3. Init => IInv
  BY InitInv
<1>4. (IInv /\ PInv) /\ [Next /\ UNCHANGED world]_<<vars, world>> => (IInv /\ PInv)'
  BY <1>2, NextServed
<1> QED BY <1>1, <1>3, <1>4, PTL DEF Spec

\* A pod whose publishing was reported sees the volume itself, with a session
\* behind it, whatever failed, crashed or rebooted, if the kubelet waits.
THEOREM PodsServed == Spec => []PublishedServed
<1>1. IInv /\ PInv => PublishedServed
  <2> SUFFICES ASSUME IInv, PInv, Patient, NEW p \in Pods, published[p] = "yes"
               PROVE  /\ path[p] # <<>> /\ path[p][Len(path[p])] = "vol"
                      /\ Iscsi => sessions # {}
    BY DEF PublishedServed
  <2>1. Believed /\ Backed
    BY DEF PInv, Served
  <2>2. path[p] # <<>> /\ path[p] \in Seq(Shown)
    BY <2>1 DEF Believed, IInv, NodeOK
  <2>3. Len(path[p]) \in DOMAIN path[p]
    BY <2>2
  <2>4. path[p][Len(path[p])] = "vol"
    BY <2>1, <2>3 DEF Believed
  <2> QED BY <2>1, <2>2, <2>3, <2>4 DEF Backed, Mounted
<1> QED BY <1>1, Invariance, BeliefsTrue, PTL

\* No session is closed under a mount of its volume if the kubelet waits: when
\* NodeUnstageVolume logs out, neither the staging path nor a pod's has it.
THEOREM SessionsUnderMounts == Spec => []MountsBacked
<1>1. PInv => MountsBacked
  BY DEF PInv, Served, Backed, MountsBacked
<1> QED BY <1>1, BeliefsTrue, PTL

\* A reported unstaging has left neither a mount nor a session, however far the
\* tries before it got, if the kubelet waits and the logouts are not skipped.
THEOREM NothingLeft == Spec => []UnstageLeavesNothing
<1>1. PInv => UnstageLeavesNothing
  <2> SUFFICES ASSUME PInv, Patient, LogoutsWork, staged = "no"
               PROVE  ~Mounted /\ sessions = {}
    BY DEF UnstageLeavesNothing
  <2>1. Believed /\ Backed
    BY DEF PInv, Served
  <2>2. ~staging /\ \A p \in Pods : path[p] = <<>>
    BY <2>1 DEF Believed
  <2>3. ~Mounted
    BY <2>2 DEF Mounted
  <2> QED BY <2>1, <2>3 DEF Backed
<1> QED BY <1>1, BeliefsTrue, PTL
=============================================================================
