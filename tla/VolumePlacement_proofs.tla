------------------------ MODULE VolumePlacement_proofs ------------------------
(***************************************************************************)
(* What holds of the placement of volumes for every number of DSMs,        *)
(* locations, requests and mishaps.                                        *)
(***************************************************************************)
EXTENDS VolumePlacement, FiniteSetTheorems, TLAPS

\* The type a handler has found, on the DSM whose turn it is, for what it is to make.
TypeFor(r) == TypeAt(r, Dsm(r), call[r].location)

\* A handler is at a DSM that the request allows and keeps the location that the
\* request names; what it is about to make fits the file system at the location.
HandlerInv(r) ==
    call[r].pc # "idle" =>
        /\ Dsm(r) \in Dsms
        /\ Asked[r].dsm \in {None, Dsm(r)}
        /\ Asked[r].location \in {None, call[r].location}
        /\ call[r].pc = "VolumeList" => call[r].location = None
        /\ call[r].pc = "Create" =>
             /\ call[r].location \in Paths(Dsm(r))
             /\ call[r].type = TypeFor(r)
             /\ Asked[r].protocol = "iscsi" => call[r].type # None

\* A volume that was placed is where the request allows, and of the type that the
\* driver finds there.
PlacedInv(r) ==
    placed[r] # None =>
        /\ placed[r] \in PlaceType
        /\ placed[r].location \in Paths(placed[r].dsm)
        /\ Asked[r].dsm \in {None, placed[r].dsm}
        /\ Asked[r].location \in {None, placed[r].location}
        /\ Asked[r].protocol = "iscsi" =>
             /\ placed[r].type # None
             /\ placed[r].type = LunType(r, disk[placed[r].dsm][placed[r].location].fs)

Disks == UNION {[Paths(d) -> DiskType] : d \in Dsms}

IInv == /\ TypeOK /\ disk \in [Dsms -> Disks]
        /\ \A r \in Requests : HandlerInv(r) /\ PlacedInv(r)

-----------------------------------------------------------------------------
(* The operators the handlers are built from.                              *)

\* What the cluster asks for has its type, and never changes.
LEMMA AskedTyped ==
  ASSUME TypeOK
  PROVE  Asked \in [Requests -> RequestType]
  BY WorldsTyped DEF TypeOK, WorldType, Asked

LEMMA AskedStays ==
  ASSUME UNCHANGED world
  PROVE  Asked' = Asked
  BY DEF Asked

\* A set of numbers that is not empty has a least one: the initial segments up to
\* its elements are finite, and the order of finite sets is well-founded.
LEMMA Least ==
  ASSUME NEW S \in SUBSET Nat, S # {}
  PROVE  Min(S) \in S /\ \A i \in S : Min(S) <= i
<1> DEFINE T == {1..i : i \in S}
<1>1. T # {} /\ T \subseteq FiniteSubsetsOf(Nat)
  <2>1. ASSUME NEW i \in S PROVE 1..i \in FiniteSubsetsOf(Nat)
    <3>1. IsFiniteSet(1..i)
      BY FS_Interval
    <3>2. 1..i \in SUBSET Nat
      OBVIOUS
    <3> QED BY <3>1, <3>2 DEF FiniteSubsetsOf
  <2> QED BY <2>1
<1>2. PICK x \in T : \A y \in T : ~(<<y, x>> \in StrictSubsetOrdering(Nat))
  BY <1>1, WFMin, FS_StrictSubsetOrderingWellFounded
<1>3. PICK m \in S : x = 1..m
  OBVIOUS
<1>4. ASSUME NEW i \in S PROVE m <= i
  <2> SUFFICES ASSUME i < m PROVE FALSE
    OBVIOUS
  <2>1. 1..i \subseteq 1..m /\ m \in 1..m /\ m \notin 1..i
    OBVIOUS
  <2>2. <<1..i, x>> \in StrictSubsetOrdering(Nat)
    BY <1>3, <2>1 DEF StrictSubsetOrdering
  <2> QED BY <1>2, <2>2
<1> QED BY <1>4 DEF Min

\* A location that is chosen on a DSM is one of its own.
LEMMA Chosen ==
  ASSUME NEW d \in Dsms, NEW size
  PROVE  FirstAvailable(d, size) \in Paths(d) \cup {None}
<1> DEFINE v(i) == disk[d][Layout[d][i]]
           hits == {i \in DOMAIN Layout[d] : v(i).free = Unreadable \/ Available(v(i), size)}
<1>1. hits \in SUBSET Nat
  BY LayoutListed
<1>2. hits # {} => Min(hits) \in DOMAIN Layout[d]
  <2> HIDE DEF hits
  <2>1. hits # {} => Min(hits) \in hits
    BY <1>1, Least
  <2>2. hits \subseteq DOMAIN Layout[d]
    BY DEF hits
  <2> QED BY <2>1, <2>2
<1>3. hits # {} => Layout[d][Min(hits)] \in Paths(d)
  BY <1>2 DEF Paths
<1> QED BY <1>3 DEF FirstAvailable

\* The next turn is at a DSM that the request allows.
LEMMA TurnTaken ==
  ASSUME IInv, NEW r \in Requests, NEW todo \in SUBSET Dsms, NEW spec \in CallType,
         Turn(r, todo, spec), Asked[r].location \in {None, spec.location}
  PROVE  \E x \in CallType :
           /\ call' = [call EXCEPT ![r] = x]
           /\ x.pc \in {"idle", "VolumeList", "VolumeGet"}
           /\ x.pc # "idle" => /\ x.at \in Dsms /\ Asked[r].dsm \in {None, x.at}
                               /\ Asked[r].location \in {None, x.location}
                               /\ x.pc = "VolumeList" => x.location = None
<1> DEFINE turns == {d \in todo : Asked[r].dsm \in {None, d}}
           x(d) == [spec EXCEPT !.at = d, !.todo = turns \ {d},
                                !.pc = IF spec.location = None THEN "VolumeList" ELSE "VolumeGet"]
<1>1. CASE turns = {} /\ call' = [call EXCEPT ![r] = IdleCall]
  <2>1. IdleCall \in CallType /\ IdleCall.pc = "idle"
    BY DEF IdleCall, CallType
  <2> QED BY <1>1, <2>1
<1>2. ASSUME NEW d \in turns, call' = [call EXCEPT ![r] = x(d)]
      PROVE  \E y \in CallType :
               /\ call' = [call EXCEPT ![r] = y]
               /\ y.pc \in {"idle", "VolumeList", "VolumeGet"}
               /\ y.pc # "idle" => /\ y.at \in Dsms /\ Asked[r].dsm \in {None, y.at}
                                   /\ Asked[r].location \in {None, y.location}
                                   /\ y.pc = "VolumeList" => y.location = None
  <2>1. d \in Dsms /\ Asked[r].dsm \in {None, d} /\ turns \ {d} \in SUBSET Dsms
    OBVIOUS
  <2>2. /\ x(d) \in CallType /\ x(d).at = d /\ x(d).location = spec.location
        /\ x(d).pc \in {"VolumeList", "VolumeGet"} /\ (x(d).pc = "VolumeList" => x(d).location = None)
    <3> HIDE DEF turns
    <3> QED BY <2>1 DEF CallType
  <2> HIDE DEF x, turns
  <2> QED BY <1>2, <2>1, <2>2
<1> QED BY <1>1, <1>2 DEF Turn

-----------------------------------------------------------------------------
(* Steps by their effect.                                                  *)

\* What no step changes: the file systems.
SameFs == \A d \in Dsms : \A p \in Paths(d) : disk'[d][p].fs = disk[d][p].fs

DiskTyped == disk' \in [Dsms -> Disks] /\ \A d \in Dsms : disk'[d] \in [Paths(d) -> DiskType]

LEMMA FaultsTyped ==
  ASSUME TypeOK, NEW k, UNCHANGED faults \/ Mishap(k)
  PROVE  faults' \in 0..MaxFaults
  BY FaultyTyped DEF TypeOK, Mishap

\* What was placed stays as asked, and handlers that do not move keep their invariant.
LEMMA OthersKept ==
  ASSUME IInv, SameFs, DiskTyped, UNCHANGED world, NEW q \in Requests
  PROVE  /\ placed'[q] = placed[q] => PlacedInv(q)'
         /\ call'[q] = call[q] => HandlerInv(q)'
<1>1. ASSUME placed'[q] = placed[q], placed[q] # None PROVE PlacedInv(q)'
  <2>1. placed[q].dsm \in Dsms /\ placed[q].location \in Paths(placed[q].dsm)
    BY <1>1 DEF IInv, PlacedInv, PlaceType
  <2>2. disk'[placed[q].dsm][placed[q].location].fs = disk[placed[q].dsm][placed[q].location].fs
    BY <2>1 DEF SameFs
  <2> QED BY <1>1, <2>2, AskedStays DEF IInv, PlacedInv, LunType
<1>2. ASSUME call'[q] = call[q] PROVE HandlerInv(q)'
  <2>1. Dsm(q)' = Dsm(q)
    BY <1>2 DEF Dsm
  <2>2. CASE call[q].pc = "idle"
    BY <1>2, <2>2 DEF HandlerInv
  <2>3. CASE call[q].pc # "idle"
    <3>1. Dsm(q) \in Dsms /\ HandlerInv(q)
      BY <2>3 DEF IInv, HandlerInv
    <3>2. call[q].location \in Paths(Dsm(q)) => TypeFor(q)' = TypeFor(q)
      <4>1. call[q].location \in Paths(Dsm(q)) =>
              disk'[Dsm(q)][call[q].location].fs = disk[Dsm(q)][call[q].location].fs
        BY <3>1 DEF SameFs
      <4> QED BY <1>2, <2>1, <4>1, AskedStays DEF TypeFor, TypeAt, LunType
    <3> QED BY <1>2, <2>1, <3>1, <3>2, AskedStays DEF HandlerInv
  <2> QED BY <2>2, <2>3
<1> QED BY <1>1, <1>2 DEF PlacedInv

\* A step of the handler of r that places nothing.
LEMMA MoveStep ==
  ASSUME IInv, NEW r \in Requests, UNCHANGED <<world, disk, placed>>, faults' \in 0..MaxFaults,
         NEW x \in CallType, call' = [call EXCEPT ![r] = x], HandlerInv(r)'
  PROVE  IInv'
<1>1. SameFs /\ DiskTyped
  BY DEF SameFs, DiskTyped, IInv, TypeOK
<1>2. TypeOK' /\ disk' \in [Dsms -> Disks]
  BY DEF IInv, TypeOK
<1>3. ASSUME NEW q \in Requests PROVE HandlerInv(q)' /\ PlacedInv(q)'
  <2>1. q # r => call'[q] = call[q]
    BY DEF IInv, TypeOK
  <2>2. placed'[q] = placed[q]
    OBVIOUS
  <2> QED BY <1>1, <2>1, <2>2, OthersKept
<1> QED BY <1>2, <1>3 DEF IInv

\* The handler of r takes its next turn.
LEMMA ContinueStep ==
  ASSUME IInv, NEW r \in Requests, call[r].pc # "idle", Continue(r),
         UNCHANGED <<world, disk, placed>>, faults' \in 0..MaxFaults
  PROVE  IInv'
<1>1. /\ call[r] \in CallType /\ call[r].todo \in SUBSET Dsms
      /\ Asked[r].location \in {None, call[r].location}
  <2>1. call[r] \in CallType /\ HandlerInv(r)
    BY DEF IInv, TypeOK
  <2>2. call[r].todo \in SUBSET Dsms
    BY <2>1 DEF CallType
  <2> QED BY <2>1, <2>2 DEF HandlerInv
<1>2. PICK x \in CallType :
        /\ call' = [call EXCEPT ![r] = x]
        /\ x.pc \in {"idle", "VolumeList", "VolumeGet"}
        /\ x.pc # "idle" => /\ x.at \in Dsms /\ Asked[r].dsm \in {None, x.at}
                            /\ Asked[r].location \in {None, x.location}
                            /\ x.pc = "VolumeList" => x.location = None
  BY <1>1, TurnTaken DEF Continue
<1>3. call'[r] = x
  BY <1>2 DEF IInv, TypeOK
<1>4. HandlerInv(r)'
  BY <1>2, <1>3, AskedStays DEF HandlerInv, Dsm
<1> QED BY <1>2, <1>4, MoveStep

-----------------------------------------------------------------------------
(* The actions.                                                            *)

LEMMA VolumeListStep ==
  ASSUME IInv, NEW r \in Requests, VolumeList(r)
  PROVE  IInv'
<1> DEFINE found == FirstAvailable(Dsm(r), Asked[r].size)
           x == [call[r] EXCEPT !.pc = "VolumeGet", !.location = found]
<1>1. /\ call[r] \in CallType /\ HandlerInv(r) /\ call[r].pc = "VolumeList"
      /\ UNCHANGED <<world, disk, placed>> /\ Dsm(r) \in Dsms
  BY DEF VolumeList, At, IInv, TypeOK, HandlerInv
<1>2. faults' \in 0..MaxFaults
  BY FaultsTyped DEF VolumeList, IInv
<1>3. CASE Continue(r)
  BY <1>1, <1>2, <1>3, ContinueStep
<1>4. CASE found # None /\ call' = [call EXCEPT ![r].pc = "VolumeGet", ![r].location = found]
  <2>1. found \in AllPaths
    BY <1>1, <1>4, Chosen DEF AllPaths
  <2>2. call' = [call EXCEPT ![r] = x] /\ call'[r] = x
    BY <1>4 DEF IInv, TypeOK
  <2>3. /\ x \in CallType /\ x.pc = "VolumeGet" /\ x.at = call[r].at /\ x.location = found
    <3> HIDE DEF found
    <3> QED BY <1>1, <2>1 DEF CallType
  <2>4. HandlerInv(r)'
    BY <1>1, <2>2, <2>3, AskedStays DEF HandlerInv, Dsm
  <2> QED BY <1>1, <1>2, <2>2, <2>3, <2>4, MoveStep
<1> QED BY <1>3, <1>4 DEF VolumeList

LEMMA VolumeGetStep ==
  ASSUME IInv, NEW r \in Requests, VolumeGet(r)
  PROVE  IInv'
<1> DEFINE p == call[r].location
           type == TypeFor(r)
           x == [call[r] EXCEPT !.pc = "Create", !.type = type]
<1>1. /\ call[r] \in CallType /\ HandlerInv(r) /\ call[r].pc = "VolumeGet"
      /\ UNCHANGED <<world, disk, placed>> /\ Asked[r] \in RequestType
  BY AskedTyped DEF VolumeGet, At, IInv, TypeOK
<1>2. faults' \in 0..MaxFaults
  BY FaultsTyped DEF VolumeGet, IInv
<1>3. CASE Continue(r)
  BY <1>1, <1>2, <1>3, ContinueStep
<1>4. CASE /\ p \in Paths(Dsm(r)) /\ (type # None \/ Asked[r].protocol = "smb")
           /\ call' = [call EXCEPT ![r].pc = "Create", ![r].type = type]
  <2>1. type \in LunTypes \cup {None}
    BY <1>1 DEF TypeFor, TypeAt, LunType, LunTypes, RequestType
  <2>2. call' = [call EXCEPT ![r] = x] /\ call'[r] = x
    BY <1>4 DEF IInv, TypeOK
  <2>3. /\ x \in CallType /\ x.pc = "Create" /\ x.at = call[r].at
        /\ x.location = call[r].location /\ x.type = type
    <3> HIDE DEF type
    <3> QED BY <1>1, <2>1 DEF CallType
  <2>4. HandlerInv(r)'
    <3>1. TypeFor(r)' = type /\ Dsm(r)' = Dsm(r)
      <4> HIDE DEF x
      <4>1. Dsm(r)' = Dsm(r)
        BY <2>2, <2>3 DEF Dsm
      <4>2. call'[r].location = call[r].location /\ disk' = disk
        BY <1>1, <2>2, <2>3
      <4>3. Asked' = Asked
        BY <1>1, AskedStays
      <4> QED BY ONLY <4>1, <4>2, <4>3 DEF TypeFor, TypeAt, LunType
    <3>2. /\ Asked[r].dsm \in {None, Dsm(r)} /\ Asked[r].location \in {None, p}
          /\ Asked[r].protocol = "iscsi" => type # None
          /\ Dsm(r) \in Dsms
      BY <1>1, <1>4 DEF HandlerInv
    <3> HIDE DEF type, x
    <3> QED BY <1>1, <1>4, <2>2, <2>3, <3>1, <3>2, AskedStays DEF HandlerInv
  <2> HIDE DEF x
  <2> QED BY <1>1, <1>2, <2>2, <2>3, <2>4, MoveStep
<1> QED BY <1>3, <1>4 DEF VolumeGet, TypeFor

\* A volume is made where the handler stands; a thick LUN takes its space.
LEMMA CreateStep ==
  ASSUME IInv, NEW r \in Requests, Create(r)
  PROVE  IInv'
<1> DEFINE d == Dsm(r)
           p == call[r].location
           y == [dsm |-> d, location |-> p, type |-> call[r].type]
<1>1. /\ call[r] \in CallType /\ HandlerInv(r) /\ call[r].pc = "Create"
      /\ Asked[r] \in RequestType /\ d \in Dsms /\ p \in Paths(d)
      /\ Asked[r].dsm \in {None, d} /\ Asked[r].location \in {None, p}
      /\ call[r].type = TypeFor(r)
      /\ Asked[r].protocol = "iscsi" => call[r].type # None
      /\ UNCHANGED world
  BY AskedTyped DEF Create, At, IInv, TypeOK, HandlerInv
<1>2. CASE Continue(r) /\ UNCHANGED <<disk, placed>>
  <2>1. faults' \in 0..MaxFaults
    BY FaultsTyped DEF Create, IInv
  <2> QED BY <1>1, <1>2, <2>1, ContinueStep
<1>3. CASE /\ UNCHANGED faults /\ Accepts(d, p, call[r].type, Asked[r].size)
           /\ placed' = [placed EXCEPT ![r] = y]
           /\ disk' = IF Thick(call[r].type)
                        THEN [disk EXCEPT ![d][p].free = @ - Asked[r].size] ELSE disk
           /\ call' = [call EXCEPT ![r] = IdleCall]
  <2>1. y \in PlaceType
    BY <1>1 DEF PlaceType, AllPaths, CallType
  <2>2. SameFs /\ DiskTyped
    <3>1. CASE disk' = disk
      BY <3>1 DEF SameFs, DiskTyped, IInv, TypeOK
    <3>2. CASE Thick(call[r].type) /\ disk' = [disk EXCEPT ![d][p].free = @ - Asked[r].size]
      <4> DEFINE v == [disk[d][p] EXCEPT !.free = @ - Asked[r].size]
      <4>1. disk[d][p] \in DiskType /\ Asked[r].size \in Nat
        BY <1>1 DEF IInv, TypeOK, RequestType
      <4>2. v \in DiskType /\ v.fs = disk[d][p].fs
        <5>1. disk[d][p].free > Asked[r].size
          BY <1>3, <3>2 DEF Accepts
        <5>2. disk[d][p].free - Asked[r].size \in Nat
          BY <4>1, <5>1 DEF DiskType, Unreadable
        <5> QED BY <4>1, <5>2 DEF DiskType
      <4>3. disk' = [disk EXCEPT ![d] = [disk[d] EXCEPT ![p] = v]]
        BY <3>2
      <4> HIDE DEF v, d, p
      <4>4. \A e \in Dsms : \A q \in Paths(e) :
              disk'[e][q] = IF e = d /\ q = p THEN v ELSE disk[e][q]
        BY <1>1, <4>3 DEF IInv, TypeOK
      <4>5. \A e \in Dsms : disk'[e] \in [Paths(e) -> DiskType]
        BY <1>1, <4>2, <4>3 DEF IInv, TypeOK
      <4>6. disk' \in [Dsms -> Disks]
        BY <4>3, <4>5 DEF IInv, Disks
      <4> QED BY <4>2, <4>4, <4>5, <4>6 DEF SameFs, DiskTyped
    <3> QED BY <1>3, <3>1, <3>2
  <2>3. placed'[r] = y /\ call'[r] = IdleCall
    BY <1>3 DEF IInv, TypeOK
  <2>4. PlacedInv(r)'
    <3>1. Asked[r].protocol = "iscsi" => call[r].type = LunType(r, disk[d][p].fs)
      BY <1>1 DEF TypeFor, TypeAt
    <3>2. disk'[d][p].fs = disk[d][p].fs
      BY <1>1, <2>2 DEF SameFs
    <3>3. y.dsm = d /\ y.location = p /\ y.type = call[r].type
      OBVIOUS
    <3> HIDE DEF y, d, p
    <3>4. /\ placed'[r] \in PlaceType /\ placed'[r].dsm = d /\ placed'[r].location = p
          /\ placed'[r].type = call[r].type
      BY <2>1, <2>3, <3>3
    <3>5. Asked[r].protocol = "iscsi" =>
            placed'[r].type = LunType(r, disk'[placed'[r].dsm][placed'[r].location].fs)
      BY <3>1, <3>2, <3>4
    <3> QED BY <1>1, <3>4, <3>5, AskedStays DEF PlacedInv, LunType
  <2>5. HandlerInv(r)'
    BY <2>3 DEF HandlerInv, IdleCall
  <2>6. ASSUME NEW q \in Requests PROVE HandlerInv(q)' /\ PlacedInv(q)'
    <3>1. q # r => call'[q] = call[q] /\ placed'[q] = placed[q]
      BY <1>3 DEF IInv, TypeOK
    <3> QED BY <1>1, <2>2, <2>4, <2>5, <3>1, OthersKept
  <2>7. TypeOK'
    <3>1. IdleCall \in CallType
      BY DEF IdleCall, CallType
    <3> HIDE DEF y
    <3> QED BY <1>1, <1>3, <2>1, <2>2, <3>1 DEF IInv, TypeOK, DiskTyped
  <2> QED BY <2>2, <2>6, <2>7 DEF IInv, DiskTyped
<1> QED BY <1>2, <1>3 DEF Create

LEMMA StartStep ==
  ASSUME IInv, NEW r \in Requests, Start(r)
  PROVE  IInv'
<1> DEFINE spec == [IdleCall EXCEPT !.location = Asked[r].location]
<1>1. spec \in CallType /\ spec.location = Asked[r].location
  BY AskedTyped DEF IInv, IdleCall, CallType, RequestType
<1>2. PICK x \in CallType :
        /\ call' = [call EXCEPT ![r] = x]
        /\ x.pc \in {"idle", "VolumeList", "VolumeGet"}
        /\ x.pc # "idle" => /\ x.at \in Dsms /\ Asked[r].dsm \in {None, x.at}
                            /\ Asked[r].location \in {None, x.location}
                            /\ x.pc = "VolumeList" => x.location = None
  <2>1. Turn(r, Dsms, spec)
    BY DEF Start
  <2> HIDE DEF spec
  <2> QED BY <1>1, <2>1, TurnTaken
<1>3. call'[r] = x
  BY <1>2 DEF IInv, TypeOK
<1>4. UNCHANGED <<world, disk, placed>> /\ faults' \in 0..MaxFaults
  BY DEF Start, IInv, TypeOK
<1>5. HandlerInv(r)'
  BY <1>2, <1>3, <1>4, AskedStays DEF HandlerInv, Dsm
<1> QED BY <1>2, <1>4, <1>5, MoveStep

LEMMA ChangeStep ==
  ASSUME IInv, NEW d \in Dsms, NEW p \in Paths(d), Change(d, p)
  PROVE  IInv'
<1>1. PICK k \in Kinds : disk' = [disk EXCEPT ![d][p].free = k.free, ![d][p].status = k.status]
  BY DEF Change
<1> DEFINE v == [disk[d][p] EXCEPT !.free = k.free, !.status = k.status]
<1>2. disk[d][p] \in DiskType /\ k \in DiskType
  BY KindsTyped DEF IInv, TypeOK
<1>3. v \in DiskType /\ v.fs = disk[d][p].fs
  BY <1>2 DEF DiskType
<1>4. disk' = [disk EXCEPT ![d] = [disk[d] EXCEPT ![p] = v]]
  BY <1>1 DEF IInv, TypeOK
<1>5. UNCHANGED <<world, call, placed>> /\ faults' \in 0..MaxFaults
  BY FaultsTyped DEF Change, IInv
<1> HIDE DEF v
<1>6. \A e \in Dsms : \A q \in Paths(e) :
        disk'[e][q] = IF e = d /\ q = p THEN v ELSE disk[e][q]
  BY <1>4 DEF IInv, TypeOK
<1>7. \A e \in Dsms : disk'[e] \in [Paths(e) -> DiskType]
  BY <1>3, <1>4 DEF IInv, TypeOK
<1>8. disk' \in [Dsms -> Disks]
  BY <1>4, <1>7 DEF IInv, Disks
<1>9. SameFs /\ DiskTyped
  BY <1>3, <1>6, <1>7, <1>8 DEF SameFs, DiskTyped
<1>10. TypeOK'
  BY <1>5, <1>7 DEF IInv, TypeOK
<1> QED BY <1>5, <1>8, <1>9, <1>10, OthersKept DEF IInv

LEMMA StutterStep ==
  ASSUME IInv, UNCHANGED vars
  PROVE  IInv'
<1>1. SameFs /\ DiskTyped
  BY DEF SameFs, DiskTyped, IInv, TypeOK, vars
<1>2. TypeOK' /\ disk' \in [Dsms -> Disks]
  BY DEF IInv, TypeOK, vars
<1> QED BY <1>1, <1>2, OthersKept DEF IInv, vars

-----------------------------------------------------------------------------
(* The invariant holds.                                                    *)

LEMMA InitInv == Init => IInv
<1> SUFFICES ASSUME Init PROVE IInv
  OBVIOUS
<1>1. ASSUME NEW d \in Dsms PROVE disk[d] \in [Paths(d) -> DiskType]
  <2>1. PICK e \in Dsms : disk[d] \in [Paths(e) -> Kinds]
    BY DEF Init
  <2>2. DOMAIN disk[d] = Paths(d)
    BY DEF Init
  <2> QED BY <2>1, <2>2, KindsTyped
<1>2. disk \in [Dsms -> Disks]
  BY <1>1 DEF Init, Disks
<1>3. IdleCall \in CallType
  BY DEF IdleCall, CallType
<1>4. TypeOK
  BY <1>1, <1>3, FaultyTyped DEF Init, TypeOK
<1>5. \A r \in Requests : HandlerInv(r) /\ PlacedInv(r)
  BY DEF Init, HandlerInv, PlacedInv, IdleCall
<1> QED BY <1>2, <1>4, <1>5 DEF IInv

LEMMA NextInv == IInv /\ [Next]_vars => IInv'
<1> SUFFICES ASSUME IInv, [Next]_vars PROVE IInv'
  OBVIOUS
<1>1. ASSUME NEW r \in Requests, Start(r) \/ Step(r) PROVE IInv'
  BY <1>1, StartStep, VolumeListStep, VolumeGetStep, CreateStep DEF Step
<1>2. ASSUME NEW d \in Dsms, NEW p \in Paths(d), Change(d, p) PROVE IInv'
  BY <1>2, ChangeStep
<1>3. CASE UNCHANGED vars
  BY <1>3, StutterStep
<1> QED BY <1>1, <1>2, <1>3 DEF Next, Finished

\* The invariant holds in every reachable state.
THEOREM Invariance == Spec => []IInv
  BY InitInv, NextInv, PTL DEF Spec

\* Every variable keeps its type.
THEOREM PlacementTypes == Spec => []TypeOK
<1>1. IInv => TypeOK
  BY DEF IInv
<1> QED BY <1>1, Invariance, PTL

\* Whatever DSMs the loop of CreateVolume has passed and whatever spec it carries
\* over from them, a volume is made on a DSM and at a location that were asked for,
\* and a LUN is thin or thick as asked and of the kind its file system takes.
THEOREM WellPlaced == Spec => []PlacedAsAsked
<1>1. IInv => PlacedAsAsked
  <2> SUFFICES ASSUME IInv, NEW r \in Requests, placed[r] # None
               PROVE  LET where == placed[r]
                          fs == disk[where.dsm][where.location].fs
                      IN  /\ Asked[r].dsm \in {None, where.dsm}
                          /\ Asked[r].location \in {None, where.location}
                          /\ Asked[r].protocol = "iscsi" /\ Asked[r].type = None =>
                               /\ Thick(where.type) <=> ~Asked[r].thin
                               /\ where.type \in {"BLUN", "BLUN_THICK"} <=> fs = "btrfs"
    BY DEF PlacedAsAsked
  <2>1. PlacedInv(r)
    BY DEF IInv
  <2>2. disk[placed[r].dsm][placed[r].location].fs \in FileSystems
    <3>1. disk[placed[r].dsm][placed[r].location] \in DiskType
      BY <2>1 DEF PlacedInv, PlaceType, IInv, TypeOK
    <3> QED BY <3>1 DEF DiskType
  <2>3. ASSUME NEW fs \in FileSystems, Asked[r].type = None, LunType(r, fs) # None
        PROVE  /\ Thick(LunType(r, fs)) <=> ~Asked[r].thin
               /\ LunType(r, fs) \in {"BLUN", "BLUN_THICK"} <=> fs = "btrfs"
    <3>1. CASE Asked[r].thin
      BY <2>3, <3>1 DEF LunType, Thick, FileSystems
    <3>2. CASE ~Asked[r].thin
      BY <2>3, <3>2 DEF LunType, Thick, FileSystems
    <3> QED BY <3>1, <3>2
  <2> QED BY <2>1, <2>2, <2>3 DEF PlacedInv
<1> QED BY <1>1, Invariance, PTL

-----------------------------------------------------------------------------
(* Sums over finite sets.  The sum is the fold of the community modules: a *)
(* recursive function on the subsets, which takes one chosen element away  *)
(* at a time.  That there is such a function, and what it bounds, follows  *)
(* from the order of finite sets, which is well-founded.                   *)

OneOf(s) == CHOOSE x \in s : TRUE
Rest(s) == s \ {OneOf(s)}

\* g adds up the weights w over the subsets of S.
SumsUp(g, S, w) ==
    g = [s \in SUBSET S |-> IF s = {} THEN 0 ELSE w[OneOf(s)] + g[Rest(s)]]

\* Among subsets of a finite set there is one without a smaller one.
LEMMA Smallest ==
  ASSUME NEW S, IsFiniteSet(S), NEW B \in SUBSET SUBSET S, B # {}
  PROVE  \E m \in B : \A r \in B : r \subseteq m => r = m
<1>1. B \subseteq FiniteSubsetsOf(S)
  BY FS_FiniteSubsetsOfFinite
<1>2. PICK m \in B : \A r \in B : ~(<<r, m>> \in StrictSubsetOrdering(S))
  BY <1>1, WFMin, FS_StrictSubsetOrderingWellFounded
<1>3. ASSUME NEW r \in B, r \subseteq m, r # m PROVE FALSE
  <2>1. <<r, m>> \in StrictSubsetOrdering(S)
    BY <1>3 DEF StrictSubsetOrdering
  <2> QED BY <1>2, <2>1
<1> QED BY <1>3

\* One element less.
LEMMA RestSmaller ==
  ASSUME NEW s, s # {}
  PROVE  OneOf(s) \in s /\ Rest(s) \subseteq s /\ Rest(s) # s
BY DEF OneOf, Rest

\* The sum over a set does not depend on the set whose subsets are added up.
LEMMA SumsAgree ==
  ASSUME NEW S, IsFiniteSet(S), NEW T, NEW w, NEW g, NEW h,
         SumsUp(g, S, w), SumsUp(h, T, w)
  PROVE  \A s \in SUBSET S : s \subseteq T => g[s] = h[s]
<1> DEFINE B == {s \in SUBSET S : s \subseteq T /\ g[s] # h[s]}
<1>1. B = {}
  <2> SUFFICES ASSUME B # {} PROVE FALSE
    OBVIOUS
  <2>1. B \in SUBSET SUBSET S
    OBVIOUS
  <2>2. PICK m \in B : \A r \in B : r \subseteq m => r = m
    <3> HIDE DEF B
    <3> QED BY <2>1, Smallest
  <2>3. /\ g[m] = IF m = {} THEN 0 ELSE w[OneOf(m)] + g[Rest(m)]
        /\ h[m] = IF m = {} THEN 0 ELSE w[OneOf(m)] + h[Rest(m)]
    BY DEF SumsUp
  <2>4. m # {} => g[Rest(m)] = h[Rest(m)]
    BY <2>2, RestSmaller
  <2> QED BY <2>3, <2>4
<1> QED BY <1>1

\* Weights can be added up.
LEMMA SumExists ==
  ASSUME NEW S, IsFiniteSet(S), NEW w
  PROVE  \E g : SumsUp(g, S, w)
<1> DEFINE B == {s \in SUBSET S : ~\E g : SumsUp(g, s, w)}
<1>1. B = {}
  <2> SUFFICES ASSUME B # {} PROVE FALSE
    OBVIOUS
  <2>1. B \in SUBSET SUBSET S
    OBVIOUS
  <2>2. PICK m \in B : \A r \in B : r \subseteq m => r = m
    <3> HIDE DEF B
    <3> QED BY <2>1, Smallest
  <2> DEFINE G(s) == CHOOSE g : SumsUp(g, s, w)
             V(s) == IF s = {} THEN 0 ELSE w[OneOf(s)] + G(Rest(s))[Rest(s)]
             h == [s \in SUBSET m |-> V(s)]
  <2>3. ASSUME NEW s \in SUBSET m, s # m PROVE SumsUp(G(s), s, w)
    <3>1. \E g : SumsUp(g, s, w)
      BY <2>2, <2>3
    <3> QED BY <3>1
  <2> HIDE DEF G
  <2>4. ASSUME NEW s \in SUBSET m, s # {}
        PROVE  h[Rest(s)] = G(Rest(s))[Rest(s)]
    <3> DEFINE r == Rest(s)
    <3>1. r \in SUBSET m /\ r # m /\ SumsUp(G(r), r, w)
      BY <2>3, <2>4, RestSmaller
    <3>2. h[r] = V(r)
      BY <3>1
    <3>3. G(r)[r] = IF r = {} THEN 0 ELSE w[OneOf(r)] + G(r)[Rest(r)]
      <4> HIDE DEF r
      <4> QED BY <3>1 DEF SumsUp
    <3>4. ASSUME r # {} PROVE G(r)[Rest(r)] = G(Rest(r))[Rest(r)]
      <4>1. Rest(r) \in SUBSET r /\ Rest(r) \in SUBSET m /\ Rest(r) # m
        BY <3>1, <3>4, RestSmaller
      <4>2. SumsUp(G(Rest(r)), Rest(r), w)
        BY <2>3, <4>1
      <4>3. IsFiniteSet(r)
        BY <3>1, FS_Subset
      <4> HIDE DEF r, h, V
      <4>4. \A q \in SUBSET r : q \subseteq Rest(r) => G(r)[q] = G(Rest(r))[q]
        BY <3>1, <4>2, <4>3, SumsAgree
      <4> QED BY <4>1, <4>4
    <3> HIDE DEF h, r
    <3> QED BY <3>2, <3>3, <3>4 DEF V, r
  <2>5. SumsUp(h, m, w)
    <3>1. \A s \in SUBSET m : V(s) = IF s = {} THEN 0 ELSE w[OneOf(s)] + h[Rest(s)]
      <4> HIDE DEF h
      <4> QED BY <2>4
    <3> HIDE DEF V
    <3> QED BY <3>1 DEF SumsUp
  <2> QED BY <2>2, <2>5
<1> QED BY <1>1

\* A sum of natural numbers is one, and not smaller than any of them.
LEMMA SumBounds ==
  ASSUME NEW S, IsFiniteSet(S), NEW w \in [S -> Nat], NEW g, SumsUp(g, S, w)
  PROVE  g[S] \in Nat /\ \A x \in S : w[x] <= g[S]
<1> DEFINE B == {s \in SUBSET S : ~(g[s] \in Nat /\ \A x \in s : w[x] <= g[s])}
<1>1. B = {}
  <2> SUFFICES ASSUME B # {} PROVE FALSE
    OBVIOUS
  <2>1. B \in SUBSET SUBSET S
    OBVIOUS
  <2>2. PICK m \in B : \A r \in B : r \subseteq m => r = m
    <3> HIDE DEF B
    <3> QED BY <2>1, Smallest
  <2>3. g[m] = IF m = {} THEN 0 ELSE w[OneOf(m)] + g[Rest(m)]
    BY DEF SumsUp
  <2>4. CASE m = {}
    BY <2>3, <2>4
  <2>5. CASE m # {}
    <3>1. /\ OneOf(m) \in m /\ Rest(m) \in SUBSET S /\ Rest(m) \notin B
      BY <2>2, <2>5, RestSmaller
    <3>2. g[Rest(m)] \in Nat /\ \A x \in Rest(m) : w[x] <= g[Rest(m)]
      BY <3>1
    <3>3. w[OneOf(m)] \in Nat /\ \A x \in m : w[x] \in Nat
      BY <3>1
    <3>4. \A x \in m : x = OneOf(m) \/ x \in Rest(m)
      BY DEF Rest
    <3>5. g[m] = w[OneOf(m)] + g[Rest(m)]
      BY <2>3, <2>5
    <3>6. g[m] \in Nat /\ \A x \in m : w[x] <= g[m]
      BY <3>2, <3>3, <3>4, <3>5
    <3> QED BY <3>6
  <2> QED BY <2>4, <2>5
<1> QED BY <1>1

-----------------------------------------------------------------------------
(* GetCapacity.                                                            *)

\* The locations of a listing, and what each of them counts for.
Listed(ip, location, up) == {v \in ListDsmVolumes(ip, up) : location \in {None, v[2]}}
Room(v) == IF disk[v[1]][v[2]].free = Unreadable THEN 0 ELSE disk[v[1]][v[2]].free

\* There are finitely many DSMs and locations.
LEMMA ListedFinite ==
  ASSUME NEW ip, NEW location, NEW up
  PROVE  IsFiniteSet(Listed(ip, location, up))
<1>1. ASSUME NEW T, NEW s \in Seq(T) PROVE IsFiniteSet({s[i] : i \in DOMAIN s})
  <2> DEFINE R == {s[i] : i \in DOMAIN s}
             f == [i \in 1..Len(s) |-> s[i]]
  <2>1. DOMAIN s = 1..Len(s) /\ Len(s) \in Nat
    OBVIOUS
  <2>2. IsFiniteSet(1..Len(s))
    BY <2>1, FS_Interval
  <2>3. f \in Surjection(1..Len(s), R)
    BY <2>1 DEF Surjection
  <2> HIDE DEF f, R
  <2>4. IsFiniteSet(R)
    BY <2>2, <2>3, FS_Surjection
  <2> QED BY <2>4 DEF R
<1>2. IsFiniteSet(Dsms)
  BY DsmsFinite
<1>3. \A d \in Dsms : IsFiniteSet(Paths(d))
  BY <1>1, LayoutListed DEF Paths
<1>4. IsFiniteSet(AllPaths)
  <2> DEFINE R == {Paths(d) : d \in Dsms}
             f == [d \in Dsms |-> Paths(d)]
  <2>1. f \in Surjection(Dsms, R)
    BY DEF Surjection
  <2>2. \A T \in R : IsFiniteSet(T)
    BY <1>3
  <2> HIDE DEF f, R
  <2>3. IsFiniteSet(R)
    BY <1>2, <2>1, FS_Surjection
  <2>4. IsFiniteSet(UNION R)
    BY <2>2, <2>3, FS_UNION
  <2> QED BY <2>4 DEF R, AllPaths
<1>5. IsFiniteSet(Dsms \X AllPaths)
  BY <1>2, <1>4, FS_Product
<1>6. Listed(ip, location, up) \in SUBSET (Dsms \X AllPaths)
  BY DEF Listed, ListDsmVolumes
<1> QED BY <1>5, <1>6, FS_Subset

\* GetCapacity tells at least the room of each location it lists.
LEMMA CapacityBounds ==
  ASSUME NEW ip, NEW location, NEW up, NEW v \in Listed(ip, location, up),
         \A u \in Listed(ip, location, up) : Room(u) \in Nat
  PROVE  GetCapacity(ip, location, up) \in Nat /\ Room(v) <= GetCapacity(ip, location, up)
<1> DEFINE S == Listed(ip, location, up)
           w == [u \in S |-> Room(u)]
           Sum(g) == g = [s \in SUBSET S |->
                            IF s = {} THEN 0
                            ELSE Room(CHOOSE x \in s : TRUE) + g[s \ {CHOOSE x \in s : TRUE}]]
           iter == CHOOSE g : Sum(g)
<1>1. GetCapacity(ip, location, up) = iter[S]
  BY DEF GetCapacity, MapThenSumSet, MapThenFoldSet, Listed, Room
<1>2. IsFiniteSet(S) /\ w \in [S -> Nat]
  BY ListedFinite
<1>3. \A g : Sum(g) <=> SumsUp(g, S, w)
  <2>1. ASSUME NEW g, NEW s \in SUBSET S, s # {}
        PROVE  w[OneOf(s)] + g[Rest(s)] =
                 Room(CHOOSE x \in s : TRUE) + g[s \ {CHOOSE x \in s : TRUE}]
    <3>1. OneOf(s) \in S
      BY <2>1, RestSmaller
    <3>2. w[OneOf(s)] = Room(OneOf(s))
      BY <3>1
    <3> HIDE DEF w
    <3> QED BY <3>2 DEF OneOf, Rest
  <2> HIDE DEF S, w
  <2>2. ASSUME NEW g
        PROVE  [s \in SUBSET S |-> IF s = {} THEN 0 ELSE w[OneOf(s)] + g[Rest(s)]]
                 = [s \in SUBSET S |->
                      IF s = {} THEN 0
                      ELSE Room(CHOOSE x \in s : TRUE) + g[s \ {CHOOSE x \in s : TRUE}]]
    BY <2>1
  <2> QED BY <2>2 DEF SumsUp
<1>4. SumsUp(iter, S, w)
  <2> HIDE DEF S, w
  <2>1. \E g : SumsUp(g, S, w)
    BY <1>2, SumExists
  <2>2. \E g : Sum(g)
    BY <1>3, <2>1
  <2> HIDE DEF Sum
  <2>3. Sum(iter)
    BY <2>2
  <2> QED BY <1>3, <2>3
<1>5. iter[S] \in Nat /\ \A x \in S : w[x] <= iter[S]
  <2> HIDE DEF S, w, iter
  <2> QED BY <1>2, <1>4, SumBounds
<1> HIDE DEF iter
<1> QED BY <1>1, <1>5

\* A location that CreateVolume chooses has more room than the size it chose it for.
LEMMA ChosenHasRoom ==
  ASSUME NEW d \in Dsms, NEW size, FirstAvailable(d, size) # None
  PROVE  /\ FirstAvailable(d, size) \in Paths(d)
         /\ disk[d][FirstAvailable(d, size)].free # Unreadable
         /\ disk[d][FirstAvailable(d, size)].free > size
<1> DEFINE v(i) == disk[d][Layout[d][i]]
           hits == {i \in DOMAIN Layout[d] : v(i).free = Unreadable \/ Available(v(i), size)}
<1>1. hits # {} /\ v(Min(hits)).free # Unreadable /\ FirstAvailable(d, size) = Layout[d][Min(hits)]
  BY DEF FirstAvailable
<1>2. Min(hits) \in hits
  <2>1. hits \in SUBSET Nat
    BY LayoutListed
  <2> HIDE DEF hits
  <2> QED BY <1>1, <2>1, Least
<1>3. Min(hits) \in DOMAIN Layout[d] /\ Available(v(Min(hits)), size)
  <2> DEFINE m == Min(hits)
  <2>1. m \in hits /\ v(m).free # Unreadable
    BY <1>1, <1>2
  <2> HIDE DEF m
  <2> QED BY <2>1 DEF m
<1> QED BY <1>1, <1>3 DEF Available, Paths

\* Wherever CreateVolume would choose a location, GetCapacity, asked for the DSM, or
\* for the DSM and that location, tells more than the size: the cluster keeps no
\* pod from a place where its volume would fit.
THEOREM RoomReported == Spec => []CapacityCovers
<1>1. IInv => CapacityCovers
  <2> SUFFICES ASSUME IInv, NEW r \in Requests, NEW up \in SUBSET Dsms, NEW d \in up,
                      Asked[r].dsm \in {None, d},
                      FirstAvailable(d, Asked[r].size) # None,
                      NEW location \in {None, FirstAvailable(d, Asked[r].size)}
               PROVE  GetCapacity(Asked[r].dsm, location, up) > Asked[r].size
    BY DEF CapacityCovers
  <2> DEFINE p == FirstAvailable(d, Asked[r].size)
             S == Listed(Asked[r].dsm, location, up)
  <2>1. /\ d \in Dsms /\ p \in Paths(d) /\ Asked[r].size \in Nat
        /\ disk[d][p].free # Unreadable /\ disk[d][p].free > Asked[r].size
    BY ChosenHasRoom, AskedTyped DEF RequestType, IInv
  <2>2. \A u \in S : Room(u) \in Nat
    <3> SUFFICES ASSUME NEW u \in S PROVE Room(u) \in Nat
      OBVIOUS
    <3>1. u[1] \in Dsms /\ u[2] \in Paths(u[1])
      BY DEF Listed, ListDsmVolumes
    <3>2. disk[u[1]][u[2]] \in DiskType
      BY <3>1 DEF IInv, TypeOK
    <3> QED BY <3>2 DEF DiskType, Room
  <2>3. <<d, p>> \in S
    BY <2>1 DEF Listed, ListDsmVolumes, AllPaths
  <2>4. Room(<<d, p>>) = disk[d][p].free
    BY <2>1 DEF Room
  <2>5. disk[d][p].free \in Nat
    BY <2>2, <2>3, <2>4
  <2>6. /\ GetCapacity(Asked[r].dsm, location, up) \in Nat
        /\ Room(<<d, p>>) <= GetCapacity(Asked[r].dsm, location, up)
    BY <2>2, <2>3, CapacityBounds
  <2> HIDE DEF p
  <2> QED BY <2>1, <2>4, <2>5, <2>6
<1> QED BY <1>1, Invariance, PTL
=============================================================================
