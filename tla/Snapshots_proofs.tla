---------------------------- MODULE Snapshots_proofs ----------------------------
(***************************************************************************)
(* Proofs about Snapshots, for every world and every number of volumes,    *)
(* snapshots, copies, handlers and mishaps.                                *)
(***************************************************************************)
EXTENDS Snapshots, TLAPS

CreatePcs == {"GetVolume", "SnapshotCreate"}
DeletePcs == {"SnapshotDelete", "SnapshotGet"}
RestorePcs == {"CopyList", "SnapshotClone", "WaitClone", "Map"}

Born(u) == snap[u].st # "unborn"

\* The cluster has given the snapshot of n up.
GivenUp(n) == phase[n] \in {"released", "deleted"}

\* The cluster waits for every answer, so that no request has two handlers.
Waits == "Deadline" \notin Faulty

\* Snapshots bear the name and show the volume they were taken for; a share's
\* are told apart by their time while they are there.
SnapInv ==
    /\ \A u \in Uuids : Born(u) =>
         /\ snap[u].name \in Names /\ snap[u].parent = SourceOf[snap[u].name]
         /\ Live(u) => snap[u].parent \in alive
    /\ Smb => \A u, w \in Uuids : /\ Live(u) /\ Live(w)
                                  /\ snap[u].parent = snap[w].parent
                                  /\ snap[u].time = snap[w].time
                                  => u = w

PhaseInv ==
    /\ \A n \in Names : phase[n] # "wanted" =>
         /\ snapId[n] \in Uuids /\ Born(snapId[n])
         /\ Careful => snap[snapId[n]].name = n
    /\ Careful => \A n \in Names : phase[n] = "bound" /\ SourceOf[n] \in alive =>
                     snap[snapId[n]].st = "healthy"

\* A copy is of a snapshot of the right name, a share's is made at once, and one
\* that was reported is listed.
CopyInv ==
    \A r \in Copies :
        /\ copy[r].st # "none" =>
             /\ copy[r].of \in Uuids /\ Born(copy[r].of)
             /\ Careful => snap[copy[r].of].name = FromOf[r]
             /\ Smb => copy[r].st = "listed"
        /\ phase[r] = "bound" => copy[r].st = "listed"

\* The request of a handler and where it may be in serving it.
RequestInv(c) ==
    /\ call[c].op = "none" => call[c].pc = "idle"
    /\ ~Busy(c) => call[c].op = "none"
    /\ Waits /\ Busy(c) => call[c].live
    /\ call[c].pc # "SnapshotList" => call[c].found = None
    /\ call[c].op = "create" =>
         /\ call[c].name \in Names /\ call[c].name \in world.names
         /\ call[c].by \in {"name", "made"}
         /\ call[c].pc \in {"VolumeList", "SnapshotList"} \cup CreatePcs
         /\ call[c].pc \in CreatePcs => call[c].by = "name"
    /\ call[c].op = "delete" =>
         /\ call[c].name \in Names /\ GivenUp(call[c].name)
         /\ call[c].id = snapId[call[c].name]
         /\ call[c].by \in {"uuid", "gone"}
         /\ call[c].pc \in {"VolumeList", "SnapshotList"} \cup DeletePcs
         /\ call[c].pc = "SnapshotDelete" => call[c].by = "uuid"
    /\ call[c].op = "restore" =>
         /\ call[c].name \in Copies /\ phase[FromOf[call[c].name]] # "wanted"
         /\ call[c].id = snapId[FromOf[call[c].name]]
         /\ call[c].by = "uuid"
         /\ call[c].pc \in {"VolumeList", "SnapshotList"} \cup RestorePcs

\* The cluster waits for the handler's answer to bind the name.
Awaited(c) == call[c].live /\ phase[call[c].name] = "wanted"

\* What a creation has made, and what it found: something of its name that stays
\* while the cluster waits for it.
CreateInv(c) ==
    call[c].op = "create" =>
        /\ call[c].by = "made" =>
             /\ call[c].id \in Uuids /\ Born(call[c].id)
             /\ snap[call[c].id].name = call[c].name
             /\ Smb => snap[call[c].id].time = call[c].time
             /\ Careful /\ Awaited(c) => Live(call[c].id)
        /\ call[c].found # None =>
             /\ Born(call[c].found)
             /\ call[c].by = "name" => snap[call[c].found].name = call[c].name
             /\ call[c].by = "made" /\ (Smb => Careful /\ Awaited(c)) =>
                  call[c].found = call[c].id
             /\ Careful /\ Awaited(c) => Live(call[c].found)
             /\ call[c].ready => snap[call[c].found].st # "taking"

\* What the other listings found is what they were for.
FoundInv(c) ==
    call[c].op \in {"delete", "restore"} /\ call[c].found # None => call[c].found = call[c].id

\* A deletion by time hits the snapshot it is for: that one is there, or its
\* share is gone.
DeleteInv(c) ==
    /\ call[c].op = "delete" /\ call[c].by = "uuid"
    /\ call[c].pc = "SnapshotDelete" \/ call[c].found # None
    /\ Smb /\ Waits
    => Live(call[c].id) \/ snap[call[c].id].parent \notin alive

\* A listing without a failure that has found nothing has not yet come to the
\* volume whose snapshot it is for; a creation goes on when there is none.
ListInv(c) ==
    LookupsWork =>
        \A u \in Uuids :
            /\ Live(u) /\ call[c].pc = "SnapshotList" /\ call[c].found = None
            /\ \/ call[c].op = "delete" /\ u = call[c].id
               \/ call[c].op = "create" /\ call[c].by = "name"
                  /\ snap[u].name = call[c].name /\ Waits
            => snap[u].parent \in call[c].todo

NoneYet(c) ==
    LookupsWork /\ Waits /\ call[c].pc \in CreatePcs =>
        \A u \in Uuids : ~(Live(u) /\ snap[u].name = call[c].name)

\* A copy is mapped when it is complete.
RestoreInv(c) ==
    /\ call[c].pc \in {"WaitClone", "Map"} => ~Smb /\ copy[call[c].name].st # "none"
    /\ call[c].pc = "Map" => copy[call[c].name].st # "cloning"
    /\ call[c].pc = "SnapshotClone" => call[c].id \in Uuids

CallInv(c) == /\ RequestInv(c) /\ CreateInv(c) /\ FoundInv(c) /\ DeleteInv(c)
              /\ ListInv(c) /\ NoneYet(c) /\ RestoreInv(c)

\* The cluster waits for one handler at a time for each name.
OneCall == \A c, d \in Calls : Busy(c) /\ Busy(d) /\ call[c].live /\ call[d].live
                              /\ call[c].name = call[d].name => c = d

IInv == /\ TypeOK /\ world \in Worlds
        /\ SnapInv /\ PhaseInv /\ CopyInv /\ OneCall
        /\ \A c \in Calls : CallInv(c)
        /\ OneSnapshotPerName /\ DeletedGone

-----------------------------------------------------------------------------
(* What no step undoes.                                                    *)

LEMMA SameWorld ==
  ASSUME world' = world
  PROVE  /\ (Smb' <=> Smb) /\ (Waits' <=> Waits) /\ (Careful' <=> Careful)
         /\ (LookupsWork' <=> LookupsWork)
         /\ SourceOf' = SourceOf /\ Faulty' = Faulty /\ MaxFaults' = MaxFaults
         /\ Smb /\ Careful => Waits
         /\ ~Smb \/ Waits => Careful
  BY DEF Smb, Waits, Careful, LookupsWork, SourceOf, Faulty, MaxFaults

LEMMA WorldTyped ==
  ASSUME world \in Worlds
  PROVE  SourceOf \in [Names -> Volumes] /\ MaxFaults \in Nat /\ world.names \subseteq Names
  BY WorldsTyped DEF SourceOf, MaxFaults

\* Snapshots keep their identity and are not taken back once deleted, names are
\* not taken back once bound or given up, and keep their snapshot.
Steady ==
    /\ world' = world
    /\ \A u \in Uuids : Born(u) =>
         /\ Born(u)' /\ snap'[u].name = snap[u].name
         /\ snap'[u].parent = snap[u].parent /\ snap'[u].time = snap[u].time
         /\ Live(u)' => Live(u)
         /\ snap[u].st # "taking" => snap'[u].st # "taking"
    /\ \A n \in Names : /\ phase[n] # "wanted" => phase'[n] # "wanted" /\ snapId'[n] = snapId[n]
                        /\ GivenUp(n) => GivenUp(n)'

\* Copies stay what they are copies of, and complete.
CopySteady ==
    \A r \in Copies : copy[r].st # "none" =>
        /\ copy'[r].st # "none" /\ copy'[r].of = copy[r].of
        /\ copy[r].st # "cloning" => copy'[r].st # "cloning"
        /\ copy[r].st = "listed" => copy'[r].st = "listed"

\* A snapshot goes because it was given up, or with its volume.
Losses ==
    Careful => \A u \in Uuids : Live(u) /\ ~Live(u)' =>
        \/ GivenUp(snap[u].name)
        \/ /\ snap[u].parent \notin alive'
           /\ snap[u].name \in world.names => phase[snap[u].name] # "wanted"

\* A step binds a name to a ready snapshot of that name only.
Binds ==
    \A n \in Names : phase[n] = "wanted" /\ phase'[n] # "wanted" =>
        /\ snapId'[n] \in Uuids /\ Born(snapId[n])'
        /\ Careful => snap'[snapId'[n]].name = n /\ snap'[snapId'[n]].st = "healthy"

\* A step reports a deletion only if the snapshot has gone.
Deletes ==
    \A n \in Names : phase'[n] = "deleted" /\ phase[n] # "deleted" =>
        phase[n] # "wanted" /\ (LookupsWork => ~Live(snapId[n])')

LEMMA ClusterKept ==
  ASSUME IInv, TypeOK', alive' \subseteq alive, Steady, Losses, Binds, Deletes
  PROVE  PhaseInv' /\ DeletedGone'
<1> USE SameWorld DEF Steady
<1>1. ASSUME NEW n \in Names, phase'[n] # "wanted"
      PROVE  /\ snapId'[n] \in Uuids /\ Born(snapId[n])'
             /\ Careful => snap'[snapId'[n]].name = n
             /\ Careful /\ phase'[n] = "bound" /\ SourceOf[n] \in alive' =>
                  snap'[snapId'[n]].st = "healthy"
  <2>1. CASE phase[n] = "wanted"
    BY <1>1, <2>1 DEF Binds
  <2>2. CASE phase[n] # "wanted"
    <3>1. PICK u \in Uuids : u = snapId[n] /\ Born(u) /\ (Careful => snap[u].name = n)
      BY <2>2 DEF IInv, PhaseInv
    <3>2. snapId'[n] = u /\ Born(u)' /\ (Careful => snap'[u].name = n)
      BY <2>2, <3>1
    <3>3. ASSUME Careful, phase'[n] = "bound", SourceOf[n] \in alive'
          PROVE  snap'[u].st = "healthy"
      <4>1. phase[n] = "bound" /\ ~GivenUp(n)
        BY <2>2, <3>3 DEF GivenUp, IInv, TypeOK
      <4>2. snap[u].st = "healthy" /\ Live(u)
        BY <3>1, <3>3, <4>1 DEF IInv, PhaseInv, Live
      <4>3. snap[u].parent \in alive'
        BY <3>1, <3>3 DEF IInv, SnapInv
      <4>4. Live(u)'
        BY <3>1, <3>3, <4>1, <4>2, <4>3 DEF Losses
      <4>5. snap'[u].st # "taking"
        BY <3>1, <4>2
      <4> QED BY <4>4, <4>5 DEF Live
    <3> QED BY <3>1, <3>2, <3>3
  <2> QED BY <2>1, <2>2
<1>2. PhaseInv'
  BY <1>1 DEF PhaseInv, Born
<1>3. DeletedGone'
  <2> SUFFICES ASSUME LookupsWork, NEW n \in Names, phase'[n] = "deleted"
               PROVE  snapId'[n] # None /\ ~Live(snapId[n])'
    BY DEF DeletedGone, Live
  <2>1. snapId'[n] \in Uuids /\ snapId'[n] # None
    BY <1>1, NoneIsNone
  <2>2. CASE phase[n] = "deleted"
    BY <2>1, <2>2 DEF IInv, DeletedGone, PhaseInv, Live
  <2>3. CASE phase[n] # "deleted"
    BY <2>1, <2>3 DEF Deletes
  <2> QED BY <2>1, <2>2, <2>3
<1> QED BY <1>2, <1>3

\* What a step that makes or removes a snapshot must leave to another handler.
Spares(d) ==
    /\ Smb /\ Waits /\ call[d].op = "delete" =>
         \A u \in Uuids : u = call[d].id /\ Live(u) => Live(u)' \/ snap[u].parent \notin alive'
    /\ Waits /\ call[d].op = "create" =>
         \A u \in Uuids : Live(u)' /\ ~Live(u) => snap'[u].name # call[d].name

\* A handler that does not move keeps its invariant, whatever the others do.
LEMMA OtherCall ==
  ASSUME IInv, TypeOK', alive' \subseteq alive, Steady, CopySteady, Losses,
         NEW d \in Calls, call'[d] = call[d], Spares(d)
  PROVE  CallInv(d)'
<1> USE SameWorld DEF Steady
<1>0. CallInv(d) /\ call[d] \in CallType
  BY DEF IInv, TypeOK
<1>a. ASSUME call[d].op \in {"delete", "restore"}, call[d].id # None
      PROVE  call[d].id \in Uuids /\ Born(call[d].id)
  BY <1>0, <1>a, NoneIsNone, FromOfTyped DEF IInv, CallInv, RequestInv, PhaseInv, GivenUp
<1>1. RequestInv(d)'
  BY <1>0, FromOfTyped DEF CallInv, RequestInv, Busy, GivenUp
<1>2. CreateInv(d)'
  <2> SUFFICES ASSUME call[d].op = "create" PROVE CreateInv(d)'
    BY DEF CreateInv
  <2>0. call[d].name \in Names /\ call[d].name \in world.names
    BY <1>0 DEF CallInv, RequestInv
  <2>1. ASSUME Careful, Awaited(d)', NEW u \in Uuids, Live(u), snap[u].name = call[d].name
        PROVE  Live(u)'
    BY <2>0, <2>1 DEF Losses, Awaited, GivenUp
  <2>2. Awaited(d)' => Awaited(d)
    BY <2>0 DEF Awaited
  <2>3. ASSUME call[d].by = "made"
        PROVE  /\ call[d].id \in Uuids /\ Born(call[d].id)'
               /\ snap'[call[d].id].name = call[d].name
               /\ Smb => snap'[call[d].id].time = call[d].time
               /\ Careful /\ Awaited(d)' => Live(call[d].id)'
    BY <1>0, <2>1, <2>2, <2>3 DEF CallInv, CreateInv
  <2>4. ASSUME call[d].found # None
        PROVE  /\ Born(call[d].found)'
               /\ call[d].by = "name" => snap'[call[d].found].name = call[d].name
               /\ call[d].by = "made" /\ (Smb => Careful /\ Awaited(d)') =>
                    call[d].found = call[d].id
               /\ Careful /\ Awaited(d)' => Live(call[d].found)'
               /\ call[d].ready => snap'[call[d].found].st # "taking"
    <3>1. PICK u \in Uuids : u = call[d].found
      BY <1>0, <2>4 DEF CallType
    <3>2. /\ Born(u) /\ (call[d].by = "name" => snap[u].name = call[d].name)
          /\ call[d].by = "made" /\ (Smb => Careful /\ Awaited(d)) => u = call[d].id
          /\ Careful /\ Awaited(d) => Live(u)
          /\ call[d].ready => snap[u].st # "taking"
      BY <1>0, <2>4, <3>1 DEF CallInv, CreateInv
    <3>3. Careful /\ Awaited(d) => snap[u].name = call[d].name
      BY <1>0, <3>2 DEF CallInv, CreateInv, RequestInv
    <3>4. Careful /\ Awaited(d)' => Live(u)'
      BY <2>1, <2>2, <3>2, <3>3
    <3> QED BY <2>2, <3>1, <3>2, <3>4
  <2> QED BY <2>3, <2>4 DEF CreateInv, Born, Live, Awaited
<1>3. FoundInv(d)'
  BY <1>0 DEF CallInv, FoundInv
<1>4. DeleteInv(d)'
  <2> SUFFICES ASSUME /\ call[d].op = "delete" /\ call[d].by = "uuid"
                      /\ call[d].pc = "SnapshotDelete" \/ call[d].found # None
                      /\ Smb /\ Waits
               PROVE  Live(call[d].id)' \/ snap'[call[d].id].parent \notin alive'
    BY DEF DeleteInv, Live
  <2>1. call[d].id \in Uuids /\ Born(call[d].id)
    BY <1>0 DEF IInv, CallInv, RequestInv, PhaseInv, GivenUp
  <2>2. Live(call[d].id) \/ snap[call[d].id].parent \notin alive
    BY <1>0 DEF CallInv, DeleteInv
  <2> QED BY <2>1, <2>2 DEF Spares
<1>5. ListInv(d)'
  <2> SUFFICES ASSUME LookupsWork, NEW u \in Uuids, Live(u)', call[d].pc = "SnapshotList",
                      call[d].found = None,
                      \/ call[d].op = "delete" /\ u = call[d].id
                      \/ /\ call[d].op = "create" /\ call[d].by = "name"
                         /\ snap'[u].name = call[d].name /\ Waits
               PROVE  snap'[u].parent \in call[d].todo
    BY DEF ListInv, Live
  <2>1. Live(u)
    <3>1. CASE call[d].op = "delete" /\ u = call[d].id
      BY <1>a, <3>1, NoneIsNone
    <3>2. CASE call[d].op = "create" /\ snap'[u].name = call[d].name /\ Waits
      BY <3>2 DEF Spares
    <3> QED BY <3>1, <3>2
  <2>2. Born(u) /\ snap[u].name = snap'[u].name /\ snap[u].parent = snap'[u].parent
    BY <2>1 DEF Live, Born
  <2> QED BY <1>0, <2>1, <2>2 DEF CallInv, ListInv
<1>6. NoneYet(d)'
  <2> SUFFICES ASSUME LookupsWork, Waits, call[d].pc \in CreatePcs, NEW u \in Uuids,
                      Live(u)', snap'[u].name = call[d].name
               PROVE  FALSE
    BY DEF NoneYet, Live
  <2>1. call[d].op = "create"
    BY <1>0 DEF CallInv, RequestInv, CreatePcs, DeletePcs, RestorePcs, Busy, CallType
  <2>2. Live(u) /\ Born(u)
    BY <2>1 DEF Spares, Live, Born
  <2> QED BY <1>0, <2>2 DEF CallInv, NoneYet
<1>7. RestoreInv(d)'
  <2>1. call[d].pc \in {"WaitClone", "Map"} => call[d].name \in Copies
    BY <1>0 DEF CallInv, RequestInv, CreatePcs, DeletePcs, RestorePcs, Busy, CallType
  <2> QED BY <1>0, <2>1 DEF CallInv, RestoreInv, CopySteady
<1> QED BY <1>1, <1>2, <1>3, <1>4, <1>5, <1>6, <1>7 DEF CallInv

LEMMA IdleCallInv ==
  ASSUME NEW c \in Calls, call'[c] = IdleCall
  PROVE  CallInv(c)'
  BY DEF CallInv, RequestInv, CreateInv, FoundInv, DeleteInv, ListInv, NoneYet, RestoreInv,
     IdleCall, Busy, CreatePcs

LEMMA IdleCallType == IdleCall \in CallType
  BY DEF IdleCall, CallType

-----------------------------------------------------------------------------
(* Steps by their effect.                                                  *)

\* The handler ends, or goes on for the same name.
GoesOn(c, x) == x = IdleCall \/ (Busy(c) /\ x.name = call[c].name /\ (x.live => call[c].live))

LEMMA CallsKept ==
  ASSUME IInv, NEW c \in Calls, NEW x \in CallType, call' = [call EXCEPT ![c] = x], GoesOn(c, x)
  PROVE  OneCall' /\ (\A d \in Calls : d # c => call'[d] = call[d]) /\ call'[c] = x
<1>1. (\A d \in Calls : d # c => call'[d] = call[d]) /\ call'[c] = x
  BY DEF IInv, TypeOK
<1>2. Busy(c)' => Busy(c) /\ call'[c].name = call[c].name /\ (call'[c].live => call[c].live)
  BY <1>1 DEF GoesOn, Busy, IdleCall
<1> QED BY <1>1, <1>2 DEF IInv, OneCall, Busy

\* A step of handler c that keeps the invariants of the DSM keeps them all.
LEMMA StepOf ==
  ASSUME IInv, TypeOK', SnapInv', CopyInv', OneSnapshotPerName', alive' \subseteq alive,
         Steady, CopySteady, Losses, Binds, Deletes,
         NEW c \in Calls, NEW x \in CallType, call' = [call EXCEPT ![c] = x], GoesOn(c, x),
         CallInv(c)', \A d \in Calls : d # c => Spares(d)
  PROVE  IInv'
<1>1. PhaseInv' /\ DeletedGone'
  BY ClusterKept
<1>2. \A d \in Calls : CallInv(d)'
  BY CallsKept, OtherCall
<1>3. OneCall'
  BY CallsKept
<1>4. world' \in Worlds
  BY DEF Steady, IInv
<1> QED BY <1>1, <1>2, <1>3, <1>4 DEF IInv

\* What the cluster may make of the answer of c: bind the name of a creation to
\* the snapshot u, report a deletion or a copy.
Settles(c, u) ==
    /\ phase' \in [Names \cup Copies -> {"wanted", "bound", "released", "deleted"}]
    /\ snapId' \in [Names -> Uuids \cup {None}]
    /\ \A n \in Names :
         /\ phase[n] # "wanted" => phase'[n] # "wanted" /\ snapId'[n] = snapId[n]
         /\ GivenUp(n) => GivenUp(n)'
         /\ phase[n] = "wanted" /\ phase'[n] # "wanted" =>
              call[c].op = "create" /\ n = call[c].name /\ Awaited(c) /\ snapId'[n] = u
         /\ phase'[n] = "deleted" /\ phase[n] # "deleted" =>
              call[c].op = "delete" /\ n = call[c].name
    /\ \A r \in Copies : phase'[r] = "bound" /\ phase[r] # "bound" =>
              call[c].op = "restore" /\ r = call[c].name

LEMMA Endings ==
  ASSUME IInv, NEW c \in Calls, Busy(c), NEW u,
         \/ Refuse(c)
         \/ call[c].op = "create" /\ u \in Uuids /\ CreateDone(c, u, TRUE)
         \/ call[c].op = "delete" /\ DeleteDone(c)
         \/ call[c].op = "restore" /\ RestoreDone(c)
  PROVE  /\ Settles(c, u) /\ CallInv(c)'
         /\ call' = [call EXCEPT ![c] = IdleCall]
<1>1. call' = [call EXCEPT ![c] = IdleCall]
  BY DEF Refuse, CreateDone, DeleteDone, RestoreDone, Return
<1>2. CallInv(c)'
  BY <1>1, IdleCallInv DEF IInv, TypeOK
<1>3. /\ call[c].op \in {"create", "delete"} => call[c].name \in Names
      /\ call[c].op = "restore" => call[c].name \in Copies
      /\ call[c].op = "delete" => GivenUp(call[c].name)
  BY DEF IInv, CallInv, RequestInv
<1>4. ASSUME Refuse(c) PROVE Settles(c, u)
  BY <1>4 DEF Refuse, clusterVars, Settles, IInv, TypeOK, GivenUp
<1>5. ASSUME call[c].op = "create", u \in Uuids, CreateDone(c, u, TRUE) PROVE Settles(c, u)
  BY <1>5, <1>3, NamesApart DEF CreateDone, Answers, clusterVars, Settles, Awaited, IInv, TypeOK, GivenUp
<1>6. ASSUME call[c].op = "delete", DeleteDone(c) PROVE Settles(c, u)
  BY <1>6, <1>3, NamesApart DEF DeleteDone, Answers, Settles, IInv, TypeOK, GivenUp
<1>7. ASSUME call[c].op = "restore", RestoreDone(c) PROVE Settles(c, u)
  BY <1>7, <1>3, NamesApart DEF RestoreDone, Answers, Settles, IInv, TypeOK, GivenUp
<1> QED BY <1>1, <1>2, <1>4, <1>5, <1>6, <1>7

LEMMA NoAnswer ==
  ASSUME IInv, UNCHANGED clusterVars, NEW c, NEW u
  PROVE  Settles(c, u)
  BY DEF IInv, TypeOK, clusterVars, Settles, GivenUp

\* A step of c that changes no snapshot.
LEMMA SnapsKept ==
  ASSUME IInv, UNCHANGED <<alive, snap, world>>, NEW c \in Calls, NEW u, Settles(c, u),
         call[c].op = "create" /\ Awaited(c) /\ (\E n \in Names : phase[n] # phase'[n]) =>
             /\ u \in Uuids /\ Born(u)
             /\ Careful => snap[u].name = call[c].name /\ snap[u].st = "healthy",
         call[c].op = "delete" /\ LookupsWork /\ (\E n \in Names : phase[n] # phase'[n]) =>
             ~Live(call[c].id)
  PROVE  /\ SnapInv' /\ OneSnapshotPerName' /\ Steady /\ Losses /\ Binds /\ Deletes
         /\ \A d \in Calls : Spares(d)
<1> USE SameWorld
<1>0. \A w \in Uuids : (Live(w)' <=> Live(w)) /\ (Born(w)' <=> Born(w))
  BY DEF Live, Born
<1>1. SnapInv'
  BY <1>0 DEF IInv, SnapInv
<1>2. OneSnapshotPerName'
  BY <1>0 DEF IInv, OneSnapshotPerName
<1>3. Steady
  BY <1>0 DEF Steady, Settles
<1>4. Losses
  BY <1>0 DEF Losses
<1>5. Binds
  BY <1>0 DEF Binds, Settles, Born
<1>6. Deletes
  <2> SUFFICES ASSUME NEW n \in Names, phase'[n] = "deleted", phase[n] # "deleted"
               PROVE  phase[n] # "wanted" /\ (LookupsWork => ~Live(snapId[n])')
    BY DEF Deletes
  <2>1. call[c].op = "delete" /\ n = call[c].name
    BY DEF Settles
  <2>2. GivenUp(n) /\ call[c].id = snapId[n]
    BY <2>1 DEF IInv, CallInv, RequestInv
  <2>3. snapId'[n] = snapId[n]
    BY <2>2 DEF Settles, GivenUp
  <2> QED BY <2>1, <2>2, <2>3 DEF GivenUp, Live
<1>7. \A d \in Calls : Spares(d)
  BY <1>0 DEF Spares
<1> QED BY <1>1, <1>2, <1>3, <1>4, <1>5, <1>6, <1>7

LEMMA CopiesKept ==
  ASSUME IInv, UNCHANGED <<copy, world>>, Steady, NEW c, NEW u, Settles(c, u),
         call[c].op = "restore" /\ (\E r \in Copies : phase[r] # phase'[r]) =>
             copy[call[c].name].st = "listed"
  PROVE  CopyInv' /\ CopySteady
  BY SameWorld DEF IInv, CopyInv, CopySteady, Steady, Settles, Born

\* A handler that only moves on.
LEMMA MoveStep ==
  ASSUME IInv, UNCHANGED <<dsmVars, clusterVars, world>>, faults' \in 0..MaxFaults,
         NEW c \in Calls, NEW x \in CallType, call' = [call EXCEPT ![c] = x],
         GoesOn(c, x), CallInv(c)'
  PROVE  IInv'
<1>1. TypeOK'
  BY SameWorld DEF IInv, TypeOK, dsmVars, clusterVars
<1>2. Settles(c, None) /\ UNCHANGED <<phase, snapId, alive, snap, copy>>
  BY NoAnswer DEF clusterVars, dsmVars
<1>3. /\ SnapInv' /\ OneSnapshotPerName' /\ Steady /\ Losses /\ Binds /\ Deletes
      /\ \A d \in Calls : Spares(d)
  BY <1>2, SnapsKept
<1>4. CopyInv' /\ CopySteady
  BY <1>2, <1>3, CopiesKept
<1> QED BY <1>1, <1>2, <1>3, <1>4, StepOf

\* A handler that ends, and changes nothing on the DSM in this step.
LEMMA EndStep ==
  ASSUME IInv, UNCHANGED <<dsmVars, world>>, faults' \in 0..MaxFaults,
         NEW c \in Calls, Busy(c), NEW u,
         \/ Refuse(c)
         \/ /\ call[c].op = "create" /\ u \in Uuids /\ CreateDone(c, u, TRUE)
            /\ Awaited(c) => /\ Born(u)
                             /\ Careful => snap[u].name = call[c].name /\ snap[u].st = "healthy"
         \/ call[c].op = "delete" /\ DeleteDone(c) /\ (LookupsWork => ~Live(call[c].id))
         \/ call[c].op = "restore" /\ RestoreDone(c) /\ copy[call[c].name].st = "listed"
  PROVE  IInv'
<1>0. Settles(c, u) /\ call' = [call EXCEPT ![c] = IdleCall] /\ CallInv(c)'
  BY Endings
<1>1. TypeOK'
  BY <1>0, IdleCallType, SameWorld DEF Settles, IInv, TypeOK, dsmVars
<1>2. UNCHANGED <<alive, snap, copy>>
  BY DEF dsmVars
<1>3. Refuse(c) => UNCHANGED phase
  BY DEF Refuse, clusterVars
<1>4. /\ SnapInv' /\ OneSnapshotPerName' /\ Steady /\ Losses /\ Binds /\ Deletes
      /\ \A d \in Calls : Spares(d)
  BY <1>0, <1>2, <1>3, SnapsKept
<1>5. CopyInv' /\ CopySteady
  BY <1>0, <1>2, <1>3, <1>4, CopiesKept
<1> QED BY <1>0, <1>1, <1>2, <1>4, <1>5, StepOf, IdleCallType DEF GoesOn

LEMMA FaultsTyped ==
  ASSUME IInv, NEW k, NEW o, Mishap(k) \/ Outcome(k, o) \/ UNCHANGED faults
  PROVE  faults' \in 0..MaxFaults
  BY WorldTyped DEF Mishap, Outcome, IInv, TypeOK

-----------------------------------------------------------------------------
(* The steps of a handler that change nothing on the DSM.                  *)

LEMMA CopyListStep ==
  ASSUME IInv, NEW c \in Calls, CopyList(c), UNCHANGED world
  PROVE  IInv'
<1>0. /\ At(c, "CopyList") /\ Busy(c) /\ UNCHANGED dsmVars /\ faults' \in 0..MaxFaults
      /\ call[c] \in CallType /\ CallInv(c)
  BY FaultsTyped DEF CopyList, At, Busy, IInv, TypeOK
<1>1. call[c].op = "restore"
  BY <1>0 DEF CallInv, RequestInv, At, Busy, CreatePcs, DeletePcs, CallType
<1>2. CASE copy[call[c].name].st = "listed" /\ RestoreDone(c)
  BY <1>0, <1>1, <1>2, EndStep
<1>3. CASE Goto(c, "VolumeList") /\ UNCHANGED clusterVars
  <2> DEFINE x == [call[c] EXCEPT !.pc = "VolumeList"]
  <2>1. x \in CallType /\ call' = [call EXCEPT ![c] = x] /\ GoesOn(c, x) /\ call'[c] = x
    BY <1>0, <1>3 DEF Goto, GoesOn, CallType, IInv, TypeOK
  <2>2. CallInv(c)'
    BY <1>0, <1>1, <1>3, <2>1, SameWorld
    DEF At, CallInv, RequestInv, CreateInv, FoundInv, DeleteInv, ListInv, NoneYet, RestoreInv,
        CallType, Busy, CreatePcs, DeletePcs, clusterVars, dsmVars, GivenUp
  <2> QED BY <1>0, <1>3, <2>1, <2>2, MoveStep
<1> QED BY <1>2, <1>3 DEF CopyList

LEMMA VolumeListStep ==
  ASSUME IInv, NEW c \in Calls, VolumeList(c), UNCHANGED world
  PROVE  IInv'
<1>0. /\ At(c, "VolumeList") /\ Busy(c) /\ UNCHANGED <<dsmVars, clusterVars>>
      /\ faults' \in 0..MaxFaults /\ call[c] \in CallType /\ CallInv(c) /\ alive \subseteq Volumes
  BY FaultsTyped DEF VolumeList, At, Busy, IInv, TypeOK
<1>1. PICK seen \in SUBSET Volumes :
        /\ call' = [call EXCEPT ![c].pc = "SnapshotList", ![c].todo = seen]
        /\ LookupsWork => seen = alive
  BY <1>0 DEF VolumeList, Mishap, LookupsWork
<1> DEFINE x == [call[c] EXCEPT !.pc = "SnapshotList", !.todo = seen]
<1>2. x \in CallType /\ call' = [call EXCEPT ![c] = x] /\ GoesOn(c, x) /\ call'[c] = x
  BY <1>0, <1>1 DEF GoesOn, CallType, IInv, TypeOK
<1>3. /\ RequestInv(c)' /\ CreateInv(c)' /\ FoundInv(c)' /\ DeleteInv(c)'
      /\ NoneYet(c)' /\ RestoreInv(c)'
  BY <1>0, <1>2, SameWorld
  DEF CallInv, RequestInv, CreateInv, FoundInv, DeleteInv, NoneYet, RestoreInv, At, Awaited,
      CallType, Busy, CreatePcs, DeletePcs, RestorePcs, clusterVars, dsmVars, GivenUp, Live, Born
<1>4. ListInv(c)'
  <2>1. \A u \in Uuids : Live(u) => snap[u].parent \in alive
    BY DEF IInv, SnapInv, Live, Born
  <2>2. LookupsWork => call'[c].todo = alive
    BY <1>0, <1>1, <1>2 DEF CallType
  <2> QED BY <1>0, <2>1, <2>2, SameWorld DEF ListInv, Live, dsmVars
<1> QED BY <1>0, <1>2, <1>3, <1>4, MoveStep DEF CallInv

LEMMA SnapshotListStep ==
  ASSUME IInv, NEW c \in Calls, SnapshotList(c), UNCHANGED world
  PROVE  IInv'
<1>0. /\ At(c, "SnapshotList") /\ Busy(c) /\ UNCHANGED <<dsmVars, clusterVars>>
      /\ call[c] \in CallType /\ CallInv(c) /\ call \in [Calls -> CallType]
  BY DEF SnapshotList, At, Busy, IInv, TypeOK
<1>1. PICK v \in call[c].todo :
        LET rest == [call EXCEPT ![c].todo = @ \ {v}]
            fit == {u \in SnapsOf(v) : Wanted(c, u)}
        IN  \/ (fit = {} \/ call[c].found # None) /\ call' = rest /\ UNCHANGED faults
            \/ /\ call[c].found = None
               /\ \E u \in fit : call' = [rest EXCEPT ![c].found = u,
                                            ![c].ready = (snap[u].st = "healthy")]
               /\ UNCHANGED faults
            \/ Mishap("SnapshotList") /\ call' = rest
  BY DEF SnapshotList
<1>2. faults' \in 0..MaxFaults
  BY <1>1, FaultsTyped
<1> DEFINE fit == {u \in SnapsOf(v) : Wanted(c, u)}
<1>3. CASE /\ call' = [call EXCEPT ![c].todo = @ \ {v}]
           /\ fit = {} \/ call[c].found # None \/ Mishap("SnapshotList")
  <2> DEFINE x == [call[c] EXCEPT !.todo = @ \ {v}]
  <2>1. x \in CallType /\ call' = [call EXCEPT ![c] = x] /\ GoesOn(c, x) /\ call'[c] = x
    BY <1>0, <1>3 DEF GoesOn, CallType
  <2>2. /\ RequestInv(c)' /\ CreateInv(c)' /\ FoundInv(c)' /\ DeleteInv(c)'
        /\ NoneYet(c)' /\ RestoreInv(c)'
    BY <1>0, <2>1, SameWorld
    DEF CallInv, RequestInv, CreateInv, FoundInv, DeleteInv, NoneYet, RestoreInv, At, Awaited,
        CallType, Busy, CreatePcs, DeletePcs, RestorePcs, clusterVars, dsmVars, GivenUp, Live, Born
  <2>3. ListInv(c)'
    <3> SUFFICES ASSUME LookupsWork, NEW u \in Uuids, Live(u), call[c].found = None,
                        \/ call[c].op = "delete" /\ u = call[c].id
                        \/ /\ call[c].op = "create" /\ call[c].by = "name"
                           /\ snap[u].name = call[c].name /\ Waits
                 PROVE  snap[u].parent \in call[c].todo \ {v}
      BY <1>0, <2>1, SameWorld DEF ListInv, Live, dsmVars
    <3>1. snap[u].parent \in call[c].todo
      BY <1>0 DEF CallInv, ListInv, At
    <3>2. fit = {}
      BY <1>3 DEF LookupsWork, Mishap
    <3>3. Wanted(c, u)
      BY <1>0 DEF CallInv, RequestInv, Wanted
    <3>4. snap[u].parent # v
      BY <3>2, <3>3 DEF SnapsOf
    <3> QED BY <3>1, <3>4
  <2> QED BY <1>0, <1>2, <2>1, <2>2, <2>3, MoveStep DEF CallInv
<1>4. ASSUME call[c].found = None, NEW u \in fit,
             call' = [call EXCEPT ![c].todo = @ \ {v}, ![c].found = u,
                                  ![c].ready = (snap[u].st = "healthy")]
      PROVE  IInv'
  <2>a. PICK b \in BOOLEAN : b = (snap[u].st = "healthy")
    OBVIOUS
  <2> DEFINE x == [call[c] EXCEPT !.todo = @ \ {v}, !.found = u, !.ready = b]
  <2>0. u \in Uuids /\ Live(u) /\ Wanted(c, u)
    BY <1>4 DEF SnapsOf
  <2>1. x \in CallType /\ call' = [call EXCEPT ![c] = x] /\ GoesOn(c, x) /\ call'[c] = x
    BY ZenonT(30), <1>0, <1>4, <2>a, <2>0 DEF GoesOn, CallType
  <2>2. RequestInv(c)' /\ NoneYet(c)' /\ RestoreInv(c)' /\ ListInv(c)'
    BY <1>0, <2>0, <2>1, SameWorld, NoneIsNone
    DEF CallInv, RequestInv, NoneYet, RestoreInv, ListInv, At, Awaited, CallType, Busy, CreatePcs,
        DeletePcs, RestorePcs, clusterVars, dsmVars, GivenUp
  <2>3. FoundInv(c)'
    BY <1>0, <2>0, <2>1 DEF CallInv, RequestInv, FoundInv, Wanted, At
  <2>4. DeleteInv(c)'
    BY <1>0, <2>0, <2>1, SameWorld DEF CallInv, RequestInv, DeleteInv, Wanted, At, Live, dsmVars
  <2>5. CreateInv(c)'
    <3> SUFFICES ASSUME call[c].op = "create" PROVE CreateInv(c)'
      BY <2>1 DEF CreateInv
    <3>1. ASSUME call[c].by = "name" PROVE snap[u].name = call[c].name
      BY <2>0, <3>1 DEF Wanted
    <3>2. ASSUME call[c].by = "made", ~Smb PROVE u = call[c].id
      BY <2>0, <3>2 DEF Wanted
    <3>3. ASSUME call[c].by = "made", Smb, Careful, Awaited(c) PROVE u = call[c].id
      <4>1. snap[u].time = call[c].time /\ snap[u].parent = SourceOf[call[c].name]
        BY <2>0, <3>3 DEF Wanted
      <4>2. PICK w \in Uuids : /\ w = call[c].id /\ Born(w) /\ Live(w)
                                /\ snap[w].name = call[c].name /\ snap[w].time = call[c].time
        BY <1>0, <3>3 DEF CallInv, CreateInv
      <4>3. snap[w].parent = SourceOf[call[c].name]
        BY <4>2 DEF IInv, SnapInv
      <4> QED BY <2>0, <3>3, <4>1, <4>2, <4>3 DEF IInv, SnapInv
    <3>4. (Awaited(c)' <=> Awaited(c)) /\ x.ready = (snap[u].st = "healthy")
      BY <1>0, <2>1, <2>a DEF Awaited, clusterVars, CallType
    <3>5. /\ call'[c].found = u /\ call'[c].by = call[c].by /\ call'[c].id = call[c].id
          /\ call'[c].name = call[c].name /\ call'[c].time = call[c].time
          /\ call'[c].ready => snap[u].st = "healthy"
      BY ZenonT(30), <2>1, <1>0, <2>a DEF CallType
    <3>6. UNCHANGED snap
      BY <1>0 DEF dsmVars
    <3>7. call[c].by = "made" =>
             /\ call[c].id \in Uuids /\ Born(call[c].id)
             /\ snap[call[c].id].name = call[c].name
             /\ Smb => snap[call[c].id].time = call[c].time
             /\ Careful /\ Awaited(c) => Live(call[c].id)
      BY <1>0 DEF CallInv, CreateInv
    <3>8. call[c].by = "made" /\ (Smb => Careful /\ Awaited(c)) => u = call[c].id
      BY <3>2, <3>3
    <3> QED BY <2>0, <3>1, <3>4, <3>5, <3>6, <3>7, <3>8, SameWorld DEF CreateInv, Live, Born
  <2> QED BY <1>0, <1>2, <2>1, <2>2, <2>3, <2>4, <2>5, MoveStep DEF CallInv
<1> QED BY <1>1, <1>3, <1>4

LEMMA OpOf ==
  ASSUME IInv, NEW c \in Calls
  PROVE  /\ call[c] \in CallType /\ CallInv(c)
         /\ call[c].pc \in CreatePcs => /\ call[c].op = "create" /\ call[c].by = "name"
                                       /\ call[c].name \in Names
         /\ call[c].pc \in DeletePcs => call[c].op = "delete" /\ call[c].name \in Names
         /\ call[c].pc \in RestorePcs => call[c].op = "restore" /\ call[c].name \in Copies
  BY DEF IInv, TypeOK, CallType, CallInv, RequestInv, CreatePcs, DeletePcs, RestorePcs, Busy

LEMMA ListEndStep ==
  ASSUME IInv, NEW c \in Calls, ListEnd(c), UNCHANGED world
  PROVE  IInv'
<1> DEFINE u == call[c].found
           x(p) == [call[c] EXCEPT !.pc = p, !.id = u, !.found = None]
<1>0. /\ At(c, "SnapshotList") /\ call[c].todo = {} /\ Busy(c) /\ UNCHANGED dsmVars
      /\ faults' \in 0..MaxFaults /\ call[c] \in CallType /\ CallInv(c)
  BY FaultsTyped, OpOf DEF ListEnd, At, Busy
<1>1. CASE Refuse(c)
  BY <1>0, <1>1, EndStep
<1>2. CASE /\ call[c].op = "create" /\ u # None
           /\ call[c].by = "name" => snap[u].parent = SourceOf[call[c].name]
           /\ CreateDone(c, u, call[c].ready)
  <2>1. CASE ~(Answers(c, "wanted") /\ call[c].ready)
    BY <1>1, <1>2, <2>1 DEF CreateDone, Refuse
  <2>2. CASE Answers(c, "wanted") /\ call[c].ready
    <3>1. CreateDone(c, u, TRUE)
      BY <1>2, <2>2 DEF CreateDone
    <3>2. u \in Uuids /\ Born(u) /\ snap[u].st # "taking"
      BY <1>0, <1>2, <2>2 DEF CallInv, CreateInv, CallType
    <3>3. ASSUME Careful, Awaited(c) PROVE snap[u].name = call[c].name /\ Live(u)
      BY <1>0, <1>2, <3>3 DEF CallInv, CreateInv, RequestInv
    <3>4. ASSUME Careful, Awaited(c) PROVE snap[u].st = "healthy"
      BY <3>2, <3>3, <3>4 DEF Live
    <3> QED BY <1>0, <1>2, <3>1, <3>2, <3>3, <3>4, EndStep
  <2> QED BY <2>1, <2>2
<1>3. CASE /\ call[c].op = "create" /\ u = None /\ call[c].by = "name"
           /\ call' = [call EXCEPT ![c] = x("GetVolume")] /\ UNCHANGED clusterVars
  <2>1. x("GetVolume") \in CallType /\ GoesOn(c, x("GetVolume")) /\ call'[c] = x("GetVolume")
    BY ZenonT(30), <1>0, <1>3 DEF GoesOn, CallType, IInv, TypeOK
  <2>2. NoneYet(c)'
    <3> SUFFICES ASSUME LookupsWork, Waits, NEW w \in Uuids, Live(w), snap[w].name = call[c].name
                 PROVE  FALSE
      BY <1>0, <2>1, SameWorld DEF NoneYet, Live, dsmVars, CallType
    <3> QED BY <1>0, <1>3 DEF CallInv, ListInv, At
  <2>3. CallInv(c)'
    <3>1. RequestInv(c)'
      BY <1>0, <1>3, <2>1, SameWorld
      DEF CallInv, RequestInv, CallType, Busy, CreatePcs, At, clusterVars
    <3>2. /\ call'[c].pc = "GetVolume" /\ call'[c].op = "create" /\ call'[c].by = "name"
          /\ call'[c].found = None
      <4>1. x("GetVolume").pc = "GetVolume" /\ x("GetVolume").found = None
        BY <1>0 DEF CallType
      <4>2. x("GetVolume").op = call[c].op /\ x("GetVolume").by = call[c].by
        BY <1>0 DEF CallType
      <4> QED BY <1>3, <2>1, <4>1, <4>2
    <3>3. CreateInv(c)' /\ FoundInv(c)' /\ DeleteInv(c)' /\ ListInv(c)' /\ RestoreInv(c)'
      BY <3>2 DEF CreateInv, FoundInv, DeleteInv, ListInv, RestoreInv
    <3> QED BY <2>2, <3>1, <3>3 DEF CallInv
  <2> QED BY <1>0, <1>3, <2>1, <2>3, MoveStep
<1>4. CASE call[c].op = "delete" /\ u = None /\ DeleteDone(c)
  <2>1. call[c].id \in Uuids
    BY <1>0, <1>4 DEF IInv, CallInv, RequestInv, PhaseInv, GivenUp
  <2>2. LookupsWork => ~Live(call[c].id)
    BY <1>0, <1>4, <2>1 DEF CallInv, ListInv, At
  <2> QED BY <1>0, <1>4, <2>2, EndStep
<1>5. CASE /\ call[c].op = "delete" /\ u # None /\ call[c].by = "uuid"
           /\ call' = [call EXCEPT ![c] = x("SnapshotDelete")] /\ UNCHANGED clusterVars
  <2>0. u = call[c].id
    BY <1>0, <1>5 DEF CallInv, FoundInv
  <2>1. /\ x("SnapshotDelete") \in CallType /\ GoesOn(c, x("SnapshotDelete"))
        /\ call'[c] = x("SnapshotDelete")
    BY <1>0, <1>5 DEF GoesOn, CallType, IInv, TypeOK
  <2>2. CallInv(c)'
    BY <1>0, <1>5, <2>0, <2>1, SameWorld
    DEF CallInv, RequestInv, CreateInv, FoundInv, DeleteInv, ListInv, NoneYet, RestoreInv,
        CallType, Busy, CreatePcs, DeletePcs, dsmVars, clusterVars, GivenUp, Live
  <2> QED BY <1>0, <1>5, <2>1, <2>2, MoveStep
<1>6. CASE /\ call[c].op = "restore" /\ u # None
           /\ call' = [call EXCEPT ![c] = x("SnapshotClone")] /\ UNCHANGED clusterVars
  <2>0. u = call[c].id
    BY <1>0, <1>6 DEF CallInv, FoundInv
  <2>1. /\ x("SnapshotClone") \in CallType /\ GoesOn(c, x("SnapshotClone"))
        /\ call'[c] = x("SnapshotClone")
    BY <1>0, <1>6 DEF GoesOn, CallType, IInv, TypeOK
  <2>2. u \in Uuids
    BY <1>0, <1>6 DEF CallType
  <2>3. CallInv(c)'
    BY <1>0, <1>6, <2>0, <2>1, <2>2, SameWorld
    DEF CallInv, RequestInv, CreateInv, FoundInv, DeleteInv, ListInv, NoneYet, RestoreInv,
        CallType, Busy, CreatePcs, RestorePcs, dsmVars, clusterVars, GivenUp
  <2> QED BY <1>0, <1>6, <2>1, <2>3, MoveStep
<1>7. call[c].op \in {"create", "delete", "restore"}
  BY <1>0 DEF CallInv, RequestInv, Busy, CallType
<1> QED BY <1>1, <1>2, <1>3, <1>4, <1>5, <1>6, <1>7 DEF ListEnd

LEMMA GetVolumeStep ==
  ASSUME IInv, NEW c \in Calls, GetVolume(c), UNCHANGED world
  PROVE  IInv'
<1>0. /\ At(c, "GetVolume") /\ Busy(c) /\ UNCHANGED dsmVars /\ faults' \in 0..MaxFaults
      /\ call[c] \in CallType /\ CallInv(c) /\ call[c].op = "create"
  BY FaultsTyped, OpOf DEF GetVolume, At, Busy, CreatePcs
<1>1. CASE Refuse(c)
  BY <1>0, <1>1, EndStep
<1>2. CASE Goto(c, "SnapshotCreate") /\ UNCHANGED clusterVars
  <2> DEFINE x == [call[c] EXCEPT !.pc = "SnapshotCreate"]
  <2>1. x \in CallType /\ call' = [call EXCEPT ![c] = x] /\ GoesOn(c, x) /\ call'[c] = x
    BY <1>0, <1>2 DEF Goto, GoesOn, CallType, IInv, TypeOK
  <2>2. NoneYet(c)'
    BY <1>0, <2>1, SameWorld DEF CallInv, NoneYet, CreatePcs, At, dsmVars, Live, CallType
  <2>3. CallInv(c)'
    BY <1>0, <1>2, <2>1, <2>2, SameWorld
    DEF CallInv, RequestInv, CreateInv, FoundInv, DeleteInv, ListInv, RestoreInv,
        CallType, Busy, CreatePcs, clusterVars, dsmVars, At
  <2> QED BY <1>0, <1>2, <2>1, <2>3, MoveStep
<1> QED BY <1>1, <1>2 DEF GetVolume

LEMMA SnapshotGetStep ==
  ASSUME IInv, NEW c \in Calls, SnapshotGet(c), UNCHANGED world
  PROVE  IInv'
<1>0. /\ Busy(c) /\ UNCHANGED dsmVars /\ faults' \in 0..MaxFaults /\ call[c].op = "delete"
  BY FaultsTyped, OpOf DEF SnapshotGet, At, Busy, DeletePcs
<1>1. CASE Refuse(c)
  BY <1>0, <1>1, EndStep
<1>2. CASE DeleteDone(c) /\ (~Live(call[c].id) \/ Mishap("SnapshotGet"))
  <2>1. LookupsWork => ~Live(call[c].id)
    BY <1>2 DEF Mishap, LookupsWork
  <2> QED BY <1>0, <1>2, <2>1, EndStep
<1> QED BY <1>1, <1>2 DEF SnapshotGet

LEMMA WaitCloneStep ==
  ASSUME IInv, NEW c \in Calls, WaitClone(c), UNCHANGED world
  PROVE  IInv'
<1>0. /\ At(c, "WaitClone") /\ Busy(c) /\ UNCHANGED dsmVars /\ faults' \in 0..MaxFaults
      /\ call[c] \in CallType /\ CallInv(c) /\ call[c].op = "restore"
  BY FaultsTyped, OpOf DEF WaitClone, At, Busy, RestorePcs
<1>1. CASE Refuse(c)
  BY <1>0, <1>1, EndStep
<1>2. CASE copy[call[c].name].st # "cloning" /\ Goto(c, "Map") /\ UNCHANGED clusterVars
  <2> DEFINE x == [call[c] EXCEPT !.pc = "Map"]
  <2>1. x \in CallType /\ call' = [call EXCEPT ![c] = x] /\ GoesOn(c, x) /\ call'[c] = x
    BY <1>0, <1>2 DEF Goto, GoesOn, CallType, IInv, TypeOK
  <2>2. CallInv(c)'
    BY <1>0, <1>2, <2>1, SameWorld
    DEF CallInv, RequestInv, CreateInv, FoundInv, DeleteInv, ListInv, NoneYet, RestoreInv,
        CallType, Busy, CreatePcs, RestorePcs, clusterVars, dsmVars, At, GivenUp
  <2> QED BY <1>0, <1>2, <2>1, <2>2, MoveStep
<1> QED BY <1>1, <1>2 DEF WaitClone

-----------------------------------------------------------------------------
(* The steps of a handler that change the DSM.                             *)

\* A new snapshot bears a uuid that was not used.
LEMMA NewUuidUnborn ==
  ASSUME UnbornSnaps # {}
  PROVE  NewUuid \in Uuids /\ ~Born(NewUuid)
  BY DEF NewUuid, UnbornSnaps, Born

LEMMA SnapshotCreateStep ==
  ASSUME IInv, NEW c \in Calls, SnapshotCreate(c), UNCHANGED world
  PROVE  IInv'
<1> DEFINE n == call[c].name
           v == SourceOf[n]
           able == /\ v \in alive /\ UnbornSnaps # {}
                   /\ Smb => \A w \in SnapsOf(v) : snap[w].time # clock
           new == [st |-> IF Smb THEN "healthy" ELSE "taking", name |-> n,
                   parent |-> v, time |-> clock]
           x(u) == [call[c] EXCEPT !.pc = "VolumeList", !.by = "made", !.id = u, !.time = clock]
<1>0. /\ At(c, "SnapshotCreate") /\ Busy(c) /\ UNCHANGED <<alive, copy, clock>>
      /\ call[c] \in CallType /\ CallInv(c) /\ call[c].op = "create" /\ call[c].by = "name"
      /\ n \in Names /\ call[c].found = None
  BY OpOf DEF SnapshotCreate, At, Busy, CreatePcs, CallInv, RequestInv
<1>1. PICK o \in Outcomes :
        /\ Outcome("SnapshotCreate", o)
        /\ snap' = IF o = "lost" \/ ~able THEN snap ELSE [snap EXCEPT ![NewUuid] = new]
        /\ IF o = "ok" /\ able THEN call' = [call EXCEPT ![c] = x(NewUuid)] /\ UNCHANGED clusterVars
                               ELSE Refuse(c)
  BY <1>0 DEF SnapshotCreate, IInv, TypeOK
<1>2. faults' \in 0..MaxFaults
  BY <1>1, FaultsTyped
<1>3. CASE o = "lost" \/ ~able
  <2>1. Refuse(c) /\ UNCHANGED dsmVars
    BY <1>0, <1>1, <1>3 DEF dsmVars
  <2> QED BY <1>0, <1>2, <2>1, EndStep
<1>4. CASE o # "lost" /\ able
  <2> HIDE DEF new
  <2>0. PICK u \in Uuids : u = NewUuid /\ ~Born(u)
    BY <1>4, NewUuidUnborn
  <2>1. u \in Uuids /\ ~Born(u) /\ v \in alive /\ v \in Volumes /\ clock \in Times
    BY <1>0, <1>4, <2>0, WorldTyped DEF IInv, TypeOK
  <2>2. new \in SnapType /\ new.name = n /\ new.parent = v /\ new.time = clock
        /\ new.st \in {"healthy", "taking"}
    BY <1>0, <2>1 DEF new, SnapType, Times
  <2>3. /\ snap' = [snap EXCEPT ![u] = new] /\ snap'[u] = new
        /\ \A w \in Uuids : w # u => snap'[w] = snap[w]
    BY <1>1, <1>4, <2>0 DEF IInv, TypeOK
  <2>4. /\ \A w \in Uuids : w # u => (Live(w)' <=> Live(w)) /\ (Born(w)' <=> Born(w))
        /\ Live(u)' /\ Born(u)' /\ ~Live(u)
    <3>1. ~Live(u)
      BY <2>0 DEF Live, Born
    <3>2. Live(u)' /\ Born(u)'
      BY <2>2, <2>3 DEF Live, Born
    <3> QED BY <2>3, <3>1, <3>2 DEF Live, Born
  <2>5. UNCHANGED clusterVars /\ \E y \in CallType : call' = [call EXCEPT ![c] = y] /\ GoesOn(c, y)
    <3>1. CASE Refuse(c)
      BY <3>1, IdleCallType DEF Refuse, Return, GoesOn
    <3>2. CASE call' = [call EXCEPT ![c] = x(u)] /\ UNCHANGED clusterVars
      <4>1. x(u) \in CallType /\ GoesOn(c, x(u))
        BY <1>0, <2>1 DEF CallType, GoesOn
      <4> QED BY <3>2, <4>1
    <3> QED BY <1>1, <1>4, <2>0, <3>1, <3>2
  <2>6. PICK y \in CallType : call' = [call EXCEPT ![c] = y] /\ GoesOn(c, y)
    BY <2>5
  <2>7. TypeOK'
    BY <1>0, <1>2, <2>2, <2>3, <2>5, <2>6, SameWorld DEF IInv, TypeOK, clusterVars
  <2>8. SnapInv'
    <3>1. ASSUME NEW w \in Uuids, Born(w)'
          PROVE  /\ snap'[w].name \in Names /\ snap'[w].parent = SourceOf[snap'[w].name]
                 /\ Live(w)' => snap'[w].parent \in alive'
      BY <1>0, <2>1, <2>2, <2>3, <2>4, <3>1 DEF IInv, SnapInv
    <3>2. ASSUME Smb, NEW w \in Uuids, NEW z \in Uuids, Live(w)', Live(z)',
                 snap'[w].parent = snap'[z].parent, snap'[w].time = snap'[z].time
          PROVE  w = z
      <4>1. \A t \in Uuids : t # u /\ Live(t) /\ snap[t].parent = v => snap[t].time # clock
        BY <1>4, <3>2 DEF SnapsOf
      <4> QED BY <2>2, <2>3, <2>4, <3>2, <4>1 DEF IInv, SnapInv
    <3> QED BY <3>1, <3>2, SameWorld DEF SnapInv, Born, Live
  <2>9. Steady /\ Losses /\ Binds /\ Deletes
    BY <2>1, <2>3, <2>4, <2>5 DEF Steady, Losses, Binds, Deletes, clusterVars, GivenUp
  <2>10. CopyInv' /\ CopySteady
    BY <1>0, <2>5, <2>9, NoAnswer, CopiesKept DEF clusterVars
  <2>11. OneSnapshotPerName'
    <3>1. LookupsWork /\ Waits => \A w \in Uuids : Live(w) => snap[w].name # n
      BY <1>0 DEF CallInv, NoneYet, CreatePcs, At
    <3> QED BY <2>2, <2>3, <2>4, <3>1, SameWorld DEF IInv, OneSnapshotPerName, Waits, Live
  <2>12. \A d \in Calls : d # c => Spares(d)
    <3> SUFFICES ASSUME NEW d \in Calls, d # c PROVE Spares(d)
      OBVIOUS
    <3>1. Waits /\ call[d].op = "create" => call[d].name # n
      BY <1>0 DEF IInv, OneCall, CallInv, RequestInv, Busy
    <3> QED BY <2>2, <2>3, <2>4, <3>1 DEF Spares
  <2>13. CallInv(c)'
    <3>1. CASE Refuse(c)
      BY <3>1, IdleCallInv DEF Refuse, Return, IInv, TypeOK
    <3>2. CASE call' = [call EXCEPT ![c] = x(u)]
      <4>1. call'[c] = x(u)
        BY <3>2 DEF IInv, TypeOK
      <4>2. /\ x(u).pc = "VolumeList" /\ x(u).op = "create" /\ x(u).by = "made" /\ x(u).id = u /\ x(u).time = clock
            /\ x(u).name = n /\ x(u).found = None /\ x(u).live = call[c].live
        BY <1>0 DEF CallType
      <4>3. CreateInv(c)'
        BY <2>1, <2>2, <2>3, <2>4, <4>1, <4>2 DEF CreateInv, Born, Live
      <4>4. /\ RequestInv(c)' /\ FoundInv(c)' /\ DeleteInv(c)' /\ ListInv(c)' /\ NoneYet(c)'
            /\ RestoreInv(c)'
        BY <1>0, <4>1, <4>2, SameWorld
        DEF CallInv, RequestInv, FoundInv, DeleteInv, ListInv, NoneYet, RestoreInv, Busy, CreatePcs
      <4> QED BY <4>3, <4>4 DEF CallInv
    <3> QED BY <1>1, <1>4, <2>0, <3>1, <3>2
  <2> QED BY <1>0, <2>6, <2>7, <2>8, <2>9, <2>10, <2>11, <2>12, <2>13, StepOf
<1> QED BY <1>3, <1>4

LEMMA SnapshotDeleteStep ==
  ASSUME IInv, NEW c \in Calls, SnapshotDelete(c), UNCHANGED world
  PROVE  IInv'
<1> DEFINE n == call[c].name
           gone == ToDelete(c)
           x(p) == [call[c] EXCEPT !.pc = p, !.by = "gone"]
<1>0. /\ At(c, "SnapshotDelete") /\ Busy(c) /\ UNCHANGED <<alive, copy, clock>>
      /\ call[c] \in CallType /\ CallInv(c) /\ call[c].op = "delete" /\ call[c].by = "uuid"
      /\ n \in Names /\ call[c].found = None
  BY OpOf DEF SnapshotDelete, At, Busy, DeletePcs, CallInv, RequestInv
<1>3. PICK i \in Uuids : /\ i = call[c].id /\ Born(i) /\ GivenUp(n) /\ i = snapId[n]
                         /\ Careful => snap[i].name = n
  BY <1>0 DEF CallInv, RequestInv, IInv, PhaseInv, GivenUp
<1>1. PICK o \in Outcomes :
        /\ Outcome("SnapshotDelete", o)
        /\ snap' = [u \in Uuids |-> IF o # "lost" /\ u \in gone
                                     THEN [snap[u] EXCEPT !.st = "deleted"] ELSE snap[u]]
        /\ \/ o = "ok" /\ gone # {} /\ DeleteDone(c)
           \/ /\ UNCHANGED clusterVars
              /\ \E p \in {"VolumeList", "SnapshotGet"} : call' = [call EXCEPT ![c] = x(p)]
  BY <1>0 DEF SnapshotDelete, IInv, TypeOK
<1>2. faults' \in 0..MaxFaults
  BY <1>1, FaultsTyped
<1>4. (Careful => gone \subseteq {i}) /\ (\A u \in gone : u \in Uuids /\ Live(u))
      /\ (Live(i) => i \in gone)
  <2>1. CASE ~Smb
    BY <1>3, <2>1 DEF ToDelete
  <2>2. CASE Smb
    <3>1. \A u : u \in gone <=> /\ u \in Uuids /\ Live(u) /\ snap[u].parent = snap[i].parent
                                /\ snap[u].time = snap[i].time
      BY <1>3, <2>2 DEF ToDelete, SnapsOf
    <3>2. Careful => Live(i) \/ snap[i].parent \notin alive
      <4>1. Careful => Waits
        BY <2>2, SameWorld
      <4> QED BY <1>0, <1>3, <2>2, <4>1 DEF CallInv, DeleteInv, At
    <3>3. \A u \in gone : snap[u].parent \in alive
      BY <3>1 DEF IInv, SnapInv, Live, Born
    <3> QED BY <1>3, <2>2, <3>1, <3>2, <3>3 DEF IInv, SnapInv
  <2> QED BY <2>1, <2>2
<1> HIDE DEF gone
<1>5. \A u \in Uuids :
        /\ snap'[u].name = snap[u].name /\ snap'[u].parent = snap[u].parent
        /\ snap'[u].time = snap[u].time
        /\ snap'[u].st \in {snap[u].st, "deleted"}
        /\ Live(u)' => Live(u)
        /\ Born(u)' <=> Born(u)
        /\ Live(u) /\ ~(Live(u)') => u \in gone
        /\ o # "lost" /\ u \in gone => ~(Live(u)')
  <2>1. snap \in [Uuids -> SnapType]
    BY DEF IInv, TypeOK
  <2>2. ASSUME NEW u \in Uuids
        PROVE  /\ snap'[u] = IF o # "lost" /\ u \in gone
                               THEN [snap[u] EXCEPT !.st = "deleted"] ELSE snap[u]
               /\ snap[u] \in SnapType /\ snap'[u] \in SnapType
    BY <1>1, <2>1 DEF SnapType
  <2>3. ASSUME NEW u \in Uuids
        PROVE  /\ snap'[u].name = snap[u].name /\ snap'[u].parent = snap[u].parent
               /\ snap'[u].time = snap[u].time
               /\ snap'[u].st = IF o # "lost" /\ u \in gone THEN "deleted" ELSE snap[u].st
    <3>1. CASE o # "lost" /\ u \in gone
      BY <2>2, <3>1 DEF SnapType
    <3>2. CASE ~(o # "lost" /\ u \in gone)
      BY <2>2, <3>2 DEF SnapType
    <3> QED BY <3>1, <3>2
  <2> QED BY <1>4, <2>3 DEF Live, Born
<1>t. snap' \in [Uuids -> SnapType]
  <2>1. snap \in [Uuids -> SnapType]
    BY DEF IInv, TypeOK
  <2>2. \A u \in Uuids : [snap[u] EXCEPT !.st = "deleted"] \in SnapType
    BY <2>1 DEF SnapType
  <2> QED BY <1>1, <2>1, <2>2
<1>6. /\ Settles(c, None) /\ CallInv(c)'
      /\ \E y \in CallType : call' = [call EXCEPT ![c] = y] /\ GoesOn(c, y)
      /\ UNCHANGED phase \/ ~Live(i)'
  <2>1. CASE o = "ok" /\ gone # {} /\ DeleteDone(c)
    <3>1. ~Live(i)'
      BY <1>4, <1>5, <2>1
    <3> QED BY <1>0, <2>1, <3>1, Endings, IdleCallType DEF GoesOn
  <2>2. ASSUME UNCHANGED clusterVars, NEW p \in {"VolumeList", "SnapshotGet"},
               call' = [call EXCEPT ![c] = x(p)]
        PROVE  /\ Settles(c, None) /\ CallInv(c)' /\ UNCHANGED phase
               /\ \E y \in CallType : call' = [call EXCEPT ![c] = y] /\ GoesOn(c, y)
    <3>1. x(p) \in CallType /\ GoesOn(c, x(p)) /\ call'[c] = x(p)
      BY ZenonT(30), <1>0, <2>2 DEF CallType, GoesOn, IInv, TypeOK
    <3>2. /\ x(p).pc = p /\ x(p).by = "gone" /\ x(p).op = "delete" /\ x(p).name = n /\ x(p).id = i
          /\ x(p).found = None /\ x(p).live = call[c].live
      BY <1>0, <1>3 DEF CallType
    <3>3. CallInv(c)'
      <4>1. /\ call'[c].pc = p /\ call'[c].by = "gone" /\ call'[c].op = "delete"
            /\ call'[c].name = n /\ call'[c].id = i /\ call'[c].found = None
            /\ call'[c].live = call[c].live
        BY <3>1, <3>2
      <4>2. RequestInv(c)'
        BY <1>0, <1>3, <2>2, <4>1, SameWorld
        DEF CallInv, RequestInv, Busy, DeletePcs, clusterVars, GivenUp
      <4>3. /\ CreateInv(c)' /\ FoundInv(c)' /\ DeleteInv(c)' /\ ListInv(c)' /\ NoneYet(c)'
            /\ RestoreInv(c)'
        BY <4>1 DEF CreateInv, FoundInv, DeleteInv, ListInv, NoneYet, RestoreInv, CreatePcs
      <4> QED BY <4>2, <4>3 DEF CallInv
    <3> QED BY <2>2, <3>1, <3>3, NoAnswer DEF clusterVars
  <2> QED BY <1>1, <2>1, <2>2
<1>7. PICK y \in CallType : call' = [call EXCEPT ![c] = y] /\ GoesOn(c, y)
  BY <1>6
<1>8. TypeOK'
  BY <1>0, <1>2, <1>t, <1>6, <1>7, SameWorld DEF IInv, TypeOK, Settles
<1>9. SnapInv' /\ OneSnapshotPerName'
  <2>1. \A u \in Uuids : Born(u)' =>
          /\ snap'[u].name \in Names /\ snap'[u].parent = SourceOf[snap'[u].name]
          /\ Live(u)' => snap'[u].parent \in alive'
    BY <1>0, <1>5 DEF IInv, SnapInv
  <2>2. Smb => \A u, w \in Uuids : /\ Live(u)' /\ Live(w)' /\ snap'[u].parent = snap'[w].parent
                                    /\ snap'[u].time = snap'[w].time
                                    => u = w
    BY <1>5 DEF IInv, SnapInv
  <2>3. OneSnapshotPerName'
    BY <1>5, SameWorld DEF IInv, OneSnapshotPerName
  <2> QED BY <2>1, <2>2, <2>3, SameWorld DEF SnapInv
<1>10. Steady /\ Losses
  <2>1. Steady
    BY <1>5, <1>6 DEF Steady, Settles
  <2>2. Losses
    <3> SUFFICES ASSUME Careful, NEW u \in Uuids, Live(u), ~Live(u)' PROVE GivenUp(snap[u].name)
      BY DEF Losses
    <3>1. u \in gone
      BY <1>5
    <3>2. u = i
      BY <1>4, <3>1
    <3> QED BY <1>3, <3>2
  <2> QED BY <2>1, <2>2
<1>11. Binds
  BY <1>0, <1>6 DEF Binds, Settles
<1>12. Deletes
  <2> SUFFICES ASSUME NEW m \in Names, phase'[m] = "deleted", phase[m] # "deleted"
               PROVE  phase[m] # "wanted" /\ (LookupsWork => ~Live(snapId[m])')
    BY DEF Deletes
  <2>1. m = n /\ ~Live(i)'
    BY <1>6 DEF Settles
  <2>2. snapId'[m] = i /\ phase[m] # "wanted"
    BY <1>3, <1>6, <2>1 DEF Settles, GivenUp
  <2> QED BY <1>3, <1>4, <1>5, <2>1, <2>2 DEF Live
<1>13. CopyInv' /\ CopySteady
  BY <1>0, <1>6, <1>10, CopiesKept
<1>14. \A d \in Calls : d # c => Spares(d)
  <2> SUFFICES ASSUME NEW d \in Calls, d # c PROVE Spares(d)
    OBVIOUS
  <2>1. ASSUME Smb, Waits, call[d].op = "delete", NEW u \in Uuids, u = call[d].id, Live(u), ~Live(u)'
        PROVE  FALSE
    <3>0. Careful
      BY <2>1, SameWorld
    <3>1. u \in gone
      BY <1>5, <2>1
    <3>a. u = i
      BY <1>4, <3>0, <3>1
    <3>2. snap[u].name = call[d].name
      BY <2>1, <3>0 DEF IInv, CallInv, RequestInv, PhaseInv, GivenUp
    <3>3. call[d].name = n
      BY <1>3, <3>0, <3>a, <3>2
    <3> QED BY <1>0, <2>1, <3>3 DEF IInv, OneCall, CallInv, RequestInv, Busy
  <2> QED BY <1>5, <2>1 DEF Spares
<1> QED BY <1>0, <1>6, <1>7, <1>8, <1>9, <1>10, <1>11, <1>12, <1>13, <1>14, StepOf

\* A step of c that changes copies only.
LEMMA CopyStep ==
  ASSUME IInv, UNCHANGED <<alive, snap, clock, world>>, faults' \in 0..MaxFaults,
         NEW c \in Calls, Settles(c, None), call[c].op = "restore",
         NEW x \in CallType, call' = [call EXCEPT ![c] = x], GoesOn(c, x), CallInv(c)',
         copy' \in [Copies -> CopyType], CopyInv', CopySteady
  PROVE  IInv'
<1>1. TypeOK'
  BY SameWorld DEF IInv, TypeOK, Settles
<1>2. /\ SnapInv' /\ OneSnapshotPerName' /\ Steady /\ Losses /\ Binds /\ Deletes
      /\ \A d \in Calls : Spares(d)
  BY SnapsKept
<1> QED BY <1>1, <1>2, StepOf

LEMMA SnapshotCloneStep ==
  ASSUME IInv, NEW c \in Calls, SnapshotClone(c), UNCHANGED world
  PROVE  IInv'
<1>0. /\ At(c, "SnapshotClone") /\ Busy(c) /\ UNCHANGED <<alive, snap, clock>>
      /\ call[c] \in CallType /\ CallInv(c) /\ call[c].op = "restore"
      /\ copy \in [Copies -> CopyType]
  BY OpOf DEF SnapshotClone, At, Busy, RestorePcs, IInv, TypeOK
<1>1. PICK r \in Copies : r = call[c].name
  BY <1>0 DEF CallInv, RequestInv
<1>2. PICK u \in Uuids : /\ u = call[c].id /\ Born(u)
                         /\ Careful => snap[u].name = FromOf[r]
  BY <1>0, <1>1, FromOfTyped DEF CallInv, RequestInv, RestoreInv, IInv, PhaseInv, At
<1> DEFINE exists == copy[r].st # "none"
           able == snap[u].st = "healthy" /\ snap[u].parent \in alive
           made == [st |-> IF Smb THEN "listed" ELSE "cloning", of |-> u]
           x == [call[c] EXCEPT !.pc = "WaitClone"]
<1>3. PICK o \in Outcomes :
        /\ Outcome("SnapshotClone", o)
        /\ copy' = IF o = "lost" \/ exists \/ ~able THEN copy ELSE [copy EXCEPT ![r] = made]
        /\ IF ~(o = "ok" /\ (exists \/ able)) THEN Refuse(c)
           ELSE IF Smb THEN RestoreDone(c)
           ELSE Goto(c, "WaitClone") /\ UNCHANGED clusterVars
  BY <1>1, <1>2 DEF SnapshotClone
<1>4. faults' \in 0..MaxFaults
  BY <1>3, FaultsTyped
<1>5. /\ \A q \in Copies : q # r => copy'[q] = copy[q]
      /\ exists => copy'[r] = copy[r]
      /\ ~exists => copy'[r] \in {copy[r], made}
      /\ copy' \in [Copies -> CopyType]
      /\ made.of = u /\ made.st # "none" /\ (Smb => made.st = "listed")
  BY <1>0, <1>3 DEF CopyType
<1>6. CopySteady
  BY <1>5 DEF CopySteady
<1>7. ASSUME Settles(c, None), phase'[r] = "bound" => phase[r] = "bound" \/ copy'[r].st = "listed"
      PROVE  CopyInv'
  <2>1. ASSUME NEW q \in Copies, copy'[q].st # "none"
        PROVE  /\ copy'[q].of \in Uuids /\ Born(copy'[q].of)
               /\ Careful => snap[copy'[q].of].name = FromOf[q]
               /\ Smb => copy'[q].st = "listed"
    BY <1>2, <1>5, <2>1 DEF IInv, CopyInv
  <2>2. ASSUME NEW q \in Copies, phase'[q] = "bound" PROVE copy'[q].st = "listed"
    <3>1. CASE phase[q] = "bound"
      BY <1>5, <3>1 DEF IInv, CopyInv
    <3>2. CASE phase[q] # "bound"
      BY <1>1, <1>7, <2>2, <3>2 DEF Settles
    <3> QED BY <3>1, <3>2
  <2> QED BY <1>0, <2>1, <2>2, SameWorld DEF CopyInv, Born
<1>8. CASE Refuse(c)
  <2>1. Settles(c, None) /\ CallInv(c)' /\ call' = [call EXCEPT ![c] = IdleCall] /\ UNCHANGED phase
    BY <1>0, <1>8, Endings DEF Refuse, clusterVars
  <2> QED BY <1>0, <1>4, <1>5, <1>6, <1>7, <2>1, CopyStep, IdleCallType DEF GoesOn
<1>9. CASE Smb /\ RestoreDone(c) /\ o = "ok" /\ (exists \/ able)
  <2>1. Settles(c, None) /\ CallInv(c)' /\ call' = [call EXCEPT ![c] = IdleCall]
    BY <1>0, <1>9, Endings
  <2>2. copy'[r].st = "listed"
    <3>1. CASE exists
      BY <1>5, <1>9, <3>1 DEF IInv, CopyInv
    <3>2. CASE ~exists
      BY <1>0, <1>3, <1>5, <1>9, <3>2
    <3> QED BY <3>1, <3>2
  <2> QED BY <1>0, <1>4, <1>5, <1>6, <1>7, <2>1, <2>2, CopyStep, IdleCallType DEF GoesOn
<1>10. CASE ~Smb /\ Goto(c, "WaitClone") /\ UNCHANGED clusterVars /\ o = "ok" /\ (exists \/ able)
  <2>1. x \in CallType /\ call' = [call EXCEPT ![c] = x] /\ GoesOn(c, x) /\ call'[c] = x
    BY <1>0, <1>10 DEF Goto, GoesOn, CallType, IInv, TypeOK
  <2>2. Settles(c, None) /\ UNCHANGED <<phase, snapId>>
    BY <1>10, NoAnswer DEF clusterVars
  <2>3. copy'[r].st # "none"
    BY <1>0, <1>3, <1>5, <1>10
  <2>4. /\ call'[c].pc = "WaitClone" /\ call'[c].op = "restore" /\ call'[c].name = r
        /\ call'[c].by = call[c].by /\ call'[c].id = u /\ call'[c].found = call[c].found
        /\ call'[c].live = call[c].live
    BY <1>0, <1>1, <1>2, <2>1 DEF CallType
  <2>5. RequestInv(c)'
    BY <1>0, <1>1, <1>2, <2>2, <2>4, SameWorld DEF CallInv, RequestInv, Busy, RestorePcs, At
  <2>6. /\ CreateInv(c)' /\ FoundInv(c)' /\ DeleteInv(c)' /\ ListInv(c)' /\ NoneYet(c)'
    BY <1>0, <1>2, <2>4 DEF CallInv, RequestInv, CreateInv, FoundInv, DeleteInv, ListInv, NoneYet, CreatePcs, At
  <2>7. RestoreInv(c)'
    BY <1>10, <2>3, <2>4, SameWorld DEF RestoreInv
  <2>8. CopyInv'
    BY <1>7, <2>2
  <2> QED BY <1>0, <1>4, <1>5, <1>6, <2>1, <2>2, <2>5, <2>6, <2>7, <2>8, CopyStep DEF CallInv
<1> QED BY <1>3, <1>8, <1>9, <1>10

LEMMA MapStep ==
  ASSUME IInv, NEW c \in Calls, Map(c), UNCHANGED world
  PROVE  IInv'
<1>0. /\ At(c, "Map") /\ Busy(c) /\ UNCHANGED <<alive, snap, clock>>
      /\ call[c] \in CallType /\ CallInv(c) /\ call[c].op = "restore"
      /\ copy \in [Copies -> CopyType]
  BY OpOf DEF Map, At, Busy, RestorePcs, IInv, TypeOK
<1>1. PICK r \in Copies : r = call[c].name /\ copy[r].st \notin {"none", "cloning"}
  BY <1>0 DEF CallInv, RequestInv, RestoreInv, At
<1>2. PICK o \in Outcomes :
        /\ Outcome("Map", o)
        /\ copy' = IF o = "lost" THEN copy ELSE [copy EXCEPT ![r].st = "listed"]
        /\ IF o = "ok" THEN RestoreDone(c) ELSE Refuse(c)
  BY <1>1 DEF Map
<1>3. faults' \in 0..MaxFaults
  BY <1>2, FaultsTyped
<1>4. /\ \A q \in Copies : q # r => copy'[q] = copy[q]
      /\ copy'[r].of = copy[r].of /\ copy'[r].st \in {copy[r].st, "listed"}
      /\ o = "ok" => copy'[r].st = "listed"
      /\ copy' \in [Copies -> CopyType]
  BY <1>0, <1>2 DEF CopyType
<1>5. /\ Settles(c, None) /\ CallInv(c)' /\ call' = [call EXCEPT ![c] = IdleCall]
      /\ UNCHANGED phase \/ copy'[r].st = "listed"
  BY <1>0, <1>2, <1>4, Endings DEF Refuse, clusterVars
<1>6. CopySteady
  BY <1>1, <1>4 DEF CopySteady
<1>7. CopyInv'
  <2>1. ASSUME NEW q \in Copies, copy'[q].st # "none"
        PROVE  /\ copy'[q].of \in Uuids /\ Born(copy'[q].of)
               /\ Careful => snap[copy'[q].of].name = FromOf[q]
               /\ Smb => copy'[q].st = "listed"
    BY <1>1, <1>4, <2>1 DEF IInv, CopyInv
  <2>2. ASSUME NEW q \in Copies, phase'[q] = "bound" PROVE copy'[q].st = "listed"
    BY <1>1, <1>4, <1>5, <2>2 DEF Settles, IInv, CopyInv
  <2> QED BY <1>0, <2>1, <2>2, SameWorld DEF CopyInv, Born
<1> QED BY <1>0, <1>3, <1>4, <1>5, <1>6, <1>7, CopyStep, IdleCallType DEF GoesOn

\* Every step of a handler preserves the invariant.
LEMMA HandlerStep ==
  ASSUME IInv, NEW c \in Calls, Step(c), UNCHANGED world
  PROVE  IInv'
  BY CopyListStep, VolumeListStep, SnapshotListStep, ListEndStep, GetVolumeStep,
     SnapshotCreateStep, SnapshotDeleteStep, SnapshotGetStep, SnapshotCloneStep, WaitCloneStep,
     MapStep DEF Step

-----------------------------------------------------------------------------
(* The steps of the cluster and of the DSM.                                *)

\* A step in which no handler moves.
LEMMA OtherStep ==
  ASSUME IInv, TypeOK', SnapInv', CopyInv', OneSnapshotPerName', alive' \subseteq alive,
         Steady, CopySteady, Losses, Binds, Deletes, call' = call,
         \A d \in Calls : Spares(d)
  PROVE  IInv'
<1>1. PhaseInv' /\ DeletedGone'
  BY ClusterKept
<1>2. \A d \in Calls : CallInv(d)'
  BY OtherCall
<1>3. OneCall'
  BY DEF IInv, OneCall, Busy
<1> QED BY <1>1, <1>2, <1>3 DEF IInv, Steady

LEMMA StartStep ==
  ASSUME IInv, UNCHANGED world, NEW c \in Calls,
         \/ \E n \in Names : StartCreate(c, n) \/ StartDelete(c, n)
         \/ \E r \in Copies : StartRestore(c, r)
  PROVE  IInv'
<1>1. PICK op \in {"create", "delete", "restore"}, n \in Names \cup Copies,
           pc \in {"VolumeList", "CopyList"}, by \in {"name", "uuid"}, id \in Uuids \cup {None} :
        /\ Start(c, op, n, pc, by, id)
        /\ op = "create" => /\ n \in world.names /\ n \in Names /\ by = "name" /\ pc = "VolumeList"
        /\ op = "delete" => /\ n \in Names /\ phase[n] = "released" /\ by = "uuid"
                            /\ id = snapId[n] /\ pc = "VolumeList"
        /\ op = "restore" => /\ n \in Copies /\ phase[FromOf[n]] = "bound" /\ by = "uuid"
                             /\ id = snapId[FromOf[n]] /\ pc = "CopyList"
  BY FromOfTyped DEF StartCreate, StartDelete, StartRestore, IInv, TypeOK
<1> DEFINE x == [IdleCall EXCEPT !.pc = pc, !.op = op, !.name = n, !.by = by, !.id = id, !.live = TRUE]
<1>2. /\ ~Busy(c) /\ ~LiveCall(n) /\ call' = [call EXCEPT ![c] = x]
      /\ UNCHANGED <<dsmVars, clusterVars, faults>>
  BY <1>1 DEF Start
<1>3. x \in CallType /\ x.pc = pc /\ x.op = op /\ x.name = n /\ x.by = by /\ x.id = id /\ x.live = TRUE
      /\ x.found = None
  BY <1>1 DEF IdleCall, CallType
<1>4. call'[c] = x /\ \A d \in Calls : d # c => call'[d] = call[d]
  BY <1>2 DEF IInv, TypeOK
<1>5. TypeOK'
  BY <1>2, <1>3, SameWorld DEF IInv, TypeOK, dsmVars, clusterVars
<1>6. OneCall'
  BY <1>2, <1>3, <1>4 DEF IInv, OneCall, LiveCall, Busy
<1>7. Settles(c, None) /\ UNCHANGED <<alive, snap, copy, phase, snapId>>
  BY <1>2, NoAnswer DEF dsmVars, clusterVars
<1>8. /\ SnapInv' /\ OneSnapshotPerName' /\ Steady /\ Losses /\ Binds /\ Deletes
      /\ \A d \in Calls : Spares(d)
  BY <1>7, SnapsKept
<1>9. CopyInv' /\ CopySteady
  BY <1>7, <1>8, CopiesKept
<1>10. PhaseInv' /\ DeletedGone'
  BY <1>5, <1>7, <1>8, ClusterKept
<1>11. CallInv(c)'
  <2>1. RequestInv(c)'
    BY <1>1, <1>3, <1>4, <1>7, SameWorld DEF RequestInv, Busy, CreatePcs, DeletePcs, RestorePcs, GivenUp
  <2>2. /\ CreateInv(c)' /\ FoundInv(c)' /\ DeleteInv(c)' /\ ListInv(c)' /\ NoneYet(c)' /\ RestoreInv(c)'
    BY <1>1, <1>3, <1>4 DEF CreateInv, FoundInv, DeleteInv, ListInv, NoneYet, RestoreInv, CreatePcs
  <2> QED BY <2>1, <2>2 DEF CallInv
<1>12. \A d \in Calls : CallInv(d)'
  BY <1>4, <1>5, <1>7, <1>8, <1>9, <1>11, OtherCall
<1> QED BY <1>5, <1>6, <1>8, <1>9, <1>10, <1>12 DEF IInv, Steady

\* A step that leaves the volumes, snapshots and copies alone, and the cluster too
\* but for giving up a snapshot.
LEMMA StillStep ==
  ASSUME IInv, UNCHANGED <<alive, snap, copy, snapId, world>>,
         \/ UNCHANGED phase
         \/ \E n \in Names : phase[n] = "bound" /\ phase' = [phase EXCEPT ![n] = "released"]
  PROVE  /\ SnapInv' /\ CopyInv' /\ OneSnapshotPerName'
         /\ Steady /\ CopySteady /\ Losses /\ Binds /\ Deletes
         /\ \A d \in Calls : Spares(d)
<1> USE SameWorld
<1>0. \A w \in Uuids : (Live(w)' <=> Live(w)) /\ (Born(w)' <=> Born(w))
  BY DEF Live, Born
<1>a. /\ \A n \in Names : /\ phase'[n] = phase[n] \/ (phase[n] = "bound" /\ phase'[n] = "released")
                          /\ GivenUp(n) => GivenUp(n)'
      /\ \A r \in Copies : phase'[r] = phase[r]
  BY NamesApart DEF IInv, TypeOK, GivenUp
<1>1. SnapInv'
  BY <1>0 DEF IInv, SnapInv
<1>2. OneSnapshotPerName'
  BY <1>0 DEF IInv, OneSnapshotPerName
<1>3. Steady
  BY <1>0, <1>a DEF Steady
<1>4. Losses /\ \A d \in Calls : Spares(d)
  BY <1>0 DEF Losses, Spares
<1>5. Binds /\ Deletes
  BY <1>a DEF Binds, Deletes
<1>6. CopyInv' /\ CopySteady
  BY <1>0, <1>a DEF IInv, CopyInv, CopySteady, Born
<1> QED BY <1>1, <1>2, <1>3, <1>4, <1>5, <1>6

LEMMA ReleaseStep ==
  ASSUME IInv, UNCHANGED world, NEW n \in Names, Release(n)
  PROVE  IInv'
<1>1. UNCHANGED <<alive, snap, copy, clock, call, snapId, faults>>
  BY DEF Release, dsmVars
<1>2. TypeOK'
  BY <1>1, SameWorld DEF Release, IInv, TypeOK
<1>3. /\ SnapInv' /\ CopyInv' /\ OneSnapshotPerName'
      /\ Steady /\ CopySteady /\ Losses /\ Binds /\ Deletes
      /\ \A d \in Calls : Spares(d)
  BY <1>1, StillStep DEF Release
<1> QED BY <1>1, <1>2, <1>3, OtherStep

LEMMA TickStep ==
  ASSUME IInv, UNCHANGED world, Tick
  PROVE  IInv'
<1>1. UNCHANGED <<alive, snap, copy, call, phase, snapId, faults>>
  BY DEF Tick, clusterVars
<1>2. clock' \in Times
  BY MaxTimePositive DEF Tick, IInv, TypeOK, Times
<1>3. TypeOK'
  BY <1>1, <1>2, SameWorld DEF IInv, TypeOK
<1>4. /\ SnapInv' /\ CopyInv' /\ OneSnapshotPerName'
      /\ Steady /\ CopySteady /\ Losses /\ Binds /\ Deletes
      /\ \A d \in Calls : Spares(d)
  BY <1>1, StillStep
<1> QED BY <1>1, <1>3, <1>4, OtherStep

LEMMA RestartStep ==
  ASSUME IInv, UNCHANGED world, Restart
  PROVE  IInv'
<1>1. /\ UNCHANGED <<alive, snap, copy, clock, phase, snapId>>
      /\ call' = [c \in Calls |-> IdleCall] /\ faults' \in 0..MaxFaults
  BY FaultsTyped DEF Restart, dsmVars, clusterVars
<1>2. TypeOK'
  BY <1>1, IdleCallType, SameWorld DEF IInv, TypeOK
<1>3. /\ SnapInv' /\ CopyInv' /\ OneSnapshotPerName'
      /\ Steady /\ CopySteady /\ Losses /\ Binds /\ Deletes
  BY <1>1, StillStep
<1>4. PhaseInv' /\ DeletedGone'
  BY <1>1, <1>2, <1>3, ClusterKept
<1>5. \A c \in Calls : CallInv(c)'
  BY <1>1, IdleCallInv
<1>6. OneCall'
  BY <1>1 DEF OneCall, Busy, IdleCall
<1> QED BY <1>2, <1>3, <1>4, <1>5, <1>6 DEF IInv, Steady

\* The cluster gives a request up, which it never does when it waits for every answer.
LEMMA DeadlineStep ==
  ASSUME IInv, UNCHANGED world, NEW c \in Calls, Deadline(c)
  PROVE  IInv'
<1> DEFINE x == [call[c] EXCEPT !.live = FALSE]
<1>0. /\ Busy(c) /\ UNCHANGED <<dsmVars, clusterVars>> /\ faults' \in 0..MaxFaults
      /\ call[c] \in CallType /\ CallInv(c) /\ ~Waits
  BY FaultsTyped DEF Deadline, Mishap, Waits, IInv, TypeOK
<1>1. x \in CallType /\ call' = [call EXCEPT ![c] = x] /\ GoesOn(c, x) /\ call'[c] = x
  BY <1>0 DEF Deadline, GoesOn, CallType, IInv, TypeOK
<1>2. /\ UNCHANGED <<alive, snap, copy, phase, snapId>>
      /\ call'[c].pc = call[c].pc /\ call'[c].op = call[c].op /\ call'[c].name = call[c].name
      /\ call'[c].by = call[c].by /\ call'[c].id = call[c].id /\ call'[c].time = call[c].time
      /\ call'[c].found = call[c].found /\ call'[c].ready = call[c].ready
      /\ call'[c].todo = call[c].todo /\ ~call'[c].live
  BY <1>0, <1>1 DEF CallType, dsmVars, clusterVars
<1>3. /\ \A u : (Live(u)' <=> Live(u)) /\ (Born(u)' <=> Born(u))
      /\ \A n : GivenUp(n)' <=> GivenUp(n)
  BY <1>2 DEF Live, Born, GivenUp
<1>4. RequestInv(c)'
  BY <1>0, <1>2, <1>3, SameWorld DEF CallInv, RequestInv, Busy
<1>5. CreateInv(c)'
  BY <1>0, <1>2, SameWorld DEF CallInv, CreateInv, Awaited, Born, Live
<1>6. FoundInv(c)' /\ DeleteInv(c)' /\ NoneYet(c)' /\ RestoreInv(c)'
  BY <1>0, <1>2, SameWorld DEF CallInv, FoundInv, DeleteInv, NoneYet, RestoreInv
<1>7. ListInv(c)'
  BY <1>0, <1>2, <1>3, SameWorld DEF CallInv, ListInv
<1> QED BY <1>0, <1>1, <1>4, <1>5, <1>6, <1>7, MoveStep DEF CallInv

LEMMA SnapshotDoneStep ==
  ASSUME IInv, UNCHANGED world, NEW u \in Uuids, SnapshotDone(u)
  PROVE  IInv'
<1> USE SameWorld
<1>1. /\ UNCHANGED <<alive, copy, clock, call, phase, snapId, faults>>
      /\ snap[u].st = "taking" /\ snap' = [snap EXCEPT ![u].st = "healthy"]
      /\ snap \in [Uuids -> SnapType]
  BY DEF SnapshotDone, clusterVars, IInv, TypeOK
<1>2. /\ \A w \in Uuids : w # u => snap'[w] = snap[w]
      /\ snap'[u].st = "healthy" /\ snap'[u].name = snap[u].name
      /\ snap'[u].parent = snap[u].parent /\ snap'[u].time = snap[u].time
      /\ snap' \in [Uuids -> SnapType]
  BY <1>1 DEF SnapType
<1>3. \A w \in Uuids :
        /\ (Live(w)' <=> Live(w)) /\ (Born(w)' <=> Born(w))
        /\ snap'[w].name = snap[w].name /\ snap'[w].parent = snap[w].parent
        /\ snap'[w].time = snap[w].time
        /\ snap[w].st # "taking" => snap'[w].st # "taking"
  BY <1>1, <1>2 DEF Live, Born
<1>4. TypeOK'
  BY <1>1, <1>2 DEF IInv, TypeOK
<1>5. SnapInv' /\ OneSnapshotPerName'
  <2>1. \A w \in Uuids : Born(w)' =>
          /\ snap'[w].name \in Names /\ snap'[w].parent = SourceOf[snap'[w].name]
          /\ Live(w)' => snap'[w].parent \in alive'
    BY <1>1, <1>3 DEF IInv, SnapInv
  <2>2. Smb => \A v, w \in Uuids : /\ Live(v)' /\ Live(w)' /\ snap'[v].parent = snap'[w].parent
                                    /\ snap'[v].time = snap'[w].time
                                    => v = w
    BY <1>3 DEF IInv, SnapInv
  <2>3. OneSnapshotPerName'
    BY <1>3 DEF IInv, OneSnapshotPerName
  <2> QED BY <2>1, <2>2, <2>3 DEF SnapInv
<1>6. Steady
  BY <1>1, <1>3 DEF Steady, GivenUp
<1>7. Losses /\ Binds /\ Deletes /\ \A d \in Calls : Spares(d)
  BY <1>1, <1>3 DEF Losses, Binds, Deletes, Spares
<1>8. CopyInv' /\ CopySteady
  <2>1. ASSUME NEW q \in Copies, copy[q].st # "none"
        PROVE  /\ copy[q].of \in Uuids /\ Born(copy[q].of)'
               /\ Careful => snap'[copy[q].of].name = FromOf[q]
               /\ Smb => copy[q].st = "listed"
    <3>1. PICK w \in Uuids : /\ w = copy[q].of /\ Born(w)
                             /\ Careful => snap[w].name = FromOf[q]
                             /\ Smb => copy[q].st = "listed"
      BY <2>1 DEF IInv, CopyInv
    <3> QED BY <1>1, <1>3, <3>1 DEF Born
  <2> QED BY <1>1, <2>1 DEF IInv, CopyInv, CopySteady, Born
<1> QED BY <1>1, <1>4, <1>5, <1>6, <1>7, <1>8, OtherStep

LEMMA CloneDoneStep ==
  ASSUME IInv, UNCHANGED world, NEW r \in Copies, CloneDone(r)
  PROVE  IInv'
<1> USE SameWorld
<1>1. /\ UNCHANGED <<alive, snap, clock, call, phase, snapId, faults>>
      /\ copy[r].st = "cloning" /\ copy' = [copy EXCEPT ![r].st = "ready"]
      /\ copy \in [Copies -> CopyType]
  BY DEF CloneDone, clusterVars, IInv, TypeOK
<1>2. /\ \A q \in Copies : q # r => copy'[q] = copy[q]
      /\ copy'[r].st = "ready" /\ copy'[r].of = copy[r].of
      /\ copy' \in [Copies -> CopyType]
  BY <1>1 DEF CopyType
<1>3. TypeOK'
  BY <1>1, <1>2 DEF IInv, TypeOK
<1>4. CopyInv' /\ CopySteady
  BY <1>1, <1>2 DEF IInv, CopyInv, CopySteady, Born
<1>5. \A w \in Uuids : (Live(w)' <=> Live(w)) /\ (Born(w)' <=> Born(w))
  BY <1>1 DEF Live, Born
<1>6. SnapInv' /\ OneSnapshotPerName'
  BY <1>1, <1>5 DEF IInv, SnapInv, OneSnapshotPerName
<1>7. Steady
  BY <1>1, <1>5 DEF Steady, GivenUp
<1>8. Losses /\ Binds /\ Deletes /\ \A d \in Calls : Spares(d)
  BY <1>1, <1>5 DEF Losses, Binds, Deletes, Spares
<1> QED BY <1>1, <1>3, <1>4, <1>6, <1>7, <1>8, OtherStep

LEMMA DeleteSourceStep ==
  ASSUME IInv, UNCHANGED world, NEW v \in Volumes, DeleteSource(v)
  PROVE  IInv'
<1> USE SameWorld
<1>1. /\ UNCHANGED <<copy, clock, call, phase, snapId, faults>>
      /\ v \in alive /\ \A n \in world.names : SourceOf[n] = v => phase[n] # "wanted"
      /\ alive' = alive \ {v} /\ alive' \subseteq alive
      /\ snap' = [u \in Uuids |-> IF u \in SnapsOf(v)
                    THEN [snap[u] EXCEPT !.st = "deleted"] ELSE snap[u]]
      /\ snap \in [Uuids -> SnapType]
  BY DEF DeleteSource, clusterVars, IInv, TypeOK
<1>2. snap' \in [Uuids -> SnapType]
  <2>1. \A u \in Uuids : [snap[u] EXCEPT !.st = "deleted"] \in SnapType
    BY <1>1 DEF SnapType
  <2> QED BY <1>1, <2>1
<1>3. ASSUME NEW u \in Uuids
      PROVE  /\ snap'[u].name = snap[u].name /\ snap'[u].parent = snap[u].parent
             /\ snap'[u].time = snap[u].time
             /\ snap'[u].st = IF u \in SnapsOf(v) THEN "deleted" ELSE snap[u].st
  <2>1. snap[u] \in SnapType
    BY <1>1
  <2>2. snap'[u] = IF u \in SnapsOf(v) THEN [snap[u] EXCEPT !.st = "deleted"] ELSE snap[u]
    BY <1>1
  <2>3. CASE u \in SnapsOf(v)
    BY <2>1, <2>2, <2>3 DEF SnapType
  <2>4. CASE u \notin SnapsOf(v)
    BY <2>2, <2>4
  <2> QED BY <2>3, <2>4
<1>4. ASSUME NEW u \in Uuids
      PROVE  /\ Live(u)' <=> Live(u) /\ snap[u].parent # v
             /\ Born(u)' <=> Born(u)
             /\ snap[u].st # "taking" => snap'[u].st # "taking"
  BY <1>3 DEF Live, Born, SnapsOf
<1>5. TypeOK'
  BY <1>1, <1>2 DEF IInv, TypeOK
<1>6. SnapInv' /\ OneSnapshotPerName'
  <2>1. \A u \in Uuids : Born(u)' =>
          /\ snap'[u].name \in Names /\ snap'[u].parent = SourceOf[snap'[u].name]
          /\ Live(u)' => snap'[u].parent \in alive'
    BY <1>1, <1>3, <1>4 DEF IInv, SnapInv
  <2>2. Smb => \A t, w \in Uuids : /\ Live(t)' /\ Live(w)' /\ snap'[t].parent = snap'[w].parent
                                    /\ snap'[t].time = snap'[w].time
                                    => t = w
    BY <1>3, <1>4 DEF IInv, SnapInv
  <2>3. OneSnapshotPerName'
    BY <1>3, <1>4 DEF IInv, OneSnapshotPerName
  <2> QED BY <2>1, <2>2, <2>3 DEF SnapInv
<1>7. Steady
  BY <1>1, <1>3, <1>4 DEF Steady, GivenUp
<1>8. Losses
  <2> SUFFICES ASSUME NEW u \in Uuids, Live(u), ~Live(u)'
               PROVE  /\ snap[u].parent \notin alive'
                      /\ snap[u].name \in world.names => phase[snap[u].name] # "wanted"
    BY DEF Losses
  <2>1. snap[u].parent = v /\ Born(u)
    BY <1>4 DEF Live, Born
  <2>2. SourceOf[snap[u].name] = v
    BY <2>1 DEF IInv, SnapInv
  <2> QED BY <1>1, <2>1, <2>2
<1>9. Binds /\ Deletes /\ \A d \in Calls : Spares(d)
  <2>1. Binds /\ Deletes
    BY <1>1 DEF Binds, Deletes
  <2>2. \A d \in Calls : Spares(d)
    BY <1>1, <1>4 DEF Spares
  <2> QED BY <2>1, <2>2
<1>10. CopyInv' /\ CopySteady
  <2>1. ASSUME NEW q \in Copies, copy[q].st # "none"
        PROVE  /\ copy[q].of \in Uuids /\ Born(copy[q].of)'
               /\ Careful => snap'[copy[q].of].name = FromOf[q]
               /\ Smb => copy[q].st = "listed"
    <3>1. PICK w \in Uuids : /\ w = copy[q].of /\ Born(w)
                             /\ Careful => snap[w].name = FromOf[q]
                             /\ Smb => copy[q].st = "listed"
      BY <2>1 DEF IInv, CopyInv
    <3> QED BY <1>1, <1>3, <1>4, <3>1 DEF Born
  <2> QED BY <1>1, <2>1 DEF IInv, CopyInv, CopySteady, Born
<1> QED BY <1>1, <1>5, <1>6, <1>7, <1>8, <1>9, <1>10, OtherStep

LEMMA StutterStep ==
  ASSUME IInv, UNCHANGED <<vars, world>>
  PROVE  IInv'
<1>1. UNCHANGED <<alive, snap, copy, clock, call, phase, snapId, faults, world>>
  BY DEF vars, dsmVars, clusterVars
<1>2. TypeOK'
  BY <1>1, SameWorld DEF IInv, TypeOK
<1>3. /\ SnapInv' /\ CopyInv' /\ OneSnapshotPerName'
      /\ Steady /\ CopySteady /\ Losses /\ Binds /\ Deletes
      /\ \A d \in Calls : Spares(d)
  BY <1>1, StillStep
<1> QED BY <1>1, <1>2, <1>3, OtherStep

-----------------------------------------------------------------------------
(* The invariant holds.                                                    *)

LEMMA InitInv == Init => IInv
<1> SUFFICES ASSUME Init PROVE IInv
  OBVIOUS
<1>0. \A c \in Calls : call[c] = IdleCall
  BY DEF Init
<1>1. TypeOK
  <2>1. NoSnap \in SnapType
    BY DEF NoSnap, SnapType
  <2>2. NoCopy \in CopyType
    BY DEF NoCopy, CopyType
  <2>3. alive \subseteq Volumes /\ faults \in 0..MaxFaults
    BY WorldTyped DEF Init
  <2>4. clock \in Times
    BY MaxTimePositive DEF Init, Times
  <2> QED BY <2>1, <2>2, <2>3, <2>4, IdleCallType DEF Init, TypeOK
<1>2. \A u \in Uuids : ~Born(u) /\ ~Live(u)
  BY DEF Init, Born, Live, NoSnap
<1>3. SnapInv /\ OneSnapshotPerName
  BY <1>2 DEF SnapInv, OneSnapshotPerName
<1>4. PhaseInv /\ DeletedGone
  BY DEF Init, PhaseInv, DeletedGone
<1>5. CopyInv
  BY DEF Init, CopyInv, NoCopy
<1>6. OneCall
  BY <1>0 DEF OneCall, Busy, IdleCall
<1>7. ASSUME NEW c \in Calls PROVE CallInv(c)
  BY <1>0 DEF CallInv, RequestInv, CreateInv, FoundInv, DeleteInv, ListInv, NoneYet, RestoreInv,
     IdleCall, Busy, CreatePcs
<1> QED BY <1>1, <1>3, <1>4, <1>5, <1>6, <1>7 DEF IInv, Init

LEMMA NextInv == IInv /\ [Next /\ UNCHANGED world]_<<vars, world>> => IInv'
<1> SUFFICES ASSUME IInv, [Next /\ UNCHANGED world]_<<vars, world>> PROVE IInv'
  OBVIOUS
<1>1. CASE UNCHANGED <<vars, world>>
  BY <1>1, StutterStep
<1>2. CASE Next /\ UNCHANGED world
  <2>1. ASSUME NEW c \in Calls, Step(c) PROVE IInv'
    BY <1>2, <2>1, HandlerStep
  <2>2. ASSUME NEW c \in Calls, \/ \E n \in Names : StartCreate(c, n) \/ StartDelete(c, n)
                                \/ \E r \in Copies : StartRestore(c, r)
        PROVE IInv'
    BY <1>2, <2>2, StartStep
  <2>3. ASSUME NEW n \in Names, Release(n) PROVE IInv'
    BY <1>2, <2>3, ReleaseStep
  <2>4. ASSUME NEW c \in Calls, Deadline(c) PROVE IInv'
    BY <1>2, <2>4, DeadlineStep
  <2>5. ASSUME NEW u \in Uuids, SnapshotDone(u) PROVE IInv'
    BY <1>2, <2>5, SnapshotDoneStep
  <2>6. ASSUME NEW r \in Copies, CloneDone(r) PROVE IInv'
    BY <1>2, <2>6, CloneDoneStep
  <2>7. ASSUME NEW v \in Volumes, DeleteSource(v) PROVE IInv'
    BY <1>2, <2>7, DeleteSourceStep
  <2>8. CASE Finished
    BY <1>2, <2>8, StutterStep DEF Finished
  <2> QED BY <1>2, <2>1, <2>2, <2>3, <2>4, <2>5, <2>6, <2>7, <2>8, RestartStep, TickStep
          DEF Next
<1> QED BY <1>1, <1>2

\* The invariant holds in every reachable state.
THEOREM Invariance == Spec => []IInv
  BY InitInv, NextInv, PTL DEF Spec

\* Every variable keeps its type, in every world.
THEOREM SnapshotTypes == Spec => []TypeOK
<1>1. IInv => TypeOK
  BY DEF IInv
<1> QED BY <1>1, Invariance, PTL

\* A reported snapshot is ready, bears its name and shows its volume, until it is
\* released: concurrent creations, deletions by time, listings that fail, crashes
\* and, for LUNs, requests that were given up, notwithstanding.
THEOREM SnapshotsKept == Spec => []SnapshotKept
<1>1. IInv => SnapshotKept
  <2> SUFFICES ASSUME IInv, Careful, NEW n \in Names, phase[n] = "bound", SourceOf[n] \in alive
               PROVE  \E u \in Uuids : u = snapId[n] /\ snap[u] = [st |-> "healthy", name |-> n,
                                         parent |-> SourceOf[n], time |-> snap[u].time]
    BY DEF SnapshotKept
  <2>1. PICK u \in Uuids : /\ u = snapId[n] /\ Born(u)
                           /\ snap[u].name = n /\ snap[u].st = "healthy"
    BY DEF IInv, PhaseInv
  <2>2. snap[u].parent = SourceOf[n] /\ snap[u] \in SnapType
    BY <2>1 DEF IInv, SnapInv, TypeOK
  <2> QED BY <2>1, <2>2 DEF SnapType
<1> QED BY <1>1, Invariance, PTL

\* A restored volume that was reported is listed, and a copy of a snapshot of the
\* name it was to be restored from.
THEOREM CopiesComplete == Spec => []RestoredComplete
<1>1. IInv => RestoredComplete
  BY DEF IInv, CopyInv, RestoredComplete
<1> QED BY <1>1, Invariance, PTL

\* No name has two snapshots when the listings do not fail and the cluster waits
\* for its answers, although nothing in the DSM or the driver enforces it.
THEOREM OnePerName == Spec => []OneSnapshotPerName
<1>1. IInv => OneSnapshotPerName
  BY DEF IInv
<1> QED BY <1>1, Invariance, PTL

\* A deletion that was reported has happened, when the listings do not fail.
THEOREM DeletionsHonest == Spec => []DeletedGone
<1>1. IInv => DeletedGone
  BY DEF IInv
<1> QED BY <1>1, Invariance, PTL

\* A LUN is mapped only when its copy is complete, whatever fails and however the
\* handlers that serve the same name overlap.
THEOREM CopiesFirst == Spec => CopiedFirst
<1>1. IInv /\ [Next /\ UNCHANGED world]_<<vars, world>>
        => [\A r \in Copies : copy[r].st = "cloning" => copy'[r].st # "listed"]_vars
  <2> SUFFICES ASSUME IInv, [Next /\ UNCHANGED world]_<<vars, world>>,
                      NEW r \in Copies, copy[r].st = "cloning"
               PROVE  copy'[r].st # "listed"
    OBVIOUS
  <2>0. copy \in [Copies -> CopyType]
    BY DEF IInv, TypeOK
  <2>1. CASE copy' = copy
    BY <2>1
  <2>2. ASSUME NEW c \in Calls, SnapshotClone(c) PROVE copy'[r].st # "listed"
    <3>1. CASE copy' = copy
      BY <3>1
    <3>2. CASE copy' # copy
      <4>1. copy[call[c].name].st = "none"
        BY <2>2, <3>2 DEF SnapshotClone
      <4>2. call[c].name # r
        BY <4>1
      <4>3. copy'[r] = copy[r]
        BY <2>0, <2>2, <4>2 DEF SnapshotClone
      <4> QED BY <4>3
    <3> QED BY <3>1, <3>2
  <2>3. ASSUME NEW c \in Calls, Map(c) PROVE copy'[r].st # "listed"
    <3>1. copy[call[c].name].st # "cloning"
      BY <2>3 DEF Map, IInv, CallInv, RestoreInv, At
    <3> QED BY <2>0, <2>3, <3>1 DEF Map
  <2>4. ASSUME NEW q \in Copies, CloneDone(q) PROVE copy'[r].st # "listed"
    BY <2>0, <2>4 DEF CloneDone, CopyType
  <2>5. ASSUME NEW c \in Calls, Step(c) PROVE \/ copy' = copy \/ SnapshotClone(c) \/ Map(c)
    BY <2>5 DEF Step, CopyList, VolumeList, SnapshotList, ListEnd, GetVolume, SnapshotCreate,
       SnapshotDelete, SnapshotGet, WaitClone, dsmVars
  <2>6. \/ copy' = copy
        \/ \E c \in Calls : Step(c)
        \/ \E q \in Copies : CloneDone(q)
    BY DEF Next, StartCreate, StartDelete, StartRestore, Start, Release, Deadline, Restart,
       SnapshotDone, Tick, DeleteSource, Finished, vars, dsmVars
  <2> QED BY <2>1, <2>2, <2>3, <2>4, <2>5, <2>6
<1> QED BY <1>1, Invariance, PTL DEF Spec, CopiedFirst
=============================================================================
