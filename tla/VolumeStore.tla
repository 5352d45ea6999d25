----------------------------- MODULE VolumeStore -----------------------------
(***************************************************************************)
(* What the controller service promises about volumes, whatever runs       *)
(* below it: a store of usable volumes.  Volumes may appear that nobody    *)
(* was told of (a creation that failed half-way, or was answered too       *)
(* late), and such volumes may vanish again; but a name is bound to a      *)
(* volume that is usable, the bound volume stays until its release, and    *)
(* a deletion is reported when the volume is gone.                         *)
(***************************************************************************)
CONSTANTS Names, Uuids, None

VARIABLES phase, volumeId,
          usable      \* the volumes that can be attached

vars == <<phase, volumeId, usable>>

Bound(u) == \E n \in Names : phase[n] = "bound" /\ volumeId[n] = u

Init ==
    /\ phase = [n \in Names |-> "wanted"]
    /\ volumeId = [n \in Names |-> None]
    /\ usable = {}

\* A volume comes to exist and nobody is told.
Appear(u) ==
    /\ usable' = usable \cup {u}
    /\ UNCHANGED <<phase, volumeId>>

\* A creation answers with a volume that is usable, made now or before.
Create(n, u) ==
    /\ phase[n] = "wanted"
    /\ phase' = [phase EXCEPT ![n] = "bound"]
    /\ volumeId' = [volumeId EXCEPT ![n] = u]
    /\ usable' = usable \cup {u}

Release(n) ==
    /\ phase[n] = "bound"
    /\ phase' = [phase EXCEPT ![n] = "released"]
    /\ UNCHANGED <<volumeId, usable>>

\* A volume that no name is bound to goes away.
Vanish(u) ==
    /\ ~Bound(u)
    /\ usable' = usable \ {u}
    /\ UNCHANGED <<phase, volumeId>>

\* A deletion is reported; it may take the last unbound volume with it.
Delete(n) ==
    /\ phase[n] = "released"
    /\ phase' = [phase EXCEPT ![n] = "deleted"]
    /\ \E gone \in SUBSET usable :
         /\ \A u \in gone : ~Bound(u)
         /\ usable' = usable \ gone
    /\ volumeId[n] \notin usable'
    /\ UNCHANGED volumeId

Next ==
    \/ \E u \in Uuids : Appear(u) \/ Vanish(u)
    \/ \E n \in Names : Release(n) \/ Delete(n)
    \/ \E n \in Names, u \in Uuids : Create(n, u)

Spec == Init /\ [][Next]_vars
=============================================================================
