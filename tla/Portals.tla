------------------------------- MODULE Portals -------------------------------
(***************************************************************************)
(* The portals through which a node reaches a LUN: one address of the DSM, *)
(* and, for a unified controller ("UC") with multipath on the node, one    *)
(* address of its other controller.                                        *)
(*                                                                         *)
(* The other controller is told from the network interfaces of both, and   *)
(* its addresses are tried from the nearest to the farthest.  An address   *)
(* is four numbers; "nearer" is a longer common beginning of their text,   *)
(* so 10.0.1 is also the beginning of 10.0.10.5.  Interfaces come and go   *)
(* while the addresses are tried.                                          *)
(*                                                                         *)
(* An operator whose comment begins with "Mutation" is not part of the     *)
(* model: it is a plausible bug of the operator after it.                  *)
(***************************************************************************)
EXTENDS Integers, Sequences

CONSTANTS
    IfsA, IfsB,     \* the addresses of the interfaces of controllers A and B, as listed
    Names,          \* the sets of addresses that the DSM's name may resolve to
    None,           \* no address
    MaxFaults,      \* bound on the calls that fail
    MaxChanges      \* bound on the changes of the network

Addresses == [1..4 -> 0..255]
Ifs == [A |-> IfsA, B |-> IfsB]
Of(x) == {Ifs[x][i] : i \in DOMAIN Ifs[x]}
All == Of("A") \cup Of("B")
Other(x) == IF x = "A" THEN "B" ELSE "A"

ASSUME IfsTyped == IfsA \in Seq(Addresses) /\ IfsB \in Seq(Addresses)
ASSUME NamesTyped == UNION Names \subseteq Addresses
ASSUME ControllersApart == Of("A") \cap Of("B") = {}
ASSUME NoneIsNone == None \notin Addresses
ASSUME BoundsNat == MaxFaults \in Nat /\ MaxChanges \in Nat

VARIABLES
    name,       \* what the name in client-info.yml resolves to
    uc,         \* the DSM is a UC, and multipath runs on the node
    usable,     \* the addresses that are connected and answer
    pc,
    portals,    \* what getPortals has so far
    own,        \* the address the other controller's is to be near to
    controller, \* the controller that own is of: DSM.Controller
    depth,      \* how many numbers are cut off the address: i of the loop, plus one
    try,        \* the next of the other controller's interfaces to look at
    failed,     \* a call failed
    faults, changes

vars == <<name, uc, usable, pc, portals, own, controller, depth, try, failed, faults, changes>>

-----------------------------------------------------------------------------
Fail == faults < MaxFaults /\ faults' = faults + 1 /\ failed' = TRUE

\* LookupIPv4: the first address, in whatever order the resolver has them; or the
\* name itself, which iscsiadm resolves.  GetDsm finds the DSM: the volume was
\* listed by it.
Begin ==
    /\ pc = "begin" /\ pc' = "isUC"
    /\ \E a \in name : portals' = <<a>>
    /\ UNCHANGED <<name, uc, usable, own, controller, depth, try, failed, faults, changes>>

\* IsUC says no when the DSM does not answer; without multipath it does not matter.
IsUC ==
    /\ pc = "isUC"
    /\ \/ uc /\ pc' = "networks" /\ UNCHANGED <<failed, faults>>
       \/ pc' = "done" /\ (IF uc THEN Fail ELSE UNCHANGED <<failed, faults>>)
    /\ UNCHANGED <<name, uc, usable, portals, own, controller, depth, try, changes>>

\* Mutation: the controller is not told by the addresses of B.
NetworksA ==
    /\ pc = "networks" /\ pc' = "try"
    /\ \E a \in name : own' = a
    /\ controller' = "A" /\ depth' = 1 /\ try' = 1
    /\ UNCHANGED <<name, uc, usable, portals, failed, faults, changes>>

\* GetAnotherController lists the interfaces of both, resolves the name again,
\* and takes the DSM for controller A unless B has its address.
Networks ==
    /\ pc = "networks"
    /\ \/ /\ pc' = "try" /\ depth' = 1 /\ try' = 1 /\ UNCHANGED <<failed, faults>>
          /\ \E a \in name : /\ own' = a
                            /\ controller' = IF a \in Of("B") THEN "B" ELSE "A"
       \/ pc' = "done" /\ Fail /\ UNCHANGED <<own, controller, depth, try>>
    /\ UNCHANGED <<name, uc, usable, portals, changes>>

\* strings.HasPrefix: the numbers kept are the same, the last as a beginning of
\* its decimal digits; nothing kept is a beginning of everything.
StartsWith(n, m) == n = m \/ (m > 0 /\ m \in {n \div 10, n \div 100})
HasPrefix(a, keep) ==
    keep > 0 => StartsWith(a[keep], own[keep]) /\ \A i \in 1..(keep - 1) : a[i] = own[i]

\* Mutation: the last round, without a common beginning, is left out.
TryThrice ==
    LET list == Ifs[Other(controller)]
    IN  /\ pc = "try"
        /\ IF try <= Len(list)
             THEN /\ UNCHANGED depth
                  /\ IF HasPrefix(list[try], 4 - depth) /\ list[try] \in usable
                       THEN portals' = Append(portals, list[try]) /\ pc' = "done" /\ UNCHANGED try
                       ELSE try' = try + 1 /\ UNCHANGED <<portals, pc>>
             ELSE /\ UNCHANGED portals
                  /\ IF depth < 3 THEN depth' = depth + 1 /\ try' = 1 /\ UNCHANGED pc
                                  ELSE pc' = "done" /\ UNCHANGED <<depth, try>>
        /\ UNCHANGED <<name, uc, usable, own, controller, failed, faults, changes>>

\* One interface of the other controller: skipped if it is not near enough for
\* this round, taken if it is connected and answers.
Try ==
    LET list == Ifs[Other(controller)]
    IN  /\ pc = "try"
        /\ IF try <= Len(list)
             THEN /\ UNCHANGED depth
                  /\ IF HasPrefix(list[try], 4 - depth) /\ list[try] \in usable
                       THEN portals' = Append(portals, list[try]) /\ pc' = "done" /\ UNCHANGED try
                       ELSE try' = try + 1 /\ UNCHANGED <<portals, pc>>
             ELSE /\ UNCHANGED portals
                  /\ IF depth < 4 THEN depth' = depth + 1 /\ try' = 1 /\ UNCHANGED pc
                                  ELSE pc' = "done" /\ UNCHANGED <<depth, try>>
        /\ UNCHANGED <<name, uc, usable, own, controller, failed, faults, changes>>

\* An interface goes down or comes up.
Change ==
    /\ changes < MaxChanges /\ changes' = changes + 1
    /\ \E a \in All : usable' = IF a \in usable THEN usable \ {a} ELSE usable \cup {a}
    /\ UNCHANGED <<name, uc, pc, portals, own, controller, depth, try, failed, faults>>

Finished == pc = "done" /\ UNCHANGED vars

-----------------------------------------------------------------------------
Init ==
    /\ name \in Names /\ uc \in BOOLEAN /\ usable \in SUBSET All
    /\ pc = "begin" /\ portals = <<>> /\ own = None /\ controller = "A"
    /\ depth = 1 /\ try = 1 /\ failed = FALSE /\ faults = 0 /\ changes = 0

Next == Begin \/ IsUC \/ Networks \/ Try \/ Change \/ Finished

Spec == Init /\ [][Next]_vars

-----------------------------------------------------------------------------
(* Properties.                                                             *)

\* The shape of the state: every variable has its type.
TypeOK ==
    /\ name \in Names /\ uc \in BOOLEAN /\ usable \subseteq All
    /\ pc \in {"begin", "isUC", "networks", "try", "done"}
    /\ portals \in Seq(Addresses) /\ Len(portals) <= 2
    /\ own \in Addresses \cup {None} /\ controller \in {"A", "B"}
    /\ depth \in 1..4 /\ try \in 1..(Len(Ifs[Other(controller)]) + 1) /\ failed \in BOOLEAN
    /\ faults \in 0..MaxFaults /\ changes \in 0..MaxChanges

Same(x, a) == \E c \in {"A", "B"} : {x, a} \subseteq Of(c)

\* Two portals are of two controllers, whichever of its addresses the DSM was
\* reached by: a LUN with two paths survives the loss of one controller.
TwoControllers ==
    Len(portals) = 2 => ~Same(portals[1], portals[2])

Common(a) == CHOOSE n \in 0..3 : HasPrefix(a, n) /\ \A m \in (n + 1)..3 : ~HasPrefix(a, m)

\* If no call fails and the network does not change, there is a second portal
\* as soon as some address of the other controller is usable, and none of these
\* has a longer common beginning with the DSM's own: the rounds leave none out.
NearestFound ==
    pc = "done" /\ uc /\ ~failed /\ changes = 0 =>
        LET there == Of(Other(controller)) \cap usable
        IN  /\ Len(portals) = 2 <=> there # {}
            /\ Len(portals) = 2 => \A a \in there : Common(a) <= Common(portals[2])

=============================================================================
