---------------------------- MODULE Portals_proofs ----------------------------
(***************************************************************************)
(* What holds of the portals for every network of the two controllers.     *)
(***************************************************************************)
EXTENDS Portals, SequenceTheorems, TLAPS

\* The name of the DSM leads to one controller, B, or to what is not of B: a
\* name that leads to both may be looked up once as the one and once as the other.
OneController == \A n \in Names : n \cap Of("B") = {} \/ n \subseteq Of("B")

\* The portals found so far, and what the search knows of the one at hand.
SearchInv ==
    /\ pc = "begin" => portals = <<>>
    /\ pc \in {"isUC", "networks", "try"} => Len(portals) = 1
    /\ Len(portals) > 0 => portals[1] \in name
    /\ pc = "try" => /\ own \in name
                     /\ controller = IF own \in Of("B") THEN "B" ELSE "A"

\* The types, apart from those of the two truth values, which the prover that does
\* arithmetic and sequences does not handle together with the rest.
Flags == uc \in BOOLEAN /\ failed \in BOOLEAN

Typed ==
    /\ name \in Names /\ usable \subseteq All
    /\ pc \in {"begin", "isUC", "networks", "try", "done"}
    /\ portals \in Seq(Addresses) /\ Len(portals) <= 2
    /\ own \in Addresses \cup {None} /\ controller \in {"A", "B"}
    /\ depth \in 1..4 /\ try \in 1..(Len(Ifs[Other(controller)]) + 1)
    /\ faults \in 0..MaxFaults /\ changes \in 0..MaxChanges

IInv == Typed /\ SearchInv

\* What the rounds have left behind while the network stood still: a usable
\* interface that would have had to be taken in this round or an earlier one.
Passed ==
    LET list == Ifs[Other(controller)]
    IN  \A i \in DOMAIN list : list[i] \in usable =>
            /\ \A k \in (5 - depth)..3 : ~HasPrefix(list[i], k)
            /\ i < try => ~HasPrefix(list[i], 4 - depth)

PassedInv ==
    /\ pc = "try" /\ changes = 0 => Passed
    /\ NearestFound

-----------------------------------------------------------------------------
\* The interfaces are addresses, those of the controllers are apart, and so a
\* listed interface is no address of the controller that does not list it.
LEMMA Interfaces ==
  ASSUME NEW x \in {"A", "B"}
  PROVE  /\ Other(x) \in {"A", "B"} /\ Other(x) # x
         /\ Of(x) \subseteq Addresses
         /\ Of("A") \cap Of("B") = {}
         /\ DOMAIN Ifs[x] = 1..Len(Ifs[x]) /\ Len(Ifs[x]) \in Nat
         /\ \A i \in DOMAIN Ifs[x] : Ifs[x][i] \in Of(x)
<1>0. Ifs[x] \in Seq(Addresses)
  BY IfsTyped DEF Ifs
<1>1. Other(x) \in {"A", "B"} /\ Other(x) # x
  BY DEF Other
<1>2. Of(x) \subseteq Addresses
  BY <1>0 DEF Of
<1>3. \A i \in DOMAIN Ifs[x] : Ifs[x][i] \in Of(x)
  BY DEF Of
<1> QED BY <1>0, <1>1, <1>2, <1>3, ControllersApart

\* The first step of every behaviour.
LEMMA InitInv == Init => IInv
<1> SUFFICES ASSUME Init PROVE IInv
  OBVIOUS
<1>1. Typed
  <2>1. try \in 1..(Len(Ifs[Other(controller)]) + 1)
    BY Interfaces DEF Init
  <2> QED BY <2>1, BoundsNat DEF Init, Typed
<1>2. SearchInv
  BY DEF Init, SearchInv
<1> QED BY <1>1, <1>2 DEF IInv

\* The interface tried is an address of the other controller's.
LEMMA TakenTyped ==
  ASSUME IInv, pc = "try", try <= Len(Ifs[Other(controller)])
  PROVE  /\ controller \in {"A", "B"} /\ try \in DOMAIN Ifs[Other(controller)]
         /\ Ifs[Other(controller)][try] \in Of(Other(controller))
         /\ Ifs[Other(controller)][try] \in Addresses
<1>1. controller \in {"A", "B"} /\ try \in Nat /\ try >= 1
  BY Interfaces DEF IInv, Typed
<1>2. try \in DOMAIN Ifs[Other(controller)]
  BY <1>1, Interfaces
<1> QED BY <1>1, <1>2, Interfaces

\* The interface tried is not of the controller that the first portal is of.
LEMMA TakenIsOther ==
  ASSUME OneController, IInv, pc = "try", try <= Len(Ifs[Other(controller)])
  PROVE  ~Same(portals[1], Ifs[Other(controller)][try])
<1> DEFINE a == Ifs[Other(controller)][try]
<1>1. /\ name \in Names /\ portals[1] \in name /\ own \in name
      /\ controller = IF own \in Of("B") THEN "B" ELSE "A"
  <2>1. Len(portals) = 1
    BY DEF IInv, SearchInv
  <2> QED BY <2>1 DEF IInv, SearchInv, Typed
<1>2. a \in Of(Other(controller))
  BY TakenTyped
<1>3. CASE controller = "A"
  <2>1. portals[1] \notin Of("B") /\ a \notin Of("A")
    BY <1>1, <1>2, <1>3, ControllersApart DEF OneController, Other
  <2> QED BY <2>1 DEF Same
<1>4. CASE controller = "B"
  <2>1. portals[1] \notin Of("A") /\ a \notin Of("B")
    BY <1>1, <1>2, <1>4, ControllersApart DEF OneController, Other
  <2> QED BY <2>1 DEF Same
<1> QED BY <1>3, <1>4, TakenTyped

\* A look at one interface takes it as the second portal, or goes on to the
\* next interface or round, or is the last.
LEMMA TryCases ==
  ASSUME IInv, Try
  PROVE  LET list == Ifs[Other(controller)]
         IN  /\ pc = "try" /\ Len(portals) = 1 /\ portals[1] \in name
             /\ UNCHANGED <<name, uc, usable, own, controller, failed, faults, changes>>
             /\ \/ /\ try <= Len(list) /\ list[try] \in usable /\ HasPrefix(list[try], 4 - depth)
                   /\ pc' = "done" /\ UNCHANGED <<depth, try>>
                   /\ portals' \in Seq(Addresses) /\ Len(portals') = 2
                   /\ portals'[1] = portals[1] /\ portals'[2] = list[try]
                \/ /\ try <= Len(list) /\ ~(HasPrefix(list[try], 4 - depth) /\ list[try] \in usable)
                   /\ try' = try + 1 /\ UNCHANGED <<portals, pc, depth>>
                \/ /\ try > Len(list) /\ depth < 4
                   /\ depth' = depth + 1 /\ try' = 1 /\ UNCHANGED <<portals, pc>>
                \/ /\ try > Len(list) /\ depth = 4
                   /\ pc' = "done" /\ UNCHANGED <<portals, depth, try>>
<1> DEFINE list == Ifs[Other(controller)]
<1>1. pc = "try" /\ UNCHANGED <<name, uc, usable, own, controller, failed, faults, changes>>
  BY DEF Try
<1>2. Len(portals) = 1 /\ portals[1] \in name /\ portals \in Seq(Addresses)
  <2>1. Len(portals) = 1
    BY <1>1 DEF IInv, SearchInv
  <2> QED BY <2>1 DEF IInv, SearchInv, Typed
<1>3. try \in Nat /\ Len(list) \in Nat /\ depth \in 1..4
  BY Interfaces DEF IInv, Typed
<1>4. CASE try <= Len(list) /\ HasPrefix(list[try], 4 - depth) /\ list[try] \in usable
  <2>1. portals' = Append(portals, list[try]) /\ pc' = "done" /\ UNCHANGED <<depth, try>>
    BY <1>4 DEF Try
  <2>2. list[try] \in Addresses
    BY <1>1, <1>4, TakenTyped
  <2>3. /\ portals' \in Seq(Addresses) /\ Len(portals') = Len(portals) + 1
        /\ \A i \in 1..Len(portals) : portals'[i] = portals[i]
        /\ portals'[Len(portals) + 1] = list[try]
    <3>1. portals' = Append(portals, list[try]) /\ portals \in Seq(Addresses) /\ list[try] \in Addresses
      BY <1>2, <2>1, <2>2
    <3> HIDE DEF list
    <3> QED BY <3>1, AppendProperties
  <2>4. Len(portals') = 2 /\ portals'[1] = portals[1] /\ portals'[2] = list[try]
    BY <1>2, <2>3
  <2> QED BY <1>1, <1>2, <1>4, <2>1, <2>3, <2>4
<1>5. CASE try <= Len(list) /\ ~(HasPrefix(list[try], 4 - depth) /\ list[try] \in usable)
  <2>1. try' = try + 1 /\ UNCHANGED <<portals, pc, depth>>
    BY <1>5 DEF Try
  <2> QED BY <1>1, <1>2, <1>5, <2>1
<1>6. CASE try > Len(list)
  <2>1. /\ UNCHANGED portals
        /\ IF depth < 4 THEN depth' = depth + 1 /\ try' = 1 /\ UNCHANGED pc
                        ELSE pc' = "done" /\ UNCHANGED <<depth, try>>
    BY <1>3, <1>6 DEF Try
  <2> QED BY <1>1, <1>2, <1>3, <1>6, <2>1
<1> QED BY <1>3, <1>4, <1>5, <1>6

\* A look at one interface preserves the invariant.
LEMMA TryInv ==
  ASSUME IInv, Try
  PROVE  IInv'
<1> DEFINE list == Ifs[Other(controller)]
<1>1. Len(list) \in Nat /\ list' = list
  <2>1. controller' = controller
    BY TryCases
  <2>2. Len(list) \in Nat
    BY Interfaces DEF IInv, Typed
  <2> QED BY <2>1, <2>2 DEF Ifs, Other
<1>2. Typed'
  <2>1. /\ UNCHANGED <<name, usable, own, controller, faults, changes>>
        /\ pc' \in {"try", "done"}
    BY TryCases
  <2>2. portals' \in Seq(Addresses) /\ Len(portals') <= 2
    <3>1. portals \in Seq(Addresses) /\ Len(portals) = 1
      BY TryCases DEF IInv, Typed
    <3>2. UNCHANGED portals \/ (portals' \in Seq(Addresses) /\ Len(portals') = 2)
      BY TryCases
    <3>3. CASE portals' = portals
      BY <3>1, <3>3
    <3>4. CASE portals' \in Seq(Addresses) /\ Len(portals') = 2
      BY <3>4
    <3> QED BY <3>2, <3>3, <3>4
  <2>3. depth' \in 1..4 /\ try' \in 1..(Len(list) + 1)
    <3>1. depth \in 1..4 /\ try \in 1..(Len(list) + 1)
      BY DEF IInv, Typed
    <3> HIDE DEF list
    <3> QED BY <1>1, <3>1, TryCases DEF list
  <2> QED BY <1>1, <2>1, <2>2, <2>3 DEF IInv, Typed
<1>3. SearchInv'
  BY TryCases DEF IInv, SearchInv, Of, Ifs
<1> QED BY <1>2, <1>3 DEF IInv

\* So do the steps before the search.
LEMMA EarlierInv ==
  ASSUME IInv, Begin \/ IsUC \/ Networks
  PROVE  IInv'
<1> USE DEF Fail
<1>1. CASE Begin
  <2>1. PICK a \in name : portals' = <<a>>
    BY <1>1 DEF Begin
  <2>2. a \in Addresses
    BY NamesTyped DEF IInv, Typed
  <2>3. portals' \in Seq(Addresses) /\ Len(portals') = 1 /\ portals'[1] = a
    BY <2>1, <2>2
  <2> QED BY <1>1, <2>1, <2>3 DEF Begin, IInv, Typed, SearchInv
<1>2. CASE IsUC
  <2>1. Typed'
    BY <1>2, BoundsNat DEF IsUC, IInv, Typed
  <2>2. SearchInv'
    BY <1>2 DEF IsUC, IInv, SearchInv
  <2> QED BY <2>1, <2>2 DEF IInv
<1>3. CASE Networks
  <2>1. Typed'
    <3>1. CASE pc' = "done" /\ Fail /\ UNCHANGED <<own, controller, depth, try>>
      BY <1>3, <3>1, BoundsNat DEF Networks, IInv, Typed
    <3>2. ASSUME NEW a \in name, own' = a, controller' = IF a \in Of("B") THEN "B" ELSE "A",
                 pc' = "try", depth' = 1, try' = 1, UNCHANGED <<failed, faults>>
          PROVE Typed'
      <4>1. a \in Addresses
        BY NamesTyped DEF IInv, Typed
      <4>2. controller' \in {"A", "B"} /\ try' \in 1..(Len(Ifs[Other(controller')]) + 1)
        BY <3>2, Interfaces
      <4> QED BY <1>3, <3>2, <4>1, <4>2 DEF Networks, IInv, Typed
    <3> QED BY <1>3, <3>1, <3>2 DEF Networks
  <2>2. SearchInv'
    BY <1>3 DEF Networks, IInv, SearchInv, Of, Ifs
  <2> QED BY <2>1, <2>2 DEF IInv
<1> QED BY <1>1, <1>2, <1>3

\* Every step preserves the invariant.
LEMMA NextInv ==
  ASSUME IInv, [Next]_vars
  PROVE  IInv'
<1>1. CASE UNCHANGED vars
  BY <1>1 DEF vars, IInv, Typed, SearchInv, Of, Ifs, Other
<1>2. CASE Change
  <2>1. /\ usable' \subseteq All /\ changes' \in 0..MaxChanges
        /\ UNCHANGED <<name, uc, pc, portals, own, controller, depth, try, failed, faults>>
    BY <1>2, BoundsNat DEF Change, IInv, Typed
  <2>2. Typed'
    BY <2>1 DEF IInv, Typed
  <2>3. SearchInv'
    BY <2>1 DEF IInv, SearchInv
  <2> QED BY <2>2, <2>3 DEF IInv
<1>3. CASE Begin \/ IsUC \/ Networks
  BY <1>3, EarlierInv
<1>4. CASE Try
  BY <1>4, TryInv
<1>5. CASE Finished
  BY <1>1, <1>5 DEF Finished
<1> QED BY <1>1, <1>2, <1>3, <1>4, <1>5 DEF Next

\* Truth values stay truth values.
LEMMA FlagsInv ==
  ASSUME Flags, [Next]_vars
  PROVE  Flags'
  BY DEF Flags, Next, vars, Begin, IsUC, Networks, Try, Change, Finished, Fail

\* Two portals are of two controllers after a step, if they were before it.
LEMMA ApartKept ==
  ASSUME OneController, IInv, TwoControllers, [Next]_vars
  PROVE  TwoControllers'
<1>1. CASE Begin
  <2>1. PICK a \in name : portals' = <<a>>
    BY <1>1 DEF Begin
  <2>2. Len(portals') = 1
    BY <2>1
  <2> QED BY <2>2 DEF TwoControllers
<1>2. CASE Try
  <2>1. CASE UNCHANGED portals
    BY <2>1 DEF TwoControllers, Same, Of, Ifs
  <2>2. CASE /\ pc = "try" /\ try <= Len(Ifs[Other(controller)])
             /\ portals'[1] = portals[1] /\ portals'[2] = Ifs[Other(controller)][try]
    <3>1. ~Same(portals[1], Ifs[Other(controller)][try])
      BY <2>2, TakenIsOther
    <3> QED BY <2>2, <3>1 DEF TwoControllers, Same, Of, Ifs
  <2> QED BY <1>2, <2>1, <2>2, TryCases
<1>3. CASE UNCHANGED portals
  BY <1>3 DEF TwoControllers, Same, Of, Ifs
<1> QED BY <1>1, <1>2, <1>3 DEF Next, IsUC, Networks, Change, Finished, vars

-----------------------------------------------------------------------------
\* The common beginning of an address is one it has, and the longest.
LEMMA CommonLongest ==
  ASSUME NEW a
  PROVE  /\ Common(a) \in 0..3 /\ HasPrefix(a, Common(a))
         /\ \A m \in 0..3 : HasPrefix(a, m) => m <= Common(a)
<1>1. HasPrefix(a, 0)
  BY DEF HasPrefix
<1>2. \E n \in 0..3 : HasPrefix(a, n) /\ \A m \in (n + 1)..3 : ~HasPrefix(a, m)
  <2>1. CASE HasPrefix(a, 3)
    BY <2>1
  <2>2. CASE ~HasPrefix(a, 3) /\ HasPrefix(a, 2)
    BY <2>2
  <2>3. CASE ~HasPrefix(a, 3) /\ ~HasPrefix(a, 2) /\ HasPrefix(a, 1)
    BY <2>3
  <2>4. CASE ~HasPrefix(a, 3) /\ ~HasPrefix(a, 2) /\ ~HasPrefix(a, 1)
    BY <1>1, <2>4
  <2> QED BY <2>1, <2>2, <2>3, <2>4
<1>3. /\ Common(a) \in 0..3 /\ HasPrefix(a, Common(a))
      /\ \A m \in (Common(a) + 1)..3 : ~HasPrefix(a, m)
  BY <1>2 DEF Common
<1> QED BY <1>3

\* Beginnings are those common with the DSM's own address, whatever else changes.
LEMMA BeginningsKept ==
  ASSUME UNCHANGED own
  PROVE  /\ \A a, n : HasPrefix(a, n)' = HasPrefix(a, n)
         /\ \A a : Common(a)' = Common(a)
<1>1. \A a, n : HasPrefix(a, n)' = HasPrefix(a, n)
  BY DEF HasPrefix
<1>2. \A a : Common(a)' = Common(a)
  BY DEF Common, HasPrefix
<1> QED BY <1>1, <1>2

\* The end of the search: the interface taken is one of the nearest, and if none
\* is taken, none is usable.
LEMMA SearchEnds ==
  ASSUME IInv, PassedInv, Try, pc' = "done"
  PROVE  NearestFound'
<1> SUFFICES ASSUME changes' = 0 PROVE NearestFound'
  BY DEF NearestFound
<1> DEFINE list == Ifs[Other(controller)]
           there == Of(Other(controller)) \cap usable
<1>1. Of(Other(controller')) \cap usable' = there
  BY TryCases DEF Of, Ifs, Other
<1>2. depth \in 1..4 /\ Len(list) \in Nat /\ DOMAIN list = 1..Len(list)
  BY Interfaces DEF IInv, Typed
<1>3. \A a \in there : \E i \in DOMAIN list : list[i] = a
  BY DEF Of
<1>4. Passed
  BY TryCases DEF PassedInv
<1>5. CASE /\ try <= Len(list) /\ list[try] \in usable /\ HasPrefix(list[try], 4 - depth)
           /\ Len(portals') = 2 /\ portals'[2] = list[try]
  <2>1. list[try] \in there
    BY <1>5, TryCases, TakenTyped
  <2>2. ASSUME NEW a \in there PROVE Common(a) <= Common(list[try])
    <3>1. \A k \in (5 - depth)..3 : ~HasPrefix(a, k)
      BY <1>3, <1>4 DEF Passed
    <3>2. Common(a) \in 0..3 /\ Common(a) <= 4 - depth
      BY <1>2, <3>1, CommonLongest
    <3>3. Common(list[try]) \in 0..3 /\ 4 - depth <= Common(list[try])
      <4> HIDE DEF list
      <4> QED BY <1>2, <1>5, CommonLongest
    <3> QED BY <1>2, <3>2, <3>3
  <2>3. (\A a \in there : Common(a)' = Common(a)) /\ Common(portals[2])' = Common(list[try])
    <3>1. own' = own /\ portals'[2] = list[try]
      BY <1>5, TryCases
    <3>2. \A a : Common(a)' = Common(a)
      BY <3>1, BeginningsKept
    <3>3. Common(portals[2])' = Common(list[try])
      BY <3>1 DEF Common, HasPrefix
    <3> QED BY <3>2, <3>3
  <2>4. there # {} /\ \A a \in there : Common(a)' <= Common(portals[2])'
    BY <2>1, <2>2, <2>3
  <2> HIDE DEF there
  <2> QED BY <1>1, <1>5, <2>4 DEF NearestFound
<1>6. CASE try > Len(list) /\ depth = 4 /\ UNCHANGED portals
  <2>1. ASSUME NEW a \in there PROVE FALSE
    <3>1. PICK i \in DOMAIN list : list[i] = a
      BY <1>3
    <3>2. i < try
      BY <1>2, <1>6 DEF IInv, Typed
    <3>3. ~HasPrefix(a, 0)
      BY <1>4, <1>6, <3>1, <3>2 DEF Passed
    <3> QED BY <3>3 DEF HasPrefix
  <2>2. Len(portals') = 1
    BY <1>6, TryCases
  <2> HIDE DEF there
  <2> QED BY <1>1, <2>1, <2>2 DEF NearestFound
<1>7. pc = "try"
  BY TryCases
<1> QED BY <1>5, <1>6, <1>7, TryCases

\* Every step leaves behind only what it should.
LEMMA PassedKept ==
  ASSUME IInv, PassedInv, [Next]_vars
  PROVE  PassedInv'
<1>1. CASE Begin
  BY <1>1 DEF Begin, PassedInv, NearestFound
<1>2. CASE IsUC
  BY <1>2 DEF IsUC, Fail, PassedInv, NearestFound
<1>3. CASE Networks
  <2>1. CASE pc' = "done" /\ Fail
    BY <2>1 DEF Fail, PassedInv, NearestFound
  <2>2. CASE pc' = "try" /\ depth' = 1 /\ try' = 1
    <3>1. Passed'
      <4>1. DOMAIN Ifs[Other(controller')] \subseteq Nat \ {0}
        BY IfsTyped DEF Ifs, Other
      <4> QED BY <2>2, <4>1 DEF Passed, Ifs, Other
    <3> QED BY <2>2, <3>1 DEF PassedInv, NearestFound
  <2> QED BY <1>3, <2>1, <2>2 DEF Networks
<1>4. CASE Try
  <2>1. CASE pc' = "done"
    BY <1>4, <2>1, SearchEnds DEF PassedInv
  <2>2. CASE pc' # "done" /\ changes = 0
    <3> DEFINE list == Ifs[Other(controller)]
    <3>1. /\ depth \in 1..4 /\ try \in 1..(Len(list) + 1)
          /\ Len(list) \in Nat /\ DOMAIN list = 1..Len(list)
      BY Interfaces DEF IInv, Typed
    <3>2. Passed /\ UNCHANGED <<own, usable, controller>> /\ list' = list
      BY <1>4, <2>2, TryCases DEF PassedInv, Ifs, Other
    <3>3. \A a, n : HasPrefix(a, n)' = HasPrefix(a, n)
      BY <3>2, BeginningsKept
    <3>4. \/ /\ ~(HasPrefix(list[try], 4 - depth) /\ list[try] \in usable)
             /\ try' = try + 1 /\ UNCHANGED depth
          \/ /\ try > Len(list) /\ depth < 4 /\ depth' = depth + 1 /\ try' = 1
      BY <1>4, <2>2, TryCases
    <3>5. ASSUME NEW i \in DOMAIN list, list[i] \in usable
          PROVE  /\ \A k \in (5 - depth')..3 : ~HasPrefix(list[i], k)
                 /\ i < try' => ~HasPrefix(list[i], 4 - depth')
      <4>1. /\ \A k \in (5 - depth)..3 : ~HasPrefix(list[i], k)
            /\ i < try => ~HasPrefix(list[i], 4 - depth)
        BY <3>2, <3>5 DEF Passed
      <4> HIDE DEF list
      <4>2. CASE try' = try + 1 /\ UNCHANGED depth /\ ~(HasPrefix(list[try], 4 - depth) /\ list[try] \in usable)
        BY <3>1, <3>5, <4>1, <4>2
      <4>3. CASE try > Len(list) /\ depth' = depth + 1 /\ try' = 1
        BY <3>1, <4>1, <4>3
      <4> QED BY <3>4, <4>2, <4>3
    <3>6. Passed'
      BY <3>2, <3>3, <3>5 DEF Passed
    <3> QED BY <2>2, <3>6 DEF PassedInv, NearestFound
  <2>3. CASE pc' # "done" /\ changes # 0
    BY <1>4, <2>3 DEF Try, PassedInv, NearestFound
  <2> QED BY <2>1, <2>2, <2>3
<1>5. CASE Change
  <2>1. changes' # 0
    BY <1>5 DEF Change, IInv, Typed
  <2> QED BY <2>1 DEF PassedInv, NearestFound
<1>6. CASE Finished \/ UNCHANGED vars
  <2>1. UNCHANGED vars
    BY <1>6 DEF Finished
  <2>2. /\ \A a, n : HasPrefix(a, n)' = HasPrefix(a, n)
        /\ \A a : Common(a)' = Common(a)
    BY <2>1, BeginningsKept DEF vars
  <2> QED BY <2>1, <2>2 DEF vars, PassedInv, Passed, NearestFound, Of, Ifs, Other
<1> QED BY <1>1, <1>2, <1>3, <1>4, <1>5, <1>6 DEF Next

-----------------------------------------------------------------------------
\* Every reachable state of the search satisfies the invariant.
THEOREM SearchSound == Spec => []IInv
<1>1. IInv /\ [Next]_vars => IInv'
  BY NextInv
<1> QED BY <1>1, InitInv, PTL DEF Spec

\* The variables keep their types.
THEOREM PortalTypes == Spec => []TypeOK
<1>1. Init => Flags
  BY DEF Init, Flags
<1>2. Flags /\ [Next]_vars => Flags'
  BY FlagsInv
<1>3. IInv /\ Flags => TypeOK
  BY DEF IInv, Typed, Flags, TypeOK
<1> QED BY <1>1, <1>2, <1>3, SearchSound, PTL DEF Spec

\* Two portals are never of the same controller, for every network, whatever
\* fails and however the interfaces come and go, if the DSM's name leads to one
\* controller.
THEOREM PortalsOfTwoControllers ==
  ASSUME OneController
  PROVE  Spec => []TwoControllers
<1>1. Init => TwoControllers
  BY DEF Init, TwoControllers
<1>2. IInv /\ TwoControllers /\ [Next]_vars => TwoControllers'
  BY ApartKept
<1> QED BY <1>1, <1>2, SearchSound, PTL DEF Spec

\* For every network that stands still, and when no call fails: the search ends
\* with a second portal exactly when the other controller has a usable address,
\* and then with one that has as long a common beginning with the DSM's as any.
THEOREM NearestOfAll == Spec => []NearestFound
<1>1. Init => PassedInv
  BY DEF Init, PassedInv, NearestFound
<1>2. IInv /\ PassedInv /\ [Next]_vars => PassedInv'
  BY PassedKept
<1>3. PassedInv => NearestFound
  BY DEF PassedInv
<1> QED BY <1>1, <1>2, <1>3, SearchSound, PTL DEF Spec
=============================================================================
