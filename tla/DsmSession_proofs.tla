-------------------------- MODULE DsmSession_proofs --------------------------
(***************************************************************************)
(* What holds of the sessions for every number of handlers and of faults.  *)
(***************************************************************************)
EXTENDS DsmSession, FiniteSetTheorems, TLAPS

\* The call is in the part of sendRequest that follows a session error.
Renewing(h) == req[h].pc \in {"login", "store", "retry", "resent"}

\* Before the first mishap nothing has to be renewed; after it, whatever is
\* still to be used as a session id is alive.
Sound ==
    driver = "running" /\ faults <= 1 =>
        /\ faults = 0 => sid \in live
        /\ \A h \in Handlers :
             /\ req[h].last # "refused"
             /\ req[h].pc = "sent" /\ faults = 0 => req[h].cookie \in live
             /\ Renewing(h) => faults = 1
             /\ req[h].pc \in {"store", "resent"} => req[h].cookie \in live
             /\ req[h].pc = "retry" => sid \in live

\* A logout on its way is one of the three.
Counted == driver = "leaving" => tries < MaxTries

IInv == TypeOK /\ Counted /\ Sound

\* What the DSM, the main goroutine and a torn read do.
Rest == \/ \E s \in live : Expire(s)
        \/ Signal \/ LogoutSend \/ LogoutAnswer \/ LogoutClear
        \/ Exit \/ \E h \in Handlers : Torn(h)

-----------------------------------------------------------------------------
\* The first step of every behaviour.
LEMMA InitInv == Init => IInv
  BY MaxFaultsIsNat
  DEF Init, IInv, TypeOK, Counted, Sound, ReqType, Idle, Renewing, NoSid, MaxTries

\* The types survive a call of any handler.
LEMMA TypeStep ==
  ASSUME TypeOK, NEW h \in Handlers, Step(h)
  PROVE  TypeOK'
<1> USE MaxFaultsIsNat DEF TypeOK, ReqType, Idle, NoSid, MaxTries, Mishap, At
<1>1. CASE Send(h)
  BY ZenonT(30), <1>1 DEF Send, SendAs
<1>2. CASE Answer(h)
  BY <1>2 DEF Answer, Return
<1>3. CASE Login(h)
  <2>1. opened' \in {opened, opened + 1} /\ live' \subseteq 1..opened' /\ opened' \in Nat
    BY <1>3 DEF Login
  <2>2. req' \in [Handlers -> ReqType']
    <3>1. CASE req' = [req EXCEPT ![h].pc = "store", ![h].cookie = opened'] /\ opened' = opened + 1
      BY <2>1, <3>1
    <3>2. CASE Return(h, "error")
      BY <2>1, <3>2 DEF Return
    <3> QED BY <1>3, <3>1, <3>2 DEF Login
  <2>3. UNCHANGED <<sid, driver, ending, tries>> /\ faults' \in 0..MaxFaults
    BY <1>3 DEF Login
  <2> QED BY <2>1, <2>2, <2>3
<1>4. CASE Store(h)
  <2>1. req[h] \in ReqType /\ req[h].cookie \in 0..opened
    OBVIOUS
  <2>2. sid' \in 0..opened' /\ UNCHANGED <<opened, live, driver, ending, tries, faults>>
    BY <1>4, <2>1 DEF Store
  <2>3. req' \in [Handlers -> ReqType']
    <3>1. opened \in Nat /\ 0 \in 0..opened
      OBVIOUS
    <3>2. req' \in [Handlers -> ReqType]
      BY <1>4, <2>1, <3>1 DEF Store
    <3> QED BY <2>2, <3>2
  <2> QED BY <2>2, <2>3
<1>5. CASE Retry(h)
  BY ZenonT(30), <1>5 DEF Retry, SendAs
<1>6. CASE ReAnswer(h)
  BY <1>6 DEF ReAnswer, Return
<1> QED BY <1>1, <1>2, <1>3, <1>4, <1>5, <1>6 DEF Step

\* The types survive what the DSM and the main goroutine do.
LEMMA TypeRest ==
  ASSUME TypeOK, Counted, Rest
  PROVE  TypeOK'
<1> USE MaxFaultsIsNat DEF TypeOK, ReqType, Idle, NoSid, MaxTries, Mishap
<1>1. ASSUME NEW s \in live, Expire(s) PROVE TypeOK'
  BY <1>1 DEF Expire
<1>2. CASE Signal
  BY <1>2 DEF Signal
<1>3. CASE LogoutSend
  BY <1>3 DEF LogoutSend
<1>4. CASE LogoutAnswer
  <2>1. live' \subseteq live /\ ending' = 0 /\ UNCHANGED <<opened, sid, req>>
    BY ONLY <1>4 DEF LogoutAnswer, NoSid
  <2>2. tries' \in 0..MaxTries /\ faults' \in 0..MaxFaults
    <3>1. tries < MaxTries
      BY <1>4 DEF LogoutAnswer, Counted
    <3> QED BY <1>4, <3>1 DEF LogoutAnswer
  <2>3. driver' \in {"clearing", "stopping"}
    BY <1>4 DEF LogoutAnswer
  <2> QED BY <2>1, <2>2, <2>3
<1>5. CASE LogoutClear
  BY <1>5 DEF LogoutClear
<1>6. CASE End
  BY <1>6 DEF End
<1> QED BY <1>1, <1>2, <1>3, <1>4, <1>5, <1>6 DEF Rest, Exit, Torn

\* No fourth logout is sent.
LEMMA CountedNext ==
  ASSUME TypeOK, Counted, [Next]_vars
  PROVE  Counted'
<1>1. ASSUME NEW h \in Handlers, Step(h) PROVE Counted'
  BY <1>1 DEF Counted, Step, Send, Answer, Login, Store, Retry, ReAnswer
<1>2. CASE Rest
  BY <1>2 DEF Counted, Rest, Expire, Signal, LogoutSend, LogoutAnswer, LogoutClear,
              Exit, Torn, End
<1>3. CASE UNCHANGED vars
  BY <1>3 DEF vars, Counted
<1> QED BY <1>1, <1>2, <1>3 DEF Next, Rest

\* A call of one handler leaves the others a session that is alive.
LEMMA SoundStep ==
  ASSUME IInv, NEW h \in Handlers, Step(h)
  PROVE  Sound'
<1> USE DEF IInv, TypeOK, Sound, ReqType, Idle, Renewing, Mishap, At
<1>1. CASE Send(h)
  BY <1>1 DEF Send, SendAs
<1>2. CASE Answer(h)
  BY <1>2 DEF Answer, Return
<1>3. CASE Login(h)
  <2>1. live \subseteq live' /\ sid' = sid /\ driver' = driver /\ faults' \in {faults, faults + 1}
    BY <1>3 DEF Login
  <2>2. CASE /\ req' = [req EXCEPT ![h].pc = "store", ![h].cookie = opened']
             /\ opened' \in live' /\ UNCHANGED faults
    BY <1>3, <2>1, <2>2 DEF Login
  <2>3. CASE Return(h, "error") /\ faults' = faults + 1
    BY <1>3, <2>1, <2>3 DEF Login, Return
  <2> QED BY <1>3, <2>2, <2>3 DEF Login
<1>4. CASE Store(h)
  BY <1>4 DEF Store
<1>5. CASE Retry(h)
  BY <1>5 DEF Retry, SendAs
<1>6. CASE ReAnswer(h)
  BY <1>6 DEF ReAnswer, Return
<1> QED BY <1>1, <1>2, <1>3, <1>4, <1>5, <1>6 DEF Step

\* So does the DSM, which ends a session at the price of a mishap.
LEMMA SoundRest ==
  ASSUME IInv, Rest
  PROVE  Sound'
  BY DEF IInv, TypeOK, Sound, Renewing, Mishap, Expire, Signal, LogoutSend,
         LogoutAnswer, LogoutClear, Exit, Torn, End, Rest

\* Every step preserves the invariant.
LEMMA NextInv == IInv /\ [Next]_vars => IInv'
<1> SUFFICES ASSUME IInv, [Next]_vars PROVE IInv'
  OBVIOUS
<1>0. Counted'
  BY CountedNext DEF IInv
<1>1. CASE UNCHANGED vars
  BY <1>0, <1>1 DEF vars, IInv, TypeOK, Sound, ReqType, Renewing
<1>2. ASSUME NEW h \in Handlers, Step(h) PROVE IInv'
  BY <1>0, <1>2, TypeStep, SoundStep DEF IInv
<1>3. CASE Rest
  BY <1>0, <1>3, TypeRest, SoundRest DEF IInv
<1> QED BY <1>1, <1>2, <1>3 DEF Next, Rest

-----------------------------------------------------------------------------
\* Every reachable state of the sessions satisfies the invariant.
THEOREM SessionsSound == Spec => []IInv
  BY InitInv, NextInv, PTL DEF Spec

\* The variables keep their types, for any number of handlers and faults.
THEOREM SessionTypes == Spec => []TypeOK
<1>1. IInv => TypeOK
  BY DEF IInv
<1> QED BY <1>1, SessionsSound, PTL

\* One expired session makes no call fail, however many handlers meet it.
THEOREM RenewalShared == Spec => []OneMishapHarmless
<1>1. IInv => OneMishapHarmless
  BY DEF IInv, Sound, OneMishapHarmless
<1> QED BY <1>1, SessionsSound, PTL
-----------------------------------------------------------------------------
(* Why the sessions do not pile up.  A handler logs in without a new       *)
(* mishap only for a session that has died, and each death makes each      *)
(* handler log in at most once.                                            *)

\* The handlers that may log in although nothing more goes wrong.
Owing == {h \in Handlers : /\ Serving /\ req[h].pc # "store"
                           /\ \/ req[h].pc = "login" \/ sid \notin live
                              \/ req[h].pc = "sent" /\ req[h].cookie \notin live}

\* The handlers about to store the id of a session that is dead already.
Doomed == {h \in Handlers : req[h].pc = "store" /\ req[h].cookie \notin live}

\* An id that is still to be stored is nobody else's.
IdsApart ==
    \A g \in Handlers : req[g].pc = "store" =>
        /\ req[g].cookie \notin {sid, ending, NoSid}
        /\ \A h \in Handlers \ {g} : req[h].cookie # req[g].cookie

\* What has gone wrong, and the logouts with the emptying of Sid.
Spent == faults + tries + Cleared

\* What has been opened and what may be opened yet is paid for.
Paid == opened + Cardinality(Owing) + Cardinality(Handlers) * Cardinality(Doomed)
          <= 1 + Cardinality(Handlers) * Spent

BInv == TypeOK /\ Counted /\ IdsApart /\ Paid

LEMMA Sizes ==
  ASSUME IsFiniteSet(Handlers), NEW S, S \subseteq Handlers
  PROVE  /\ IsFiniteSet(S) /\ Cardinality(S) \in Nat
         /\ Cardinality(S) <= Cardinality(Handlers)
  BY FS_Subset, FS_CardinalityType

\* Products are monotone, and grow by the factor.
LEMMA Products ==
  ASSUME NEW a \in Nat, NEW x \in Nat, NEW y \in Nat
  PROVE  /\ a * x \in Nat /\ a * (x + 1) = a * x + a
         /\ x <= y => a * x <= a * y
  OBVIOUS

\* What is spent is a number.
LEMMA SpentNat ==
  ASSUME TypeOK
  PROVE  Spent \in Nat /\ Cleared \in {0, 1}
<1>1. faults \in Nat /\ tries \in Nat /\ Cleared \in {0, 1}
  BY MaxFaultsIsNat DEF TypeOK, MaxTries, Cleared
<1> QED BY <1>1 DEF Spent

LEMMA SpentNatNext ==
  ASSUME TypeOK'
  PROVE  Spent' \in Nat
<1>1. faults' \in Nat /\ tries' \in Nat /\ Cleared' \in Nat
  BY MaxFaultsIsNat DEF TypeOK, MaxTries, Cleared
<1>2. \A x, y, z \in Nat : x + y + z \in Nat
  OBVIOUS
<1>3. faults' + tries' + Cleared' \in Nat
  BY ONLY <1>1, <1>2
<1> QED BY <1>3 DEF Spent

\* A step that counts no mishap spends nothing unless it is a logout's; one that
\* counts a mishap or a logout spends at least one.
LEMMA SpentGrows ==
  ASSUME TypeOK, faults' \in {faults, faults + 1}, tries' \in {tries, tries + 1},
         Cleared' = Cleared
  PROVE  /\ Spent <= Spent'
         /\ faults' = faults + 1 \/ tries' = tries + 1 => Spent + 1 <= Spent'
<1>1. faults \in Nat /\ tries \in Nat /\ Cleared \in Nat /\ Cleared' = Cleared
  BY SpentNat, MaxFaultsIsNat DEF TypeOK, MaxTries
<1>2. CASE faults' = faults /\ tries' = tries
  BY <1>1, <1>2 DEF Spent
<1>3. CASE faults' = faults + 1 /\ tries' = tries
  BY <1>1, <1>3 DEF Spent
<1>4. CASE faults' = faults /\ tries' = tries + 1
  BY <1>1, <1>4 DEF Spent
<1>5. CASE faults' = faults + 1 /\ tries' = tries + 1
  BY <1>1, <1>5 DEF Spent
<1> QED BY <1>2, <1>3, <1>4, <1>5

\* The ways in which a step may spend what is paid for.
LEMMA Balance ==
  ASSUME IsFiniteSet(Handlers), BInv, TypeOK', opened' \in {opened, opened + 1},
         Spent <= Spent',
         \/ /\ opened' = opened /\ Owing' \subseteq Owing /\ Doomed' \subseteq Doomed
         \/ /\ opened' = opened /\ Spent + 1 <= Spent'
            /\ Doomed' \subseteq Doomed
         \/ /\ opened' = opened /\ Spent + 1 <= Spent'
            /\ Owing' \subseteq Owing
            /\ \E g \in Handlers : Doomed' \subseteq Doomed \cup {g}
         \/ /\ \E h \in Owing : Owing' \subseteq Owing \ {h}
            /\ Doomed' \subseteq Doomed
         \/ /\ Spent + 1 <= Spent' /\ Handlers # {}
            /\ Owing' \subseteq Owing /\ Doomed' \subseteq Doomed
         \/ /\ opened' = opened /\ \E h \in Doomed : Doomed' \subseteq Doomed \ {h}
  PROVE  Paid'
<1>0. PICK p, g : p = opened' /\ g = Spent'
  OBVIOUS
<1> DEFINE H == Cardinality(Handlers)
           w == Cardinality(Owing)
           v == Cardinality(Owing')
           d == Cardinality(Doomed)
           e == Cardinality(Doomed')
           f == Spent
<1>1. /\ H \in Nat /\ w \in 0..H /\ v \in 0..H /\ d \in Nat /\ e \in Nat /\ f \in Nat /\ g \in Nat
      /\ opened \in Nat /\ p \in Nat /\ p <= opened + 1 /\ f <= g
  <2>1. Owing \subseteq Handlers /\ Owing' \subseteq Handlers
        /\ Doomed \subseteq Handlers /\ Doomed' \subseteq Handlers
    BY DEF Owing, Doomed
  <2>2. TypeOK
    BY DEF BInv
  <2>3. Spent \in Nat /\ Spent' \in Nat /\ opened \in Nat
    BY <2>2, SpentNat, SpentNatNext DEF TypeOK
  <2>4. H \in Nat /\ w \in Nat /\ v \in Nat /\ d \in Nat /\ e \in Nat /\ w <= H /\ v <= H
    BY <2>1, Sizes
  <2>5. p \in {opened, opened + 1} /\ f <= g /\ g \in Nat
    BY <1>0, <2>3
  <2> HIDE DEF H, w, v, d, e
  <2> QED BY ONLY <2>3, <2>4, <2>5
<1>2. IsFiniteSet(Owing) /\ IsFiniteSet(Doomed)
  BY Sizes DEF Owing, Doomed
<1>3. opened + w + H * d <= 1 + H * f
  BY DEF BInv, Paid
<1>4. Paid' <=> p + v + H * e <= 1 + H * g
  BY <1>0 DEF Paid
<1>5. Owing' \subseteq Owing => v <= w
  BY <1>2, FS_Subset
<1>6. Doomed' \subseteq Doomed => e <= d
  BY <1>2, FS_Subset
<1>7. /\ H * d \in Nat /\ H * e \in Nat /\ H * f \in Nat /\ H * g \in Nat /\ H * f <= H * g
      /\ e <= d => H * e <= H * d
      /\ e <= d + 1 => H * e <= H * d + H
      /\ e + 1 <= d => H * e + H <= H * d
      /\ f + 1 <= g => H * f + H <= H * g
  <2> HIDE DEF H, d, e, f
  <2>1. /\ H * d \in Nat /\ H * e \in Nat /\ H * f \in Nat /\ H * g \in Nat
        /\ H * (d + 1) = H * d + H /\ H * (e + 1) = H * e + H /\ H * (f + 1) = H * f + H
        /\ d + 1 \in Nat /\ e + 1 \in Nat /\ f + 1 \in Nat
    BY <1>1, Products
  <2>2. /\ H * f <= H * g
        /\ e <= d => H * e <= H * d
        /\ e <= d + 1 => H * e <= H * (d + 1)
        /\ e + 1 <= d => H * (e + 1) <= H * d
        /\ f + 1 <= g => H * (f + 1) <= H * g
    BY <1>1, <2>1, Products
  <2> QED BY ONLY <2>1, <2>2
<1>8. CASE p = opened /\ Owing' \subseteq Owing /\ Doomed' \subseteq Doomed
  <2> HIDE DEF H, w, v, d, e, f
  <2> QED BY ONLY <1>1, <1>3, <1>4, <1>5, <1>6, <1>7, <1>8
<1>9. CASE p = opened /\ f + 1 <= g /\ Doomed' \subseteq Doomed
  <2> HIDE DEF H, w, v, d, e, f
  <2> QED BY ONLY <1>1, <1>3, <1>4, <1>6, <1>7, <1>9
<1>10. CASE /\ p = opened /\ f + 1 <= g /\ Owing' \subseteq Owing
            /\ \E c \in Handlers : Doomed' \subseteq Doomed \cup {c}
  <2>1. PICK c \in Handlers : Doomed' \subseteq Doomed \cup {c}
    BY <1>10
  <2>2. IsFiniteSet(Doomed \cup {c}) /\ Cardinality(Doomed \cup {c}) \in {d, d + 1}
    BY <1>2, FS_AddElement
  <2>3. e <= d + 1
    BY <1>1, <2>1, <2>2, FS_Subset
  <2> HIDE DEF H, w, v, d, e, f
  <2> QED BY ONLY <1>1, <1>3, <1>4, <1>5, <1>7, <1>10, <2>3
<1>11. CASE /\ \E h \in Owing : Owing' \subseteq Owing \ {h}
            /\ Doomed' \subseteq Doomed
  <2>1. PICK h \in Owing : Owing' \subseteq Owing \ {h}
    BY <1>11
  <2>2. IsFiniteSet(Owing \ {h}) /\ Cardinality(Owing \ {h}) = w - 1
    BY <1>2, FS_RemoveElement
  <2>3. v <= w - 1
    BY <2>1, <2>2, FS_Subset
  <2> HIDE DEF H, w, v, d, e, f
  <2> QED BY ONLY <1>1, <1>3, <1>4, <1>6, <1>7, <1>11, <2>3
<1>12. CASE f + 1 <= g /\ Handlers # {} /\ Owing' \subseteq Owing /\ Doomed' \subseteq Doomed
  <2>1. H >= 1
    BY <1>1, <1>12, FS_EmptySet
  <2> HIDE DEF H, w, v, d, e, f
  <2> QED BY ONLY <1>1, <1>3, <1>4, <1>5, <1>6, <1>7, <1>12, <2>1
<1>13. CASE p = opened /\ \E h \in Doomed : Doomed' \subseteq Doomed \ {h}
  <2>1. PICK h \in Doomed : Doomed' \subseteq Doomed \ {h}
    BY <1>13
  <2>2. IsFiniteSet(Doomed \ {h}) /\ Cardinality(Doomed \ {h}) = d - 1
    BY <1>2, FS_RemoveElement
  <2>3. e + 1 <= d
    BY <1>1, <2>1, <2>2, FS_Subset
  <2> HIDE DEF H, w, v, d, e, f
  <2> QED BY ONLY <1>1, <1>3, <1>4, <1>7, <1>13, <2>3
<1> QED BY <1>0, <1>8, <1>9, <1>10, <1>11, <1>12, <1>13

\* A call of one handler, by its effect on the handler.
LEMMA HandlerPaid ==
  ASSUME IsFiniteSet(Handlers), BInv, NEW h \in Handlers, Step(h), TypeOK'
  PROVE  IdsApart' /\ Paid'
<1>1. TypeOK /\ IdsApart /\ Paid /\ Handlers # {} /\ opened \in Nat /\ faults \in Nat /\ tries \in Nat
  BY MaxFaultsIsNat DEF BInv, TypeOK, MaxTries
<1>a. UNCHANGED <<driver, ending, tries>> /\ faults' \in {faults, faults + 1}
  BY DEF Step, Send, Answer, Login, Store, Retry, ReAnswer, Mishap
<1>b. /\ Spent <= Spent'
      /\ faults' = faults + 1 => Spent + 1 <= Spent'
  BY <1>1, <1>a, SpentGrows DEF Cleared
<1>2. \A c \in Handlers : req[c] \in ReqType /\ req[c].cookie \in 0..opened
  BY <1>1 DEF TypeOK, ReqType
<1>3. CASE Send(h)
  <2>1. /\ Serving /\ req[h].pc = "idle" /\ UNCHANGED <<opened, live, sid, driver, ending, tries, faults>>
        /\ req'[h].pc = "sent" /\ req'[h].cookie = sid
        /\ \A c \in Handlers \ {h} : req'[c] = req[c]
    BY <1>1, <1>3 DEF Send, SendAs, At, TypeOK, ReqType
  <2>2. IdsApart'
    BY <1>1, <2>1 DEF IdsApart
  <2>3. Owing' \subseteq Owing /\ Doomed' \subseteq Doomed
    BY <2>1 DEF Owing, Doomed, Serving
  <2> QED BY <1>1, <2>1, <2>2, <2>3, <1>b, Balance DEF BInv
<1>4. CASE Answer(h) \/ ReAnswer(h)
  <2>1. /\ Serving /\ req[h].pc \in {"sent", "resent"} /\ UNCHANGED <<opened, live, sid, driver, ending, tries>>
        /\ req'[h].pc \in {"idle", "login"} /\ req'[h].cookie \in {NoSid, req[h].cookie}
        /\ \A c \in Handlers \ {h} : req'[c] = req[c]
        /\ \/ faults' = faults /\ (req'[h].pc = "login" => req[h].pc = "sent" /\ req[h].cookie \notin live)
           \/ faults' = faults + 1
    BY <1>1, <1>4 DEF Answer, ReAnswer, Return, Idle, Mishap, At, TypeOK, ReqType
  <2>2. IdsApart'
    BY <1>1, <2>1 DEF IdsApart
  <2>3. Doomed' \subseteq Doomed
    BY <2>1 DEF Doomed
  <2>4. CASE faults' = faults
    <3>0. req'[h].pc = "login" => req[h].pc = "sent" /\ req[h].cookie \notin live
      BY <1>1, <2>1, <2>4
    <3>1. Owing' \subseteq Owing
      BY <2>1, <3>0 DEF Owing, Serving
    <3> QED BY <1>1, <2>1, <2>2, <2>3, <2>4, <3>1, <1>b, Balance DEF BInv
  <2>5. CASE faults' = faults + 1
    <3>1. Spent + 1 <= Spent' /\ Spent <= Spent'
      BY <1>b, <2>5
    <3> QED BY <1>1, <2>1, <2>2, <2>3, <3>1, <1>b, Balance DEF BInv
  <2> QED BY <2>1, <2>4, <2>5
<1>5. CASE Login(h)
  <2>1. /\ Serving /\ req[h].pc = "login" /\ UNCHANGED <<sid, driver, ending, tries>>
        /\ \A c \in Handlers \ {h} : req'[c] = req[c]
        /\ \/ opened' = opened /\ live' = live
           \/ opened' = opened + 1 /\ live' = live \cup {opened + 1}
    BY <1>1, <1>5 DEF Login, Return, At, TypeOK
  <2>2. Doomed' \subseteq Doomed /\ h \in Owing
    BY <1>1, <1>5, <2>1 DEF Login, Return, Idle, Owing, Doomed, TypeOK, ReqType
  <2>3. CASE faults' = faults /\ opened' = opened + 1
    <3>1. req'[h].pc = "store" /\ req'[h].cookie = opened + 1
      BY <1>1, <1>5, <2>3 DEF Login, Mishap, TypeOK, ReqType
    <3>2. opened + 1 \notin 0..opened
      BY <1>1
    <3>3. sid \in 0..opened /\ opened + 1 # NoSid
      BY <1>1 DEF TypeOK, NoSid
    <3>a. ending' = ending /\ ending \in 0..opened
      BY <1>1, <1>a DEF TypeOK
    <3>b. opened + 1 \notin {sid, ending, NoSid}
      BY <3>2, <3>3, <3>a
    <3>4. IdsApart'
      BY <1>1, <1>2, <2>1, <3>1, <3>2, <3>a, <3>b DEF IdsApart
    <3>5. Owing' \subseteq Owing \ {h}
      BY <2>1, <2>3, <3>1 DEF Owing, Serving
    <3> QED BY <1>1, <2>1, <2>2, <2>3, <3>4, <3>5, <1>b, Balance DEF BInv
  <2>4. CASE faults' = faults + 1 /\ Return(h, "error")
    <3>1. req'[h].pc = "idle" /\ req'[h].cookie = NoSid
      BY <1>1, <2>4 DEF Return, Idle, TypeOK
    <3>2. IdsApart'
      BY <1>1, <2>1, <3>1 DEF IdsApart
    <3>3. Owing' \subseteq Owing
      BY <2>1, <2>2, <3>1 DEF Owing, Serving
    <3>4. Spent + 1 <= Spent' /\ Spent <= Spent'
      BY <1>b, <2>4
    <3> QED BY <1>1, <2>1, <2>2, <3>2, <3>3, <3>4, <1>b, Balance DEF BInv
  <2> QED BY <1>1, <1>5, <2>3, <2>4 DEF Login, Mishap
<1>6. CASE Store(h)
  <2>1. /\ Serving /\ req[h].pc = "store" /\ UNCHANGED <<opened, live, driver, ending, tries, faults>>
        /\ sid' = req[h].cookie /\ req'[h].pc = "retry" /\ req'[h].cookie = NoSid
        /\ \A c \in Handlers \ {h} : req'[c] = req[c]
    BY <1>1, <1>6 DEF Store, At, TypeOK, ReqType
  <2>2. IdsApart'
    BY <1>1, <2>1 DEF IdsApart
  <2>3. CASE sid' \in live
    <3>1. Owing' \subseteq Owing /\ Doomed' \subseteq Doomed
      BY <2>1, <2>3 DEF Owing, Doomed, Serving
    <3> QED BY <1>1, <2>1, <2>2, <3>1, <1>b, Balance DEF BInv
  <2>4. CASE sid' \notin live
    <3>1. h \in Doomed /\ Doomed' \subseteq Doomed \ {h}
      BY <2>1, <2>4 DEF Doomed
    <3> QED BY <1>1, <2>1, <2>2, <3>1, <1>b, Balance DEF BInv
  <2> QED BY <2>3, <2>4
<1>7. CASE Retry(h)
  <2>1. /\ Serving /\ req[h].pc = "retry" /\ UNCHANGED <<opened, live, sid, driver, ending, tries, faults>>
        /\ req'[h].pc = "resent" /\ req'[h].cookie = sid
        /\ \A c \in Handlers \ {h} : req'[c] = req[c]
    BY <1>1, <1>7 DEF Retry, SendAs, At, TypeOK, ReqType
  <2>2. IdsApart'
    BY <1>1, <2>1 DEF IdsApart
  <2>3. Owing' \subseteq Owing /\ Doomed' \subseteq Doomed
    BY <2>1 DEF Owing, Doomed, Serving
  <2> QED BY <1>1, <2>1, <2>2, <2>3, <1>b, Balance DEF BInv
<1> QED BY <1>3, <1>4, <1>5, <1>6, <1>7 DEF Step

\* A session that dies, of a mishap or of a logout, is paid for at once.
LEMMA RestPaid ==
  ASSUME IsFiniteSet(Handlers), BInv, TypeOK',
         Rest
  PROVE  IdsApart' /\ Paid'
<1>1. TypeOK /\ IdsApart /\ Paid /\ opened \in Nat /\ faults \in Nat /\ tries \in Nat
  BY MaxFaultsIsNat DEF BInv, TypeOK, MaxTries
<1>2. ASSUME NEW s \in live, Expire(s) PROVE IdsApart' /\ Paid'
  <2>1. live' = live \ {s} /\ UNCHANGED <<opened, sid, req, driver, ending, tries>> /\ faults' = faults + 1
    BY <1>2 DEF Expire, Mishap
  <2>2. IdsApart'
    BY <1>1, <2>1 DEF IdsApart
  <2>3. Spent + 1 <= Spent' /\ Spent <= Spent'
    BY <1>1, <2>1 DEF Spent, Cleared
  <2>4. CASE \E g \in Handlers : req[g].pc = "store" /\ req[g].cookie = s
    <3>1. PICK g \in Handlers : req[g].pc = "store" /\ req[g].cookie = s
      BY <2>4
    <3>2. sid # s /\ \A c \in Handlers \ {g} : req[c].cookie # s
      BY <1>1, <3>1 DEF IdsApart
    <3>3. Owing' \subseteq Owing /\ Doomed' \subseteq Doomed \cup {g}
      BY <2>1, <3>1, <3>2 DEF Owing, Doomed, Serving
    <3> QED BY <1>1, <2>1, <2>2, <2>3, <3>3, Balance DEF BInv
  <2>5. CASE \A g \in Handlers : req[g].pc = "store" => req[g].cookie # s
    <3>1. Doomed' \subseteq Doomed
      BY <2>1, <2>5 DEF Doomed
    <3> QED BY <1>1, <2>1, <2>2, <2>3, <3>1, Balance DEF BInv
  <2> QED BY <2>4, <2>5
<1>3. CASE Signal
  <2>1. Owing' \subseteq Owing /\ Doomed' \subseteq Doomed /\ UNCHANGED opened
    BY <1>3 DEF Signal, Owing, Doomed, Serving
  <2>2. IdsApart'
    BY <1>1, <1>3 DEF Signal, IdsApart
  <2>3. Spent <= Spent'
    BY <1>1, <1>3 DEF Signal, Spent, Cleared
  <2> QED BY <1>1, <2>1, <2>2, <2>3, Balance DEF BInv
<1>4. CASE LogoutSend
  <2>1. UNCHANGED <<opened, live, sid, req, tries, faults>> /\ ending' = sid
        /\ driver = "stopping" /\ driver' = "leaving"
    BY <1>4 DEF LogoutSend
  <2>2. IdsApart'
    BY <1>1, <2>1 DEF IdsApart
  <2>3. Owing' \subseteq Owing /\ Doomed' \subseteq Doomed
    BY <2>1 DEF Owing, Doomed, Serving
  <2>4. Spent <= Spent'
    BY <1>1, <2>1 DEF Spent, Cleared
  <2> QED BY <1>1, <2>1, <2>2, <2>3, <2>4, Balance DEF BInv
<1>5. CASE LogoutAnswer
  <2>1. /\ UNCHANGED <<opened, req, sid>> /\ tries' = tries + 1 /\ faults' \in {faults, faults + 1}
        /\ (live' = live \/ live' = live \ {ending}) /\ ending' = NoSid
        /\ driver = "leaving" /\ driver' \in {"clearing", "stopping"}
    BY <1>5 DEF LogoutAnswer, Mishap
  <2>2. IdsApart'
    BY <1>1, <2>1 DEF IdsApart
  <2>3. Spent + 1 <= Spent' /\ Spent <= Spent'
    BY <1>1, <2>1, SpentGrows DEF Cleared
  <2>4. Doomed' \subseteq Doomed
    BY <1>1, <2>1 DEF IdsApart, Doomed
  <2> QED BY <1>1, <2>1, <2>2, <2>3, <2>4, Balance DEF BInv
<1>6. CASE LogoutClear
  <2>1. /\ UNCHANGED <<opened, live, req, ending, tries, faults>> /\ sid' = NoSid
        /\ driver = "clearing" /\ driver' = "loggedOut"
    BY <1>6 DEF LogoutClear
  <2>2. IdsApart'
    BY <1>1, <2>1 DEF IdsApart
  <2>3. Spent + 1 <= Spent' /\ Spent <= Spent'
    <3>1. Cleared = 0 /\ Cleared' = 1
      BY <2>1 DEF Cleared
    <3> QED BY <1>1, <2>1, <3>1 DEF Spent
  <2>4. Doomed' \subseteq Doomed
    BY <2>1 DEF Doomed
  <2> QED BY <1>1, <2>1, <2>2, <2>3, <2>4, Balance DEF BInv
<1>7. CASE End
  <2>1. /\ UNCHANGED <<opened, tries, faults>> /\ ~Serving' /\ driver' = "stopped"
        /\ \A c \in Handlers : req'[c].pc = "idle"
    BY <1>7 DEF End, Idle, Serving
  <2>2. IdsApart' /\ Owing' = {} /\ Doomed' = {}
    BY <2>1 DEF IdsApart, Owing, Doomed
  <2>3. Spent <= Spent'
    BY <1>1, <2>1 DEF Spent, Cleared
  <2> QED BY <1>1, <2>1, <2>2, <2>3, Balance DEF BInv
<1> QED BY <1>2, <1>3, <1>4, <1>5, <1>6, <1>7 DEF Rest, Exit, Torn

\* The sessions left open on the DSM are bounded by the mishaps, the logouts and
\* the emptying of Sid, for any finite number of handlers, however they log in
\* over each other and under the logout on its way.
THEOREM SessionsLimited ==
  ASSUME IsFiniteSet(Handlers)
  PROVE  Spec => []SessionsBounded
<1>1. Init => BInv
  <2> SUFFICES ASSUME Init PROVE BInv
    OBVIOUS
  <2>1. TypeOK /\ Counted
    BY InitInv DEF IInv
  <2>2. Owing = {} /\ Doomed = {} /\ IdsApart
    BY DEF Init, Idle, Owing, Doomed, IdsApart
  <2>3. Cardinality(Handlers) \in Nat /\ Cardinality({}) = 0
    BY FS_CardinalityType, FS_EmptySet
  <2>4. opened = 1 /\ Spent = 0
    BY DEF Init, Spent, Cleared
  <2> QED BY <2>1, <2>2, <2>3, <2>4 DEF BInv, Paid
<1>2. BInv /\ [Next]_vars => BInv'
  <2> SUFFICES ASSUME BInv, [Next]_vars PROVE BInv'
    OBVIOUS
  <2>0. Counted'
    BY CountedNext DEF BInv
  <2>1. CASE UNCHANGED vars
    BY <2>0, <2>1 DEF vars, BInv, TypeOK, ReqType, IdsApart, Paid, Owing, Doomed, Serving, Spent, Cleared
  <2>2. ASSUME NEW h \in Handlers, Step(h) PROVE BInv'
    BY <2>0, <2>2, TypeStep, HandlerPaid DEF BInv
  <2>3. CASE Rest
    BY <2>0, <2>3, TypeRest, RestPaid DEF BInv
  <2> QED BY <2>1, <2>2, <2>3 DEF Next, Rest
<1>3. BInv => SessionsBounded
  <2> SUFFICES ASSUME BInv PROVE SessionsBounded
    OBVIOUS
  <2>1. live \subseteq 1..opened /\ opened \in Nat /\ Spent \in Nat
    BY MaxFaultsIsNat DEF BInv, TypeOK, MaxTries, Spent, Cleared
  <2>2. IsFiniteSet(1..opened) /\ Cardinality(1..opened) = opened
    BY <2>1, FS_Interval
  <2>3. Cardinality(live) \in Nat /\ Cardinality(live) <= opened
    BY <2>1, <2>2, FS_Subset, FS_CardinalityType
  <2>4. /\ Cardinality(Handlers) \in Nat /\ Cardinality(Owing) \in Nat
        /\ Cardinality(Doomed) \in Nat
    BY Sizes DEF Owing, Doomed
  <2>5. /\ Cardinality(Handlers) * Cardinality(Doomed) \in Nat
        /\ Cardinality(Handlers) * Spent \in Nat
    BY <2>1, <2>4, Products
  <2>6. opened + Cardinality(Owing) + Cardinality(Handlers) * Cardinality(Doomed)
          <= 1 + Cardinality(Handlers) * Spent
    BY DEF BInv, Paid
  <2> QED BY ONLY <2>1, <2>3, <2>4, <2>5, <2>6 DEF SessionsBounded, Spent
<1> QED BY <1>1, <1>2, <1>3, PTL DEF Spec
=============================================================================
