------------------------- MODULE ListPaging_proofs --------------------------
(***************************************************************************)
(* What holds of a walk through the pages for every number of items,       *)
(* servers, changes and failures.                                          *)
(*                                                                         *)
(* The pages are sequences that FlattenSeq puts together, by a recursive   *)
(* function on the prefixes.  That there is such a function, and what it   *)
(* yields, is shown for the shortest prefix of which it would be false.    *)
(***************************************************************************)
EXTENDS ListPaging, FiniteSetTheorems, SequenceTheorems, TLAPS

\* R relates each element of s to every later one.
Pairwise(s, R) == \A j, k \in 1..Len(s) : j < k => <<s[j], s[k]>> \in R

Less == {r \in Nat \X Nat : r[1] < r[2]}
AtMost == {r \in Nat \X Nat : r[1] <= r[2]}

-----------------------------------------------------------------------------
(* Sequences of sequences.                                                 *)

\* A set of numbers that is not empty has a least one.
LEMMA Least ==
  ASSUME NEW S \in SUBSET Nat, S # {}
  PROVE  \E m \in S : \A i \in S : m <= i
<1> DEFINE T == {1..i : i \in S}
<1>1. T # {} /\ T \subseteq FiniteSubsetsOf(Nat)
  <2>1. ASSUME NEW i \in S PROVE 1..i \in FiniteSubsetsOf(Nat)
    <3>1. IsFiniteSet(1..i)
      BY FS_Interval
    <3>2. 1..i \in SUBSET Nat
      OBVIOUS
    <3> QED BY <3>1, <3>2 DEF FiniteSubsetsOf
  <2> QED BY <2>1
<1>2. PICK x \in T : \A y \in T : ~(<<y, x>> \in StrictSubsetOrdering(Nat))
  BY <1>1, WFMin, FS_StrictSubsetOrderingWellFounded
<1>3. PICK m \in S : x = 1..m
  OBVIOUS
<1>4. ASSUME NEW i \in S PROVE m <= i
  <2> SUFFICES ASSUME i < m PROVE FALSE
    OBVIOUS
  <2>1. 1..i \subseteq 1..m /\ m \in 1..m /\ m \notin 1..i
    OBVIOUS
  <2>2. <<1..i, x>> \in StrictSubsetOrdering(Nat)
    BY <1>3, <2>1 DEF StrictSubsetOrdering
  <2> QED BY <1>2, <2>2
<1> QED BY <1>4

\* Induction: a set of numbers up to n that has 1, and with each number the next,
\* has them all.
LEMMA UpTo ==
  ASSUME NEW n \in Nat, NEW S \in SUBSET (1..n),
         n > 0 => 1 \in S, \A m \in S : m < n => m + 1 \in S
  PROVE  S = 1..n
<1> DEFINE B == (1..n) \ S
<1>1. B = {}
  <2> SUFFICES ASSUME B # {} PROVE FALSE
    OBVIOUS
  <2>1. PICK m \in B : \A i \in B : m <= i
    <3>1. B \in SUBSET Nat
      OBVIOUS
    <3> HIDE DEF B
    <3> QED BY <3>1, Least
  <2>2. m \in 2..n
    BY <2>1
  <2>3. m - 1 \in S
    BY <2>1, <2>2
  <2>4. m \in S
    BY <2>2, <2>3
  <2> QED BY <2>1, <2>4
<1> QED BY <1>1

\* g puts the first n sequences of f together.
Flattens(g, f, n) == g = [i \in 1..n |-> IF i = 1 THEN f[i] ELSE g[i - 1] \o f[i]]

LEMMA FlattenExists ==
  ASSUME NEW f, NEW n \in Nat
  PROVE  \E g : Flattens(g, f, n)
<1> DEFINE S == {m \in 1..n : \E g : Flattens(g, f, m)}
<1>1. n > 0 => 1 \in S
  <2> DEFINE h == [i \in 1..1 |-> f[i]]
  <2>1. h = [i \in 1..1 |-> IF i = 1 THEN f[i] ELSE h[i - 1] \o f[i]]
    OBVIOUS
  <2> HIDE DEF h
  <2>2. \E g : Flattens(g, f, 1)
    BY <2>1 DEF Flattens
  <2> QED BY <2>2
<1>2. ASSUME NEW m \in S, m < n PROVE m + 1 \in S
  <2>1. PICK g : Flattens(g, f, m)
    OBVIOUS
  <2> DEFINE h == [i \in 1..(m + 1) |-> IF i <= m THEN g[i] ELSE g[m] \o f[i]]
  <2>2. ASSUME NEW i \in 1..(m + 1)
        PROVE  h[i] = IF i = 1 THEN f[i] ELSE h[i - 1] \o f[i]
    <3>1. CASE i <= m
      <4>1. g[i] = IF i = 1 THEN f[i] ELSE g[i - 1] \o f[i]
        <5>1. i \in 1..m
          BY <3>1
        <5> HIDE DEF S
        <5> QED BY <2>1, <5>1 DEF Flattens
      <4>2. h[i] = g[i] /\ (i # 1 => h[i - 1] = g[i - 1])
        BY <3>1
      <4> HIDE DEF h
      <4> QED BY <4>1, <4>2
    <3>2. CASE i = m + 1
      BY <3>2
    <3> QED BY <3>1, <3>2
  <2>3. h = [i \in 1..(m + 1) |-> IF i = 1 THEN f[i] ELSE h[i - 1] \o f[i]]
    <3>1. h = [i \in 1..(m + 1) |-> h[i]]
      OBVIOUS
    <3> HIDE DEF h
    <3> QED BY <2>2, <3>1
  <2> HIDE DEF h
  <2>4. \E q : Flattens(q, f, m + 1)
    BY <2>3 DEF Flattens
  <2> QED BY <1>2, <2>4
<1>3. n > 0 => n \in S
  <2> HIDE DEF S
  <2>1. S = 1..n
    <3>1. S \in SUBSET (1..n)
      BY DEF S
    <3> QED BY <1>1, <1>2, <3>1, UpTo
  <2> QED BY <2>1
<1>4. CASE n = 0
  <2> DEFINE h == [i \in 1..0 |-> f[i]]
  <2>1. h = [i \in 1..0 |-> IF i = 1 THEN f[i] ELSE h[i - 1] \o f[i]]
    OBVIOUS
  <2> HIDE DEF h
  <2> QED BY <1>4, <2>1 DEF Flattens
<1> QED BY <1>3, <1>4

\* R relates what is in the sequences of f to what comes later in them.
Blocks(f, n, R) ==
    /\ \A i \in 1..n : Pairwise(f[i], R)
    /\ \A i, j \in 1..n : i < j =>
         \A k \in 1..Len(f[i]), m \in 1..Len(f[j]) : <<f[i][k], f[j][m]>> \in R

\* Sequences put together: the elements of both, in the order of both.
LEMMA Joined ==
  ASSUME NEW T, NEW s \in Seq(T), NEW t \in Seq(T)
  PROVE  /\ s \o t \in Seq(T) /\ Len(s \o t) = Len(s) + Len(t)
         /\ \A x : Contains(s \o t, x) <=> Contains(s, x) \/ Contains(t, x)
         /\ \A R : /\ Pairwise(s, R) /\ Pairwise(t, R)
                   /\ \A j \in 1..Len(s), k \in 1..Len(t) : <<s[j], t[k]>> \in R
                   => Pairwise(s \o t, R)
<1>1. /\ s \o t \in Seq(T) /\ Len(s \o t) = Len(s) + Len(t)
      /\ \A i \in 1..(Len(s) + Len(t)) : (s \o t)[i] = IF i <= Len(s) THEN s[i] ELSE t[i - Len(s)]
  BY ConcatProperties
<1>2. Len(s) \in Nat /\ Len(t) \in Nat
  OBVIOUS
<1> DEFINE u == s \o t
<1>3. ASSUME NEW x PROVE Contains(u, x) <=> Contains(s, x) \/ Contains(t, x)
  <2>1. ASSUME NEW i \in 1..Len(u), u[i] = x PROVE Contains(s, x) \/ Contains(t, x)
    <3>1. CASE i <= Len(s)
      BY <1>1, <1>2, <2>1, <3>1 DEF Contains
    <3>2. CASE i > Len(s)
      <4>1. i - Len(s) \in 1..Len(t) /\ t[i - Len(s)] = x
        BY <1>1, <1>2, <2>1, <3>2
      <4> QED BY <4>1 DEF Contains
    <3> QED BY <1>1, <1>2, <3>1, <3>2
  <2>2. ASSUME NEW i \in 1..Len(s), s[i] = x PROVE Contains(u, x)
    <3>1. i \in 1..Len(u) /\ u[i] = x
      BY <1>1, <1>2, <2>2
    <3> QED BY <3>1 DEF Contains
  <2>3. ASSUME NEW i \in 1..Len(t), t[i] = x PROVE Contains(u, x)
    <3>1. Len(s) + i \in 1..Len(u) /\ u[Len(s) + i] = x
      BY <1>1, <1>2, <2>3
    <3> QED BY <3>1 DEF Contains
  <2> HIDE DEF u
  <2> QED BY <2>1, <2>2, <2>3 DEF Contains
<1>4. ASSUME NEW R, Pairwise(s, R), Pairwise(t, R),
             \A j \in 1..Len(s), k \in 1..Len(t) : <<s[j], t[k]>> \in R
      PROVE  Pairwise(u, R)
  <2> SUFFICES ASSUME NEW j \in 1..Len(u), NEW k \in 1..Len(u), j < k PROVE <<u[j], u[k]>> \in R
    BY DEF Pairwise
  <2>1. CASE k <= Len(s)
    BY <1>1, <1>2, <1>4, <2>1 DEF Pairwise
  <2>2. CASE j <= Len(s) /\ k > Len(s)
    <3>1. u[j] = s[j] /\ u[k] = t[k - Len(s)] /\ j \in 1..Len(s) /\ k - Len(s) \in 1..Len(t)
      BY <1>1, <1>2, <2>2
    <3> QED BY <1>4, <3>1
  <2>3. CASE j > Len(s)
    <3>1. /\ u[j] = t[j - Len(s)] /\ u[k] = t[k - Len(s)]
          /\ j - Len(s) \in 1..Len(t) /\ k - Len(s) \in 1..Len(t) /\ j - Len(s) < k - Len(s)
      BY <1>1, <1>2, <2>3
    <3> QED BY <1>4, <3>1 DEF Pairwise
  <2>4. j \in Nat /\ k \in Nat
    BY <1>1, <1>2
  <2> HIDE DEF u
  <2> QED BY <1>2, <2>1, <2>2, <2>3, <2>4
<1> HIDE DEF u
<1> QED BY <1>1, <1>3, <1>4 DEF u

\* FlattenSeq puts all its sequences together.
LEMMA Flattened ==
  ASSUME NEW T, NEW n \in Nat, NEW f \in [1..n -> Seq(T)]
  PROVE  /\ FlattenSeq(f) \in Seq(T)
         /\ \A x : Contains(FlattenSeq(f), x) <=> \E i \in 1..n : Contains(f[i], x)
         /\ \A R : Blocks(f, n, R) => Pairwise(FlattenSeq(f), R)
<1>0. f \in Seq(Seq(T)) /\ Len(f) = n
  OBVIOUS
<1>1. CASE n = 0
  <2>1. FlattenSeq(f) = f /\ f = <<>>
    BY <1>0, <1>1 DEF FlattenSeq
  <2> QED BY <1>1, <2>1 DEF Contains, Pairwise
<1>2. CASE n > 0
  <2> DEFINE g == CHOOSE flatten : flatten = [i \in 1..n |->
                       IF i = 1 THEN f[i] ELSE flatten[i - 1] \o f[i]]
  <2>1. FlattenSeq(f) = g[n]
    BY <1>0, <1>2 DEF FlattenSeq
  <2>2. Flattens(g, f, n)
    BY FlattenExists DEF Flattens
  <2> HIDE DEF g
  <2> DEFINE Good(m) == /\ g[m] \in Seq(T)
                        /\ \A x : Contains(g[m], x) <=> \E i \in 1..m : Contains(f[i], x)
                        /\ \A R : Blocks(f, n, R) => Pairwise(g[m], R)
             S == {m \in 1..n : Good(m)}
  <2>3. 1 \in S
    <3>1. g[1] = f[1] /\ 1 \in 1..n
      BY <1>2, <2>2 DEF Flattens
    <3> QED BY <3>1 DEF Blocks
  <2>4. ASSUME NEW m \in S, m < n PROVE m + 1 \in S
    <3>1. Good(m) /\ m \in Nat /\ m >= 1
      OBVIOUS
    <3>2. g[m + 1] = g[m] \o f[m + 1] /\ f[m + 1] \in Seq(T) /\ m + 1 \in 1..n
      <4>1. m + 1 \in 1..n /\ m + 1 # 1 /\ (m + 1) - 1 = m
        BY <2>4, <3>1
      <4> HIDE DEF S, Good
      <4> QED BY <2>2, <4>1 DEF Flattens
    <3>3. /\ g[m + 1] \in Seq(T)
          /\ \A x : Contains(g[m + 1], x) <=> Contains(g[m], x) \/ Contains(f[m + 1], x)
      BY <3>1, <3>2, Joined
    <3>4. ASSUME NEW R, Blocks(f, n, R) PROVE Pairwise(g[m + 1], R)
      <4>1. Pairwise(g[m], R) /\ Pairwise(f[m + 1], R)
        BY <3>1, <3>2, <3>4 DEF Blocks
      <4>2. ASSUME NEW j \in 1..Len(g[m]), NEW k \in 1..Len(f[m + 1])
            PROVE  <<g[m][j], f[m + 1][k]>> \in R
        <5>1. Contains(g[m], g[m][j])
          BY DEF Contains
        <5>2. PICK i \in 1..m : Contains(f[i], g[m][j])
          BY <3>1, <5>1
        <5>3. PICK p \in 1..Len(f[i]) : f[i][p] = g[m][j]
          BY <5>2 DEF Contains
        <5>4. i \in 1..n /\ i < m + 1
          BY <3>1, <3>2
        <5> QED BY <3>2, <3>4, <5>3, <5>4 DEF Blocks
      <4> QED BY <3>1, <3>2, <4>1, <4>2, Joined
    <3>5. \A x : Contains(g[m + 1], x) <=> \E i \in 1..(m + 1) : Contains(f[i], x)
      <4>1. \A i \in 1..(m + 1) : i \in 1..m \/ i = m + 1
        BY <3>1
      <4>2. m + 1 \in 1..(m + 1) /\ 1..m \subseteq 1..(m + 1)
        BY <3>1
      <4> QED BY <3>1, <3>3, <4>1, <4>2
    <3> QED BY <3>2, <3>3, <3>4, <3>5
  <2>5. n \in S
    <3>1. S \in SUBSET (1..n)
      OBVIOUS
    <3> HIDE DEF S
    <3>2. S = 1..n
      BY <2>3, <2>4, <3>1, UpTo
    <3> QED BY <1>2, <3>2
  <2> QED BY <2>1, <2>5
<1> QED BY <1>1, <1>2

-----------------------------------------------------------------------------
(* A page.                                                                 *)

\* What is listed is sorted, and strictly if nothing is listed twice.
LEMMA SortedList ==
  ASSUME NEW seen \in SUBSET Items
  PROVE  /\ Sorted(seen) \in Seq(Items)
         /\ \A x : Contains(Sorted(seen), x) <=> x \in seen
         /\ Pairwise(Sorted(seen), AtMost)
         /\ Twice = {} => Pairwise(Sorted(seen), Less)
<1> DEFINE block(i) == IF i \notin seen THEN <<>> ELSE IF i \in Twice THEN <<i, i>> ELSE <<i>>
           f == [i \in Items |-> block(i)]
<1>1. ASSUME NEW i \in Items
      PROVE  /\ block(i) \in Seq(Items) /\ \A k \in 1..Len(block(i)) : block(i)[k] = i
             /\ i \in seen => 1 \in 1..Len(block(i))
             /\ i \notin seen => Len(block(i)) = 0
             /\ i \notin Twice => Len(block(i)) <= 1
  <2>1. CASE i \notin seen
    BY <2>1
  <2>2. CASE i \in seen /\ i \in Twice
    BY <2>2
  <2>3. CASE i \in seen /\ i \notin Twice
    BY <2>3
  <2> QED BY <2>1, <2>2, <2>3
<1>2. f \in [1..N -> Seq(Items)] /\ N \in Nat
  BY <1>1, NNat DEF Items
<1>3. \A i \in Items : f[i] = block(i)
  OBVIOUS
<1>4. Sorted(seen) = FlattenSeq(f)
  BY DEF Sorted
<1> HIDE DEF f, block
<1>5. ASSUME NEW x PROVE (\E i \in 1..N : Contains(f[i], x)) <=> x \in seen
  <2>1. ASSUME NEW i \in 1..N, Contains(f[i], x) PROVE x \in seen
    BY <1>1, <1>3, <2>1 DEF Contains, Items
  <2>2. ASSUME x \in seen PROVE x \in 1..N /\ Contains(f[x], x)
    BY <1>1, <1>3, <2>2 DEF Contains, Items
  <2> QED BY <2>1, <2>2
<1>a. ASSUME NEW i \in 1..N, NEW k \in 1..Len(f[i]) PROVE f[i][k] = i /\ i \in Nat
  BY <1>1, <1>2, <1>3 DEF Items
<1>b. \A i, j \in Nat : /\ i <= j => <<i, j>> \in AtMost
                        /\ i < j => <<i, j>> \in Less
  BY DEF AtMost, Less
<1>6. Blocks(f, N, AtMost)
  <2>1. ASSUME NEW i \in 1..N PROVE Pairwise(f[i], AtMost)
    <3>1. \A j, k \in 1..Len(f[i]) : f[i][j] = i /\ f[i][k] = i /\ i \in Nat
      BY <1>a
    <3>2. i \in Nat /\ i <= i /\ <<i, i>> \in AtMost
      <4>1. i \in Nat /\ i <= i
        OBVIOUS
      <4> QED BY <1>b, <4>1
    <3> QED BY <3>1, <3>2, Zenon DEF Pairwise
  <2>2. ASSUME NEW i \in 1..N, NEW j \in 1..N, i < j,
               NEW k \in 1..Len(f[i]), NEW m \in 1..Len(f[j])
        PROVE  <<f[i][k], f[j][m]>> \in AtMost
    <3>1. f[i][k] = i /\ f[j][m] = j /\ i \in Nat /\ j \in Nat
      BY <1>a
    <3>2. i <= j
      BY <2>2, <3>1
    <3> QED BY <1>b, <3>1, <3>2
  <2> QED BY <2>1, <2>2 DEF Blocks
<1>7. ASSUME Twice = {} PROVE Blocks(f, N, Less)
  <2>1. ASSUME NEW i \in 1..N PROVE Pairwise(f[i], Less)
    <3>1. f[i] \in Seq(Items) /\ Len(f[i]) <= 1
      BY <1>1, <1>3, <1>7 DEF Items
    <3>2. Len(f[i]) \in Nat
      BY <3>1
    <3>3. ASSUME NEW j \in 1..Len(f[i]), NEW k \in 1..Len(f[i]) PROVE ~(j < k)
      BY <3>1, <3>2
    <3> QED BY <3>3 DEF Pairwise
  <2>2. ASSUME NEW i \in 1..N, NEW j \in 1..N, i < j,
               NEW k \in 1..Len(f[i]), NEW m \in 1..Len(f[j])
        PROVE  <<f[i][k], f[j][m]>> \in Less
    <3>1. f[i][k] = i /\ f[j][m] = j /\ i \in Nat /\ j \in Nat
      BY <1>a
    <3> QED BY <1>b, <2>2, <3>1
  <2> QED BY <2>1, <2>2 DEF Blocks
<1> QED BY <1>2, <1>4, <1>5, <1>6, <1>7, Flattened

\* What fits is what is asked for from the start of the page on, in its order.
LEMMA Fitting ==
  ASSUME NEW list \in Seq(Items), NEW start
  PROVE  /\ Fit(list, start) \in Seq(Items)
         /\ \A x : Contains(Fit(list, start), x) <=>
              \E k \in 1..Len(list) : k >= start /\ list[k] = x /\ req.want \in {NoToken, x}
         /\ \A R : Pairwise(list, R) => Pairwise(Fit(list, start), R)
<1> DEFINE n == Len(list)
           asked(k) == k >= start /\ req.want \in {NoToken, list[k]}
           f == [k \in DOMAIN list |-> IF asked(k) THEN <<list[k]>> ELSE <<>>]
<1>1. n \in Nat /\ DOMAIN list = 1..n /\ \A k \in 1..n : list[k] \in Items
  OBVIOUS
<1>2. f \in [1..n -> Seq(Items)]
  <2>1. ASSUME NEW k \in 1..n PROVE (IF asked(k) THEN <<list[k]>> ELSE <<>>) \in Seq(Items)
    <3>1. <<list[k]>> \in Seq(Items) /\ <<>> \in Seq(Items)
      BY <1>1
    <3> QED BY <3>1
  <2> HIDE DEF asked
  <2> QED BY <1>1, <2>1
<1>3. \A k \in 1..n : /\ asked(k) => f[k] = <<list[k]>>
                      /\ ~asked(k) => f[k] = <<>>
  BY <1>1
<1>4. Fit(list, start) = FlattenSeq(f)
  BY DEF Fit
<1>5. ASSUME NEW k \in 1..n
      PROVE  /\ \A x : Contains(f[k], x) <=> asked(k) /\ x = list[k]
             /\ \A R : Pairwise(f[k], R)
             /\ \A j \in 1..Len(f[k]) : f[k][j] = list[k]
  <2> HIDE DEF f, asked
  <2>1. CASE asked(k)
    <3>1. f[k] = <<list[k]>>
      BY <1>3, <2>1
    <3> QED BY <2>1, <3>1 DEF Contains, Pairwise
  <2>2. CASE ~asked(k)
    <3>1. f[k] = <<>>
      BY <1>3, <2>2
    <3> QED BY <2>2, <3>1 DEF Contains, Pairwise
  <2> QED BY <2>1, <2>2
<1>6. ASSUME NEW R, Pairwise(list, R) PROVE Blocks(f, n, R)
  <2>1. \A i, j \in 1..n : i < j => <<list[i], list[j]>> \in R
    BY <1>6 DEF Pairwise
  <2> HIDE DEF f, n
  <2> QED BY <1>5, <2>1 DEF Blocks
<1>7. ASSUME NEW x
      PROVE  (\E k \in 1..n : Contains(f[k], x)) <=>
               \E k \in 1..n : k >= start /\ list[k] = x /\ req.want \in {NoToken, x}
  <2> HIDE DEF f
  <2> QED BY <1>5
<1>8. /\ FlattenSeq(f) \in Seq(Items)
      /\ \A x : Contains(FlattenSeq(f), x) <=> \E k \in 1..n : Contains(f[k], x)
      /\ \A R : Blocks(f, n, R) => Pairwise(FlattenSeq(f), R)
  <2> HIDE DEF f, n
  <2> QED BY <1>1, <1>2, Flattened
<1>9. \A x : Contains(Fit(list, start), x) <=>
        \E k \in 1..n : k >= start /\ list[k] = x /\ req.want \in {NoToken, x}
  <2> HIDE DEF f, n, asked
  <2> QED BY <1>4, <1>7, <1>8
<1>10. \A R : Pairwise(list, R) => Pairwise(Fit(list, start), R)
  <2> HIDE DEF f, n, asked
  <2> QED BY <1>4, <1>6, <1>8
<1> QED BY <1>4, <1>8, <1>9, <1>10

\* A page holds what fits up to its token, and all of it if there is no token.
LEMMA PageCut ==
  ASSUME NEW list \in Seq(Items), NEW start, req.max \in Nat
  PROVE  LET fit == Fit(list, start)
             page == Page(list, start)
         IN  /\ page.entries \in Seq(Items) /\ page.next \in Items \cup {NoToken}
             /\ \A x : Contains(page.entries, x) => Contains(fit, x)
             /\ page.next # NoToken => Contains(fit, page.next)
             /\ \A R : Pairwise(list, R) =>
                  /\ Pairwise(page.entries, R)
                  /\ page.next # NoToken =>
                       \A k \in 1..Len(page.entries) : <<page.entries[k], page.next>> \in R
             /\ Pairwise(list, AtMost) =>
                  \A x \in Items : Contains(fit, x) /\ (page.next = NoToken \/ x < page.next)
                                     => Contains(page.entries, x)
<1> DEFINE fit == Fit(list, start)
           page == Page(list, start)
           max == req.max
<1>1. /\ fit \in Seq(Items) /\ Len(fit) \in Nat /\ \A k \in 1..Len(fit) : fit[k] \in Items
      /\ \A R : Pairwise(list, R) => Pairwise(fit, R)
  <2>1. fit \in Seq(Items) /\ \A R : Pairwise(list, R) => Pairwise(fit, R)
    BY Fitting
  <2> HIDE DEF fit
  <2> QED BY <2>1
<1>2. \A i \in Items : i \in Nat /\ i # NoToken
  BY DEF Items, NoToken
<1>3. CASE ~(max > 0 /\ Len(fit) > max)
  <2>1. page.entries = fit /\ page.next = NoToken
    BY <1>3 DEF Page
  <2>2. /\ page.entries \in Seq(Items) /\ page.next \in Items \cup {NoToken}
        /\ \A x : Contains(page.entries, x) <=> Contains(fit, x)
        /\ \A R : Pairwise(list, R) => Pairwise(page.entries, R)
    <3> HIDE DEF page, fit
    <3> QED BY <1>1, <2>1
  <2> HIDE DEF page, fit
  <2> QED BY <2>1, <2>2 DEF page, fit
<1>4. CASE max > 0 /\ Len(fit) > max
  <2>1. page.entries = SubSeq(fit, 1, max) /\ page.next = fit[max + 1]
    BY <1>4 DEF Page
  <2> HIDE DEF page, fit
  <2> DEFINE e == page.entries
  <2>2. /\ e \in Seq(Items) /\ Len(e) = max /\ \A k \in 1..max : e[k] = fit[k]
        /\ max + 1 \in 1..Len(fit)
    <3>1. 1 \in Int /\ max \in Int /\ \A k \in 1..max : fit[k] \in Items
      BY <1>1, <1>4
    <3>2. /\ SubSeq(fit, 1, max) \in Seq(Items)
          /\ Len(SubSeq(fit, 1, max)) = IF 1 <= max THEN max - 1 + 1 ELSE 0
          /\ \A k \in 1..(max - 1 + 1) : SubSeq(fit, 1, max)[k] = fit[1 + k - 1]
      BY <3>1, SubSeqProperties
    <3> QED BY <1>1, <1>4, <2>1, <3>2
  <2>3. \A k \in 1..max : k \in 1..Len(fit) /\ k < max + 1
    BY <1>1, <1>4
  <2>4. page.next \in Items /\ Contains(fit, page.next)
    BY <1>1, <2>1, <2>2 DEF Contains
  <2> HIDE DEF e
  <2>5. \A x : Contains(e, x) => Contains(fit, x)
    BY <2>2, <2>3 DEF Contains
  <2>6. ASSUME NEW R, Pairwise(list, R)
        PROVE  Pairwise(e, R) /\ \A k \in 1..Len(e) : <<e[k], page.next>> \in R
    <3>1. Pairwise(fit, R)
      BY <1>1, <2>6
    <3> QED BY <2>1, <2>2, <2>3, <3>1 DEF Pairwise
  <2>7. ASSUME Pairwise(list, AtMost), NEW x \in Items, Contains(fit, x), x < page.next
        PROVE  Contains(e, x)
    <3>1. PICK k \in 1..Len(fit) : fit[k] = x
      BY <2>7 DEF Contains
    <3>2. k <= max
      <4>1. Pairwise(fit, AtMost)
        BY <1>1, <2>7
      <4>2. SUFFICES ASSUME k > max PROVE FALSE
        BY <1>1
      <4>3. k > max + 1
        BY <1>1, <1>2, <2>1, <2>7, <3>1, <4>2
      <4>4. <<fit[max + 1], fit[k]>> \in AtMost
        BY <2>2, <4>1, <4>3 DEF Pairwise
      <4> QED BY <1>2, <2>1, <2>4, <2>7, <3>1, <4>4 DEF AtMost
    <3> QED BY <2>2, <3>1, <3>2 DEF Contains
  <2>8. page.next # NoToken
    BY <1>2, <2>4
  <2>9. /\ page.entries \in Seq(Items) /\ page.next \in Items \cup {NoToken}
        /\ \A x : Contains(page.entries, x) => Contains(fit, x)
        /\ Contains(fit, page.next)
    BY <2>2, <2>4, <2>5 DEF e
  <2>10. \A R : Pairwise(list, R) =>
           /\ Pairwise(page.entries, R)
           /\ \A k \in 1..Len(page.entries) : <<page.entries[k], page.next>> \in R
    BY <2>6 DEF e
  <2>11. Pairwise(list, AtMost) =>
           \A x \in Items : Contains(fit, x) /\ x < page.next => Contains(page.entries, x)
    BY <2>7 DEF e
  <2> QED BY <2>8, <2>9, <2>10, <2>11 DEF page, fit
<1> HIDE DEF page, fit
<1> QED BY <1>3, <1>4 DEF page, fit

-----------------------------------------------------------------------------
(* The invariants.                                                         *)

\* The type invariant, and that no token outlives its walk.
Typed == TypeOK /\ (req.pc \in {"idle", "done"} => req.token = NoToken)

Walking == req.pc \in {"send", "list"}

\* What was got is sorted, and comes before the token.
OrderedInv ==
    Typed /\ Pairwise(got, Less)
    /\ (Walking => /\ req.token = NoToken => got = <<>>
                   /\ req.token # NoToken => \A k \in 1..Len(got) : got[k] < req.token)

\* An item asked for is listed, or a DSM that has it is still to be listed.
Coming(i) == \/ i \in req.seen
             \/ req.source = None /\ HomeOf[i] \in req.todo
             \/ req.source # None /\ req.todo # {}

\* Of the items that stayed, those before the token were got, the others come.
ListedInv ==
    Typed /\ ListedAll
    /\ (faults = 0 => /\ Walking => \A i \in since : Asked(i) /\ i < req.token => Contains(got, i)
                      /\ At("list") => \A i \in since : Asked(i) => Coming(i))

-----------------------------------------------------------------------------
(* The steps.                                                              *)

LEMMA TypesSplit ==
  ASSUME TypeOK
  PROVE  /\ exists \in SUBSET Items /\ since \in SUBSET Items /\ got \in Seq(Items)
         /\ req.token \in Items \cup {NoToken} /\ req.max \in Nat /\ req.seen \in SUBSET Items
         /\ req = [pc |-> req.pc, token |-> req.token, max |-> req.max, want |-> req.want,
                   source |-> req.source, todo |-> req.todo, seen |-> req.seen]
BY LimitsTyped DEF TypeOK, ReqType

LEMMA Ranks == \A i \in Items : i \in Nat /\ i > NoToken /\ NoToken = 0
BY NNat DEF Items, NoToken

\* These entries and this token answer a request: they are cut from what was
\* listed, from the token of the request on and up to the new one.
Cut(entries, next) ==
    /\ entries \in Seq(Items) /\ next \in Items \cup {NoToken}
    /\ next # NoToken => next >= req.token
    /\ \A x \in Items : Contains(entries, x) => x >= req.token
    /\ Twice = {} => /\ Pairwise(entries, Less)
                     /\ next # NoToken => \A k \in 1..Len(entries) : entries[k] < next
    /\ \A x \in req.seen : /\ req.want \in {NoToken, x} /\ x >= req.token
                           /\ next = NoToken \/ x < next
                           => Contains(entries, x)

\* A page that starts at the token is such an answer.
LEMMA PageIsCut ==
  ASSUME TypeOK, NEW start \in Nat,
         LET list == Sorted(req.seen)
         IN  \/ req.token = NoToken /\ start = 1
             \/ start \in 1..Len(list) /\ list[start] = req.token
                /\ \A k \in 1..Len(list) : list[k] = req.token => start <= k
  PROVE  Cut(Page(Sorted(req.seen), start).entries, Page(Sorted(req.seen), start).next)
<1> DEFINE list == Sorted(req.seen)
           fit == Fit(list, start)
           page == Page(list, start)
<1>1. /\ list \in Seq(Items) /\ Len(list) \in Nat /\ \A k \in 1..Len(list) : list[k] \in Items
      /\ \A x : Contains(list, x) <=> x \in req.seen
      /\ Pairwise(list, AtMost) /\ (Twice = {} => Pairwise(list, Less))
  <2>1. /\ list \in Seq(Items)
        /\ \A x : Contains(list, x) <=> x \in req.seen
        /\ Pairwise(list, AtMost) /\ (Twice = {} => Pairwise(list, Less))
    BY SortedList, TypesSplit
  <2> HIDE DEF list
  <2> QED BY <2>1
<1>2. \/ req.token = NoToken /\ start = 1
      \/ start \in 1..Len(list) /\ list[start] = req.token
         /\ \A k \in 1..Len(list) : list[k] = req.token => start <= k
  OBVIOUS
<1>3. \A x : Contains(fit, x) <=>
        \E k \in 1..Len(list) : k >= start /\ list[k] = x /\ req.want \in {NoToken, x}
  <2> HIDE DEF list
  <2> QED BY <1>1, Fitting
<1>4. /\ page.entries \in Seq(Items) /\ page.next \in Items \cup {NoToken}
      /\ \A x : Contains(page.entries, x) => Contains(fit, x)
      /\ page.next # NoToken => Contains(fit, page.next)
      /\ \A R : Pairwise(list, R) =>
           /\ Pairwise(page.entries, R)
           /\ page.next # NoToken =>
                \A k \in 1..Len(page.entries) : <<page.entries[k], page.next>> \in R
      /\ \A x \in Items : Contains(fit, x) /\ (page.next = NoToken \/ x < page.next)
                            => Contains(page.entries, x)
  <2> HIDE DEF list
  <2> QED BY <1>1, PageCut, TypesSplit
<1> HIDE DEF list, fit, page
<1>5. ASSUME NEW x \in Items
      PROVE  Contains(fit, x) <=> x \in req.seen /\ x >= req.token /\ req.want \in {NoToken, x}
  <2>1. x \in Nat /\ x > NoToken /\ req.token \in Nat
    BY Ranks, TypesSplit
  <2>2. ASSUME NEW k \in 1..Len(list), list[k] = x
        PROVE  k >= start <=> x >= req.token
    <3>1. CASE req.token = NoToken /\ start = 1
      BY <1>1, <2>1, <3>1
    <3>2. CASE /\ start \in 1..Len(list) /\ list[start] = req.token
               /\ \A m \in 1..Len(list) : list[m] = req.token => start <= m
      <4>1. start < k => <<req.token, x>> \in AtMost
        BY <1>1, <2>2, <3>2 DEF Pairwise
      <4>2. k < start => <<x, req.token>> \in AtMost
        BY <1>1, <2>2, <3>2 DEF Pairwise
      <4>3. k < start => x # req.token
        BY <1>1, <2>2, <3>2
      <4>4. k = start => x = req.token
        BY <2>2, <3>2
      <4> QED BY <1>1, <2>1, <4>1, <4>2, <4>3, <4>4 DEF AtMost
    <3> QED BY <1>2, <3>1, <3>2
  <2>3. x \in req.seen <=> \E k \in 1..Len(list) : list[k] = x
    BY <1>1 DEF Contains
  <2> QED BY <1>3, <2>2, <2>3
<1>6. page.next # NoToken => page.next >= req.token
  BY <1>4, <1>5
<1>7. \A x \in Items : Contains(page.entries, x) => x >= req.token
  BY <1>4, <1>5
<1>8. ASSUME Twice = {}
      PROVE  /\ Pairwise(page.entries, Less)
             /\ page.next # NoToken => \A k \in 1..Len(page.entries) : page.entries[k] < page.next
  <2>1. Pairwise(list, Less)
    BY <1>1, <1>8
  <2>2. /\ Pairwise(page.entries, Less)
        /\ page.next # NoToken =>
             \A k \in 1..Len(page.entries) : <<page.entries[k], page.next>> \in Less
    BY <1>4, <2>1
  <2> QED BY <2>2 DEF Less
<1>9. \A x \in req.seen : /\ req.want \in {NoToken, x} /\ x >= req.token
                          /\ page.next = NoToken \/ x < page.next
                          => Contains(page.entries, x)
  BY <1>4, <1>5, TypesSplit
<1>10. Cut(page.entries, page.next)
  BY <1>4, <1>6, <1>7, <1>8, <1>9 DEF Cut
<1> QED BY <1>10 DEF page, list

\* What Answer does: it starts the walk again, or adds a page to it.
LEMMA AnswerCases ==
  ASSUME TypeOK, Answer
  PROVE  /\ At("list") /\ req.todo = {} /\ UNCHANGED <<exists, faults, changes>>
         /\ \/ /\ req' = [req EXCEPT !.pc = "send", !.token = NoToken, !.seen = {}]
               /\ got' = <<>> /\ since' = exists
            \/ \E entries \in Seq(Items), next \in Items \cup {NoToken} :
                 /\ Cut(entries, next)
                 /\ req' = [req EXCEPT !.pc = IF next = NoToken THEN "done" ELSE "send",
                                       !.token = next, !.seen = {}]
                 /\ got' = got \o entries /\ UNCHANGED since
<1> DEFINE list == Sorted(req.seen)
           hits == {k \in DOMAIN list : list[k] = req.token}
           start == IF hits = {} THEN 1 ELSE CHOOSE k \in hits : \A m \in hits : k <= m
           page == Page(list, start)
<1>1. /\ At("list") /\ req.todo = {} /\ UNCHANGED <<exists, faults, changes>>
      /\ \/ /\ req' = [req EXCEPT !.pc = "send", !.token = NoToken, !.seen = {}]
            /\ got' = <<>> /\ since' = exists
         \/ /\ ~(req.token # NoToken /\ hits = {})
            /\ req' = [req EXCEPT !.pc = IF page.next = NoToken THEN "done" ELSE "send",
                                  !.token = page.next, !.seen = {}]
            /\ got' = got \o page.entries /\ UNCHANGED since
  BY DEF Answer
<1>2. list \in Seq(Items)
  BY SortedList, TypesSplit
<1>3. DOMAIN list = 1..Len(list) /\ Len(list) \in Nat /\ \A k \in 1..Len(list) : list[k] \in Items
  <2> HIDE DEF list
  <2> QED BY <1>2
<1>4. ASSUME ~(req.token # NoToken /\ hits = {}) PROVE Cut(page.entries, page.next)
  <2>1. start \in Nat /\ (\/ req.token = NoToken /\ start = 1
                          \/ start \in 1..Len(list) /\ list[start] = req.token
                             /\ \A k \in 1..Len(list) : list[k] = req.token => start <= k)
    <3> HIDE DEF list, page
    <3>1. CASE hits = {}
      <4>1. start = 1 /\ req.token = NoToken
        BY <1>4, <3>1
      <4> HIDE DEF start, hits
      <4> QED BY <4>1
    <3>2. CASE hits # {}
      <4>1. hits \in SUBSET Nat
        BY <1>3
      <4>2. \E k \in hits : \A m \in hits : k <= m
        <5> HIDE DEF hits
        <5> QED BY <3>2, <4>1, Least
      <4>3. start \in hits /\ \A m \in hits : start <= m
        <5> HIDE DEF hits
        <5> QED BY <3>2, <4>2
      <4> HIDE DEF start
      <4> QED BY <1>3, <4>3
    <3> QED BY <3>1, <3>2
  <2> HIDE DEF hits, start
  <2> QED BY <2>1, PageIsCut
<1> HIDE DEF page, hits
<1>5. CASE /\ req' = [req EXCEPT !.pc = "send", !.token = NoToken, !.seen = {}]
           /\ got' = <<>> /\ since' = exists
  BY <1>1, <1>5
<1>6. CASE /\ ~(req.token # NoToken /\ hits = {})
           /\ req' = [req EXCEPT !.pc = IF page.next = NoToken THEN "done" ELSE "send",
                                 !.token = page.next, !.seen = {}]
           /\ got' = got \o page.entries /\ UNCHANGED since
  <2>1. Cut(page.entries, page.next)
    BY <1>4, <1>6
  <2>2. page.entries \in Seq(Items) /\ page.next \in Items \cup {NoToken}
    BY <2>1 DEF Cut
  <2> QED BY <1>1, <1>6, <2>1, <2>2
<1> QED BY <1>1, <1>5, <1>6

\* Every step of a walk keeps the types.
LEMMA TypesStep ==
  ASSUME Typed, [Next]_vars
  PROVE  Typed'
<1> USE DEF At
<1>t. TypeOK /\ (req.pc \in {"idle", "done"} => req.token = NoToken)
  BY DEF Typed
<1>0. /\ exists \subseteq Items /\ since \subseteq exists /\ req \in ReqType /\ got \in Seq(Items)
      /\ faults \in 0..MaxFaults /\ changes \in 0..MaxChanges
      /\ MaxFaults \in Nat /\ MaxChanges \in Nat
  BY <1>t, BoundsNat DEF TypeOK
<1>1. CASE Begin
  <2>1. req' \in ReqType /\ req'.pc = "send"
    BY <1>0, <1>1 DEF Begin, ReqType
  <2> QED BY <1>0, <1>1, <2>1 DEF Begin, Typed, TypeOK
<1>2. CASE Send
  <2>1. req' \in ReqType /\ req'.pc = "list"
    BY <1>0, <1>2 DEF Send, ReqType
  <2> QED BY <1>0, <1>2, <2>1 DEF Send, Typed, TypeOK
<1>3. CASE ListDsm
  <2>1. /\ req' \in ReqType /\ req'.pc = "list" /\ faults' \in 0..MaxFaults
        /\ UNCHANGED <<exists, got, since, changes>>
    <3>1. /\ req.pc = "list" /\ UNCHANGED <<exists, got, since, changes>>
          /\ \E todo \in SUBSET Servers, seen \in SUBSET Items :
               req' = [req EXCEPT !.todo = todo, !.seen = seen]
      <4>1. PICK s \in req.todo :
              \/ /\ req' = [req EXCEPT !.todo = @ \ {s},
                                       !.seen = @ \cup {i \in exists : HomeOf[i] = s}]
                 /\ UNCHANGED faults
              \/ /\ faults < MaxFaults /\ faults' = faults + 1
                 /\ req' = [req EXCEPT !.todo = @ \ {s}]
        BY <1>3 DEF ListDsm
      <4>2. /\ req.todo \ {s} \in SUBSET Servers /\ req.seen \in SUBSET Items
            /\ req.seen \cup {i \in exists : HomeOf[i] = s} \in SUBSET Items
        BY <1>0 DEF ReqType
      <4>3. req' = [req EXCEPT !.todo = @ \ {s}] =>
              req' = [req EXCEPT !.todo = req.todo \ {s}, !.seen = req.seen]
        BY <1>0 DEF ReqType
      <4> QED BY <1>3, <4>1, <4>2, <4>3 DEF ListDsm
    <3>2. faults' \in 0..MaxFaults
      BY <1>0, <1>3 DEF ListDsm
    <3> QED BY <1>0, <3>1, <3>2 DEF ReqType
  <2> QED BY <1>0, <2>1 DEF Typed, TypeOK
<1>4. CASE ListSource
  <2>1. /\ req' \in ReqType /\ req'.pc = "list" /\ faults' \in 0..MaxFaults
        /\ UNCHANGED <<exists, got, since, changes>>
    <3>1. req.pc = "list" /\ UNCHANGED <<exists, got, since, changes>> /\ faults' \in 0..MaxFaults
      BY <1>0, <1>4 DEF ListSource
    <3>2. \/ req' = [req EXCEPT !.todo = {}]
          \/ req' = [req EXCEPT !.todo = {}, !.seen = {i \in exists : ParentOf[i] = req.source}]
      BY <1>4 DEF ListSource
    <3>3. {} \in SUBSET Servers /\ {i \in exists : ParentOf[i] = req.source} \in SUBSET Items
      BY <1>0
    <3> QED BY <1>0, <3>1, <3>2, <3>3 DEF ReqType
  <2> QED BY <1>0, <2>1 DEF Typed, TypeOK
<1>5. CASE Answer
  <2>0. UNCHANGED <<exists, faults, changes>>
    BY <1>t, <1>5, AnswerCases
  <2>1. CASE /\ req' = [req EXCEPT !.pc = "send", !.token = NoToken, !.seen = {}]
             /\ got' = <<>> /\ since' = exists
    <3>1. req' \in ReqType /\ req'.pc = "send"
      BY <1>0, <2>1 DEF ReqType
    <3> QED BY <1>0, <2>0, <2>1, <3>1 DEF Typed, TypeOK
  <2>2. ASSUME NEW entries \in Seq(Items), NEW next \in Items \cup {NoToken},
               req' = [req EXCEPT !.pc = IF next = NoToken THEN "done" ELSE "send",
                                  !.token = next, !.seen = {}],
               got' = got \o entries, UNCHANGED since
        PROVE  Typed'
    <3>1. req' \in ReqType /\ (req'.pc \in {"idle", "done"} => req'.token = NoToken)
      BY <1>0, <2>2 DEF ReqType
    <3>2. got' \in Seq(Items)
      BY <1>0, <2>2
    <3> QED BY <1>0, <2>0, <2>2, <3>1, <3>2 DEF Typed, TypeOK
  <2> QED BY <1>t, <1>5, <2>1, <2>2, AnswerCases
<1>6. CASE Again
  <2>1. req' \in ReqType /\ req'.token = NoToken
    BY <1>0, <1>6, <1>t DEF Again, ReqType
  <2> QED BY <1>0, <1>6, <2>1 DEF Again, Typed, TypeOK
<1>7. CASE Change
  <2>1. exists' \subseteq Items /\ since' \subseteq exists' /\ changes' \in 0..MaxChanges
    BY <1>0, <1>7 DEF Change
  <2> QED BY <1>0, <1>7, <1>t, <2>1 DEF Change, Typed, TypeOK
<1>8. CASE UNCHANGED vars
  BY <1>8, <1>t DEF vars, Typed, TypeOK
<1> QED BY <1>1, <1>2, <1>3, <1>4, <1>5, <1>6, <1>7, <1>8 DEF Next

LEMMA TypesInit ==
  ASSUME Init
  PROVE  Typed
<1>1. /\ (CHOOSE m \in Limits : TRUE) \in Limits /\ (CHOOSE w \in Wants : TRUE) \in Wants
      /\ (CHOOSE s \in Sources : TRUE) \in Sources
  BY RequestsAny
<1>2. req \in ReqType /\ req.pc = "idle" /\ req.token = NoToken
  BY <1>1 DEF Init, ReqType
<1>3. 0 \in 0..MaxFaults /\ 0 \in 0..MaxChanges
  BY BoundsNat
<1>4. <<>> \in Seq(Items)
  OBVIOUS
<1> QED BY <1>2, <1>3, <1>4 DEF Init, Typed, TypeOK

\* A step that keeps the walk and what it got keeps the order.
LEMMA OrderKept ==
  ASSUME OrderedInv, Typed', UNCHANGED got, req'.token = req.token,
         Walking' => Walking
  PROVE  OrderedInv'
BY DEF OrderedInv, Walking

LEMMA OrderedStep ==
  ASSUME OrderedInv, [Next]_vars, Twice = {}
  PROVE  OrderedInv'
<1> USE DEF At
<1>0. /\ Typed /\ Typed' /\ TypeOK /\ Pairwise(got, Less)
      /\ Walking => /\ req.token = NoToken => got = <<>>
                    /\ req.token # NoToken => \A k \in 1..Len(got) : got[k] < req.token
  BY TypesStep DEF OrderedInv, Typed
<1>r. /\ got \in Seq(Items) /\ Len(got) \in Nat /\ req.token \in Items \cup {NoToken}
      /\ req = [pc |-> req.pc, token |-> req.token, max |-> req.max, want |-> req.want,
                source |-> req.source, todo |-> req.todo, seen |-> req.seen]
  BY <1>0, TypesSplit
<1>e. Pairwise(<<>>, Less)
  BY DEF Pairwise
<1>1. CASE Begin
  <2>1. req'.token = NoToken /\ got' = <<>>
    BY <1>0, <1>1, <1>r DEF Begin, Typed
  <2> QED BY <1>0, <1>e, <2>1 DEF OrderedInv
<1>2. CASE Send \/ ListDsm \/ ListSource \/ Again \/ Change \/ UNCHANGED vars
  <2>1. CASE Send
    BY <1>0, <1>r, <2>1, OrderKept DEF Send, Walking
  <2>2. CASE ListDsm
    BY <1>0, <1>r, <2>2, OrderKept DEF ListDsm, Walking
  <2>3. CASE ListSource
    BY <1>0, <1>r, <2>3, OrderKept DEF ListSource, Walking
  <2>4. CASE Again
    BY <1>0, <1>r, <2>4, OrderKept DEF Again, Walking
  <2>5. CASE Change
    BY <1>0, <2>5, OrderKept DEF Change, Walking
  <2>6. CASE UNCHANGED vars
    BY <1>0, <2>6, OrderKept DEF vars, Walking
  <2> QED BY <1>2, <2>1, <2>2, <2>3, <2>4, <2>5, <2>6
<1>3. CASE Answer
  <2>1. CASE req' = [req EXCEPT !.pc = "send", !.token = NoToken, !.seen = {}] /\ got' = <<>>
    <3>1. req'.token = NoToken
      BY <1>r, <2>1
    <3> QED BY <1>0, <1>e, <2>1, <3>1 DEF OrderedInv
  <2>2. ASSUME NEW entries \in Seq(Items), NEW next \in Items \cup {NoToken}, Cut(entries, next),
               req' = [req EXCEPT !.pc = IF next = NoToken THEN "done" ELSE "send",
                                  !.token = next, !.seen = {}],
               got' = got \o entries
        PROVE  OrderedInv'
    <3>1. req.pc = "list" /\ Walking
      BY <1>0, <1>3, AnswerCases DEF Walking
    <3>2. /\ req'.token = next /\ (Walking' => next # NoToken)
      BY <1>r, <2>2 DEF Walking
    <3>3. /\ Pairwise(entries, Less) /\ Len(entries) \in Nat
          /\ \A k \in 1..Len(entries) : entries[k] \in Items /\ entries[k] >= req.token
          /\ next # NoToken => /\ next >= req.token
                               /\ \A k \in 1..Len(entries) : entries[k] < next
      <4>1. \A k \in 1..Len(entries) : entries[k] \in Items /\ Contains(entries, entries[k])
        BY DEF Contains
      <4> QED BY <2>2, <4>1 DEF Cut
    <3>4. \A k \in 1..Len(got) : got[k] \in Items /\ got[k] < req.token
      <4>1. \A k \in 1..Len(got) : got[k] \in Items
        BY <1>r
      <4>2. CASE req.token = NoToken
        BY <1>0, <3>1, <4>2
      <4>3. CASE req.token # NoToken
        BY <1>0, <3>1, <4>1, <4>3
      <4> QED BY <4>2, <4>3
    <3>5. Pairwise(got', Less)
      <4>1. ASSUME NEW j \in 1..Len(got), NEW k \in 1..Len(entries)
            PROVE  <<got[j], entries[k]>> \in Less
        <5>1. got[j] \in Nat /\ entries[k] \in Nat /\ req.token \in Nat
          BY <1>r, <3>3, <3>4, Ranks
        <5>2. got[j] < entries[k]
          BY <3>3, <3>4, <5>1
        <5> QED BY <5>1, <5>2 DEF Less
      <4> QED BY <1>0, <1>r, <2>2, <3>3, <4>1, Joined
    <3>6. next # NoToken => \A k \in 1..Len(got') : got'[k] < next
      <4>1. /\ Len(got') = Len(got) + Len(entries)
            /\ \A k \in 1..(Len(got) + Len(entries)) :
                 got'[k] = IF k <= Len(got) THEN got[k] ELSE entries[k - Len(got)]
        BY <1>r, <2>2, ConcatProperties
      <4>2. SUFFICES ASSUME next # NoToken, NEW k \in 1..(Len(got) + Len(entries))
                     PROVE  got'[k] < next
        BY <4>1
      <4>3. CASE k <= Len(got)
        <5>1. k \in 1..Len(got) /\ got'[k] = got[k]
          BY <1>r, <3>3, <4>1, <4>3
        <5>2. got[k] \in Nat /\ got[k] < req.token /\ req.token \in Nat /\ next \in Nat
          BY <1>r, <3>4, <5>1, Ranks
        <5> QED BY <3>3, <4>2, <5>1, <5>2
      <4>4. CASE k > Len(got)
        <5>1. k - Len(got) \in 1..Len(entries) /\ got'[k] = entries[k - Len(got)]
          BY <1>r, <3>3, <4>1, <4>4
        <5> QED BY <3>3, <4>2, <5>1
      <4> QED BY <1>r, <3>3, <4>3, <4>4
    <3> QED BY <1>0, <3>2, <3>5, <3>6 DEF OrderedInv
  <2> QED BY <1>0, <1>3, <2>1, <2>2, AnswerCases
<1> QED BY <1>1, <1>2, <1>3 DEF Next

\* A step that leaves the listing alone keeps what was got and what comes.
LEMMA ListedKept ==
  ASSUME ListedInv, Typed', UNCHANGED <<req, got>>, since' \subseteq since,
         faults' = 0 => faults = 0
  PROVE  ListedInv'
<1>1. ASSUME NEW i PROVE Asked(i)' = Asked(i) /\ Coming(i)' = Coming(i)
  BY DEF Asked, Coming
<1>2. At("done")' = At("done") /\ At("list")' = At("list") /\ Walking' = Walking
  BY DEF At, Walking
<1> QED BY <1>1, <1>2 DEF ListedInv, ListedAll

LEMMA ListedStep ==
  ASSUME ListedInv, [Next]_vars
  PROVE  ListedInv'
<1> USE DEF At
<1>0. /\ Typed /\ Typed' /\ TypeOK
      /\ faults = 0 =>
           /\ At("done") => \A i \in since : Asked(i) => Contains(got, i)
           /\ Walking => \A i \in since : Asked(i) /\ i < req.token => Contains(got, i)
           /\ At("list") => \A i \in since : Asked(i) => Coming(i)
  BY TypesStep DEF ListedInv, ListedAll, Typed
<1>r. /\ exists \in SUBSET Items /\ since \in SUBSET Items /\ since \subseteq exists
      /\ got \in Seq(Items) /\ req.token \in Items \cup {NoToken} /\ req.seen \in SUBSET Items
      /\ req = [pc |-> req.pc, token |-> req.token, max |-> req.max, want |-> req.want,
                source |-> req.source, todo |-> req.todo, seen |-> req.seen]
      /\ faults \in Nat /\ since' \in SUBSET Items
  <2>1. TypeOK /\ TypeOK'
    BY <1>0 DEF Typed
  <2>2. faults \in Nat /\ since \subseteq exists /\ since' \in SUBSET Items
    BY <2>1, BoundsNat DEF TypeOK
  <2> QED BY <2>1, <2>2, TypesSplit
\* A walk at its first page has nothing before the token.
<1>s. ASSUME req'.pc = "send", req'.token = NoToken PROVE ListedInv'
  <2>1. \A i \in since' : ~(i < req'.token)
    BY <1>r, <1>s, Ranks
  <2> QED BY <1>0, <1>s, <2>1 DEF ListedInv, ListedAll
\* While DSMs are listed.
<1>l. ASSUME req'.pc = "list", Walking, req'.token = req.token, req'.want = req.want,
             req'.source = req.source, UNCHANGED <<got, since>>,
             faults' = 0 => faults = 0 /\ \A i \in since : Asked(i) => Coming(i)'
      PROVE  ListedInv'
  <2>1. \A i : Asked(i)' = Asked(i)
    BY <1>l DEF Asked
  <2> QED BY <1>0, <1>l, <2>1 DEF ListedInv, ListedAll
<1>1. CASE Begin
  <2>1. req'.pc = "send" /\ req'.token = NoToken
    BY <1>0, <1>1, <1>r DEF Begin, Typed
  <2> QED BY <1>s, <2>1
<1>2. CASE Send
  <2>1. /\ req.pc = "send" /\ req'.pc = "list" /\ req'.token = req.token /\ req'.want = req.want
        /\ req'.source = req.source /\ req'.todo = Servers /\ UNCHANGED <<got, since, faults>>
    BY <1>2, <1>r DEF Send
  <2>2. \A i \in Items : Coming(i)'
    BY <2>1, HomeOfTyped DEF Coming
  <2> QED BY <1>l, <1>r, <2>1, <2>2 DEF Walking
<1>3. CASE ListDsm
  <2>1. PICK s \in req.todo :
          \/ /\ req' = [req EXCEPT !.todo = @ \ {s},
                                   !.seen = @ \cup {i \in exists : HomeOf[i] = s}]
             /\ UNCHANGED faults
          \/ /\ faults < MaxFaults /\ faults' = faults + 1
             /\ req' = [req EXCEPT !.todo = @ \ {s}]
    BY <1>3 DEF ListDsm
  <2>2. /\ req.pc = "list" /\ req.source = None /\ UNCHANGED <<got, since>>
        /\ req'.pc = "list" /\ req'.token = req.token /\ req'.want = req.want
        /\ req'.source = req.source /\ req'.todo = req.todo \ {s}
    BY <1>3, <1>r, <2>1 DEF ListDsm
  <2>3. ASSUME faults' = 0, NEW i \in since, Asked(i)
        PROVE  faults = 0 /\ Coming(i)'
    <3>1. faults = 0 /\ req'.seen = req.seen \cup {j \in exists : HomeOf[j] = s}
      <4>1. faults' # faults + 1
        BY <1>r, <2>3
      <4>2. /\ req' = [req EXCEPT !.todo = @ \ {s},
                                 !.seen = @ \cup {j \in exists : HomeOf[j] = s}]
            /\ UNCHANGED faults
        BY <2>1, <4>1
      <4> QED BY <1>r, <2>3, <4>2
    <3>2. i \in req.seen \/ HomeOf[i] \in req.todo
      BY <1>0, <2>2, <2>3, <3>1 DEF Coming
    <3> QED BY <1>r, <2>2, <3>1, <3>2 DEF Coming
  <2>4. faults' = 0 => faults = 0
    BY <1>r, <2>1
  <2> QED BY <1>l, <2>2, <2>3, <2>4 DEF Walking
<1>4. CASE ListSource
  <2>1. /\ req.pc = "list" /\ req.source # None /\ UNCHANGED <<got, since>>
        /\ req'.pc = "list" /\ req'.token = req.token /\ req'.want = req.want
        /\ req'.source = req.source
        /\ faults' = 0 => faults = 0 /\ req'.seen = {i \in exists : ParentOf[i] = req.source}
    <3>1. CASE /\ req' = [req EXCEPT !.todo = {}, !.seen = {i \in exists : ParentOf[i] = req.source}]
               /\ UNCHANGED faults
      BY <1>4, <1>r, <3>1 DEF ListSource
    <3>2. CASE faults' = faults + 1 /\ req' = [req EXCEPT !.todo = {}]
      <4>1. faults' # 0
        BY <1>r, <3>2
      <4>2. req.pc = "list" /\ req.source # None /\ UNCHANGED <<got, since>>
        BY <1>4 DEF ListSource
      <4> QED BY <1>r, <3>2, <4>1, <4>2
    <3> QED BY <1>4, <3>1, <3>2 DEF ListSource
  <2>2. ASSUME faults' = 0, NEW i \in since, Asked(i) PROVE Coming(i)'
    BY <1>r, <2>1, <2>2 DEF Asked, Coming
  <2> QED BY <1>l, <2>1, <2>2 DEF Walking
<1>5. CASE Answer
  <2>0. req.pc = "list" /\ req.todo = {} /\ UNCHANGED faults
    BY <1>0, <1>5, AnswerCases
  <2>1. CASE req' = [req EXCEPT !.pc = "send", !.token = NoToken, !.seen = {}]
    <3>1. req'.pc = "send" /\ req'.token = NoToken
      BY <1>r, <2>1
    <3> QED BY <1>s, <3>1
  <2>2. ASSUME NEW entries \in Seq(Items), NEW next \in Items \cup {NoToken}, Cut(entries, next),
               req' = [req EXCEPT !.pc = IF next = NoToken THEN "done" ELSE "send",
                                  !.token = next, !.seen = {}],
               got' = got \o entries, UNCHANGED since
        PROVE  ListedInv'
    <3>1. /\ req'.pc = (IF next = NoToken THEN "done" ELSE "send") /\ req'.token = next
          /\ \A i : Asked(i)' = Asked(i)
      <4>1. /\ req'.pc = (IF next = NoToken THEN "done" ELSE "send") /\ req'.token = next
            /\ req'.want = req.want /\ req'.source = req.source
        BY <1>r, <2>2
      <4> QED BY <4>1 DEF Asked
    <3>2. ASSUME faults = 0, NEW i \in since, Asked(i), next = NoToken \/ i < next
          PROVE  Contains(got', i)
      <4>1. Contains(got', i) <=> Contains(got, i) \/ Contains(entries, i)
        BY <1>r, <2>2, Joined
      <4>2. CASE i < req.token
        BY <1>0, <2>0, <3>2, <4>1, <4>2 DEF Walking
      <4>3. CASE i >= req.token
        <5>1. i \in req.seen
          BY <1>0, <2>0, <3>2 DEF Coming
        <5> QED BY <2>2, <3>2, <4>1, <4>3, <5>1 DEF Cut, Asked
      <4>4. i \in Nat /\ req.token \in Nat
        BY <1>r, Ranks
      <4> QED BY <4>2, <4>3, <4>4
    <3> QED BY <1>0, <2>0, <2>2, <3>1, <3>2 DEF ListedInv, ListedAll, Walking
  <2> QED BY <1>0, <1>5, <2>1, <2>2, AnswerCases
<1>6. CASE Again
  <2>1. req'.pc = "idle"
    BY <1>6, <1>r DEF Again
  <2> QED BY <1>0, <2>1 DEF ListedInv, ListedAll, Walking
<1>7. CASE Change
  <2>1. UNCHANGED <<req, got, faults>> /\ since' \subseteq since
    BY <1>7 DEF Change
  <2> QED BY <1>0, <2>1, ListedKept
<1>8. CASE UNCHANGED vars
  BY <1>0, <1>8, ListedKept DEF vars
<1> QED BY <1>1, <1>2, <1>3, <1>4, <1>5, <1>6, <1>7, <1>8 DEF Next

-----------------------------------------------------------------------------
(* The theorems.                                                           *)

\* The shape of the state, also after pages that are put together.
THEOREM PagingTypes == Spec => []TypeOK
<1>1. Init => Typed
  BY TypesInit
<1>2. Typed /\ [Next]_vars => Typed'
  BY TypesStep
<1>3. Typed => TypeOK
  BY DEF Typed
<1> QED BY <1>1, <1>2, <1>3, PTL DEF Spec

\* ListVolumes and ListSnapshots show no item twice nor out of order on the pages
\* of a walk, whatever is made, deleted or fails to be listed between them, as
\* long as no LUN is mapped to two targets.
THEOREM PagesOrdered ==
  ASSUME Twice = {}
  PROVE  Spec => []Ordered
<1>1. Init => OrderedInv
  <2> SUFFICES ASSUME Init PROVE OrderedInv
    OBVIOUS
  <2>1. got = <<>> /\ req.pc = "idle"
    BY DEF Init
  <2> QED BY <2>1, TypesInit DEF OrderedInv, Walking, Pairwise
<1>2. OrderedInv /\ [Next]_vars => OrderedInv'
  BY OrderedStep
<1>3. OrderedInv => Ordered
  <2> SUFFICES ASSUME OrderedInv, NEW k \in 1..(Len(got) - 1) PROVE got[k] < got[k + 1]
    BY DEF Ordered
  <2>1. Len(got) \in Nat /\ Pairwise(got, Less)
    BY TypesSplit DEF OrderedInv, Typed
  <2>2. k \in 1..Len(got) /\ k + 1 \in 1..Len(got) /\ k < k + 1
    BY <2>1
  <2>3. <<got[k], got[k + 1]>> \in Less
    BY <2>1, <2>2 DEF Pairwise
  <2> QED BY <2>3 DEF Less
<1> QED BY <1>1, <1>2, <1>3, PTL DEF Spec

\* A walk without failed listings shows every item that was there all the time,
\* wherever its pages were cut and whichever item a token named.
THEOREM NothingMissed == Spec => []ListedAll
<1>1. Init => ListedInv
  <2> SUFFICES ASSUME Init PROVE ListedInv
    OBVIOUS
  <2>1. req.pc = "idle"
    BY DEF Init
  <2> QED BY <2>1, TypesInit DEF ListedInv, ListedAll, Walking, At
<1>2. ListedInv /\ [Next]_vars => ListedInv'
  BY ListedStep
<1>3. ListedInv => ListedAll
  BY DEF ListedInv
<1> QED BY <1>1, <1>2, <1>3, PTL DEF Spec
=============================================================================
