----------------------------- MODULE SequenceFacts -----------------------------
(* Induction and recursion over the naturals in a first-order form, and with   *)
(* them what the recursive functions on sequences compute.                     *)
EXTENDS Integers, Sifting, SequencesExt, SequenceTheorems, FiniteSetTheorems, WellFoundedInduction, TLAPS

\* A non-empty set of naturals has a least element.
LEMMA Least ==
  ASSUME NEW T \in SUBSET Nat, T # {}
  PROVE  \E n \in T : \A m \in T : n <= m
<1> DEFINE R == {ss \in Nat \X Nat : ss[1] < ss[2]}
<1>1. IsWellFoundedOn(R, Nat)
  BY Zenon, NatLessThanWellFounded DEF OpToRel
<1> HIDE DEF R
<1>2. PICK n \in T : \A m \in T : ~(<<m, n>> \in R)
  BY Zenon, <1>1, WFMin
<1>3. \A m \in T : ~(m < n)
  BY <1>2 DEF R
<1> QED BY <1>3

\* Induction, of a set that is closed under successor.
LEMMA Induction ==
  ASSUME NEW T, 0 \in T, \A n \in Nat : n \in T => n + 1 \in T
  PROVE  Nat \subseteq T
<1> SUFFICES ASSUME Nat \ T # {} PROVE FALSE
  OBVIOUS
<1>1. PICK n \in Nat \ T : \A m \in Nat \ T : n <= m
  BY Least
<1>2. n # 0 /\ n - 1 \in Nat
  BY <1>1
<1>3. n - 1 \in T
  BY <1>1, <1>2
<1> QED BY <1>1, <1>2, <1>3

\* The same for sequences, which grow at their end.
LEMMA Growth ==
  ASSUME NEW S, NEW T, << >> \in T,
         \A v \in Seq(S), e \in S : v \in T => Append(v, e) \in T
  PROVE  Seq(S) \subseteq T
<1> SUFFICES ASSUME NEW s \in Seq(S) PROVE s \in T
  OBVIOUS
<1> DEFINE U == {n \in Nat : n <= Len(s) => SubSeq(s, 1, n) \in T}
<1>1. 0 \in U
  <2>1. SubSeq(s, 1, 0) = << >>
    OBVIOUS
  <2>2. SubSeq(s, 1, 0) \in T
    BY <2>1, Zenon
  <2> QED BY <2>2
<1>2. ASSUME NEW n \in Nat, n \in U PROVE n + 1 \in U
  <2> SUFFICES ASSUME n + 1 <= Len(s) PROVE SubSeq(s, 1, n + 1) \in T
    OBVIOUS
  <2> DEFINE v == SubSeq(s, 1, n)  w == SubSeq(s, 1, n + 1)  e == s[n + 1]
  <2>1. v \in Seq(S) /\ e \in S /\ w = Append(v, e)
    OBVIOUS
  <2>2. v \in T
    BY <1>2
  <2> HIDE DEF v, w, e
  <2>3. Append(v, e) \in T
    BY <2>1, <2>2
  <2>4. w \in T
    BY <2>1, <2>3, Zenon
  <2> QED BY <2>4 DEF w
<1>3. Len(s) \in U
  <2> HIDE DEF U
  <2> QED BY <1>1, <1>2, Induction
<1>4. SubSeq(s, 1, Len(s)) = s
  OBVIOUS
<1>5. SubSeq(s, 1, Len(s)) \in T
  BY <1>3
<1> QED BY <1>4, <1>5, Zenon

\* Primitive recursion.
Follows(g, n, v0, step) == g[0] = v0 /\ \A i \in 0..(n - 1) : g[i + 1] = step[i][g[i]]

LEMMA FollowsOnce ==
  ASSUME NEW g, NEW h, NEW m \in Nat, NEW n \in Nat, NEW v0, NEW step,
         Follows(g, m, v0, step), Follows(h, n, v0, step), NEW k \in Nat, k <= m, k <= n
  PROVE  g[k] = h[k]
<1> DEFINE T == {i \in Nat : i <= m /\ i <= n => g[i] = h[i]}
<1>1. 0 \in T
  BY DEF Follows
<1>2. ASSUME NEW i \in Nat, i \in T PROVE i + 1 \in T
  <2> SUFFICES ASSUME i + 1 <= m, i + 1 <= n PROVE g[i + 1] = h[i + 1]
    OBVIOUS
  <2>1. i \in 0..(m - 1) /\ i \in 0..(n - 1) /\ g[i] = h[i]
    BY <1>2
  <2> QED BY <2>1 DEF Follows
<1> HIDE DEF T
<1>3. k \in T
  BY <1>1, <1>2, Induction
<1> QED BY <1>3 DEF T

Recurs(f, V, v0, step) ==
    f \in [Nat -> V] /\ f[0] = v0 /\ \A n \in Nat : f[n + 1] = step[n][f[n]]

LEMMA Recursion ==
  ASSUME NEW V, NEW v0 \in V, NEW step \in [Nat -> [V -> V]]
  PROVE  \E f : Recurs(f, V, v0, step)
<1> DEFINE T == {n \in Nat : \E g \in [0..n -> V] : Follows(g, n, v0, step)}
<1>1. 0 \in T
  <2>1. [i \in 0..0 |-> v0] \in [0..0 -> V] /\ Follows([i \in 0..0 |-> v0], 0, v0, step)
    BY DEF Follows
  <2> QED BY <2>1
<1>2. ASSUME NEW n \in Nat, n \in T PROVE n + 1 \in T
  <2>1. PICK g \in [0..n -> V] : Follows(g, n, v0, step)
    BY <1>2
  <2> DEFINE h == [i \in 0..(n + 1) |-> IF i <= n THEN g[i] ELSE step[n][g[n]]]
  <2>2. h \in [0..(n + 1) -> V]
    BY <2>1
  <2>3. Follows(h, n + 1, v0, step)
    BY <2>1 DEF Follows
  <2> HIDE DEF h
  <2> QED BY <2>2, <2>3
<1> DEFINE G(n) == CHOOSE g : g \in [0..n -> V] /\ Follows(g, n, v0, step)
<1>3. \A n \in Nat : n \in T
  <2> HIDE DEF T
  <2> QED BY <1>1, <1>2, Induction
<1>4. \A n \in Nat : G(n) \in [0..n -> V] /\ Follows(G(n), n, v0, step)
  BY <1>3, Zenon
<1> HIDE DEF T, G
<1> DEFINE f == [n \in Nat |-> G(n)[n]]
<1>5. f \in [Nat -> V]
  BY <1>4
<1>6. f[0] = v0
  BY <1>4 DEF Follows
<1>7. ASSUME NEW n \in Nat PROVE f[n + 1] = step[n][f[n]]
  <2>1. G(n + 1)[n] = G(n)[n]
    BY <1>4, FollowsOnce
  <2>2. G(n + 1)[n + 1] = step[n][G(n + 1)[n]]
    BY <1>4 DEF Follows
  <2> QED BY <2>1, <2>2
<1> HIDE DEF f
<1>8. Recurs(f, V, v0, step)
  BY <1>5, <1>6, <1>7 DEF Recurs
<1> QED BY <1>8

\* The same up to a bound.
StepsTo(h, m, v0, step) == \A i \in 0..m : h[i] = IF i = 0 THEN v0 ELSE step[i][h[i - 1]]

LEMMA Steps ==
  ASSUME NEW V, NEW v0 \in V, NEW m \in Nat, NEW step \in [1..m -> [V -> V]]
  PROVE  \E h \in [0..m -> V] : StepsTo(h, m, v0, step)
<1> DEFINE next == [n \in Nat |-> [v \in V |-> IF n + 1 <= m THEN step[n + 1][v] ELSE v]]
<1>1. next \in [Nat -> [V -> V]]
  OBVIOUS
<1>2. PICK g : Recurs(g, V, v0, next)
  <2> HIDE DEF next
  <2> QED BY <1>1, Recursion
<1>3. g \in [Nat -> V] /\ g[0] = v0 /\ \A n \in Nat : g[n + 1] = next[n][g[n]]
  BY <1>2 DEF Recurs
<1>4. \A n \in Nat : n + 1 <= m => g[n + 1] = step[n + 1][g[n]]
  BY <1>3
<1> DEFINE h == [i \in 0..m |-> g[i]]
<1>5. h \in [0..m -> V]
  BY <1>3
<1>6. ASSUME NEW i \in 0..m PROVE h[i] = IF i = 0 THEN v0 ELSE step[i][h[i - 1]]
  <2>1. CASE i = 0
    BY <1>3, <2>1
  <2>2. CASE i # 0
    <3>1. i - 1 \in Nat /\ i - 1 \in 0..m /\ i = (i - 1) + 1
      BY <2>2
    <3>2. g[i] = step[i][g[i - 1]]
      BY <1>4, <3>1
    <3> QED BY <2>2, <3>1, <3>2
  <2> QED BY <2>1, <2>2
<1> HIDE DEF h
<1>7. StepsTo(h, m, v0, step)
  BY <1>6, Zenon DEF StepsTo
<1> QED BY <1>5, <1>7, Zenon

\* In the form of a recursive function of the model.
LEMMA Stepwise ==
  ASSUME NEW V, NEW v0 \in V, NEW m \in Nat, NEW step \in [1..m -> [V -> V]]
  PROVE  \E h \in [0..m -> V] : h = [i \in 0..m |-> IF i = 0 THEN v0 ELSE step[i][h[i - 1]]]
<1>1. PICK h \in [0..m -> V] : StepsTo(h, m, v0, step)
  BY Steps, Zenon
<1>2. h = [i \in 0..m |-> h[i]]
  OBVIOUS
<1>3. h = [i \in 0..m |-> IF i = 0 THEN v0 ELSE step[i][h[i - 1]]]
  BY <1>1, <1>2 DEF StepsTo
<1> QED BY <1>3
-----------------------------------------------------------------------------
(* Sift.                                                                       *)

SiftNext(v, e, P) == IF e \in P THEN Append(v, e) ELSE v
SiftStep(f, s, P, i) == IF i = 0 THEN << >> ELSE SiftNext(f[i - 1], s[i], P)
Sifts(f, s, P) == f[0] = << >> /\ \A n \in 0..(Len(s) - 1) : f[n + 1] = SiftNext(f[n], s[n + 1], P)

\* The recursive function of Sift exists.
LEMMA SiftDefined ==
  ASSUME NEW S, NEW s \in Seq(S), NEW P
  PROVE  \E f \in [0..Len(s) -> Seq(S)] : Sifts(f, s, P) /\ Sift(s, P) = f[Len(s)]
<1> DEFINE step == [n \in Nat |-> [v \in Seq(S) |->
                     IF n + 1 <= Len(s) THEN SiftNext(v, s[n + 1], P) ELSE v]]
<1>1. step \in [Nat -> [Seq(S) -> Seq(S)]] /\ << >> \in Seq(S)
  BY DEF SiftNext
<1>2. PICK g : Recurs(g, Seq(S), << >>, step)
  <2> HIDE DEF step
  <2> QED BY <1>1, Recursion
<1>3. g \in [Nat -> Seq(S)] /\ g[0] = << >> /\ \A n \in Nat : g[n + 1] = step[n][g[n]]
  BY <1>2 DEF Recurs
<1>4. \A n \in Nat : n + 1 <= Len(s) => g[n + 1] = SiftNext(g[n], s[n + 1], P)
  BY <1>3
<1> DEFINE h == [i \in 0..Len(s) |-> g[i]]
<1>5. h = [i \in 0..Len(s) |-> SiftStep(h, s, P, i)]
  <2> SUFFICES ASSUME NEW i \in 0..Len(s) PROVE g[i] = SiftStep(h, s, P, i)
    OBVIOUS
  <2>1. CASE i = 0
    BY <1>3, <2>1 DEF SiftStep
  <2>2. CASE i # 0
    <3>1. i - 1 \in Nat /\ i - 1 \in 0..Len(s) /\ i = (i - 1) + 1
      BY <2>2
    <3>2. g[i] = SiftNext(g[i - 1], s[i], P)
      BY <1>4, <3>1
    <3>3. h[i - 1] = g[i - 1]
      BY <3>1
    <3> QED BY <2>2, <3>2, <3>3 DEF SiftStep
  <2> QED BY <2>1, <2>2
<1> DEFINE c == CHOOSE f : f = [i \in 0..Len(s) |-> SiftStep(f, s, P, i)]
<1> HIDE DEF h
<1>6. c = [i \in 0..Len(s) |-> SiftStep(c, s, P, i)]
  BY <1>5, Zenon
<1>7. Sift(s, P) = c[Len(s)]
  BY Zenon DEF Sift, SiftStep, SiftNext
<1> HIDE DEF c
<1>8. Sifts(c, s, P)
  <2>1. \A i \in 0..Len(s) : c[i] = SiftStep(c, s, P, i)
    BY <1>6
  <2>2. \A n \in 0..(Len(s) - 1) : n + 1 \in 0..Len(s) /\ n + 1 # 0 /\ (n + 1) - 1 = n
    OBVIOUS
  <2>3. \A n \in 0..(Len(s) - 1) : c[n + 1] = SiftNext(c[n], s[n + 1], P)
    BY <2>1, <2>2 DEF SiftStep
  <2>4. 0 \in 0..Len(s)
    OBVIOUS
  <2> QED BY <2>1, <2>3, <2>4 DEF Sifts, SiftStep
<1>9. c \in [0..Len(s) -> Seq(S)]
  <2> DEFINE T == {i \in Nat : i <= Len(s) => c[i] \in Seq(S)}
  <2>1. 0 \in T
    BY <1>1, <1>8 DEF Sifts
  <2>2. ASSUME NEW n \in Nat, n \in T PROVE n + 1 \in T
    <3> SUFFICES ASSUME n + 1 <= Len(s) PROVE c[n + 1] \in Seq(S)
      OBVIOUS
    <3>1. c[n] \in Seq(S) /\ n \in 0..(Len(s) - 1) /\ s[n + 1] \in S
      BY <2>2
    <3>2. c[n + 1] = SiftNext(c[n], s[n + 1], P)
      BY <1>8, <3>1 DEF Sifts
    <3> QED BY <3>1, <3>2 DEF SiftNext
  <2>3. \A n \in Nat : n \in T
    <3> HIDE DEF T
    <3> QED BY <2>1, <2>2, Induction
  <2>4. \A i \in 0..Len(s) : c[i] \in Seq(S)
    BY <2>3
  <2> QED BY <1>6, <2>4
<1> QED BY <1>7, <1>8, <1>9

LEMMA SiftType ==
  ASSUME NEW S, NEW s \in Seq(S), NEW P
  PROVE  Sift(s, P) \in Seq(S)
BY SiftDefined

LEMMA SiftEmpty == ASSUME NEW P PROVE Sift(<< >>, P) = << >>
<1> DEFINE s == << >>
<1>1. s \in Seq({}) /\ Len(s) = 0
  OBVIOUS
<1> HIDE DEF s
<1>2. PICK f : Sifts(f, s, P) /\ Sift(s, P) = f[0]
  BY <1>1, SiftDefined
<1> QED BY <1>2 DEF Sifts, s

LEMMA SiftAppend ==
  ASSUME NEW S, NEW s \in Seq(S), NEW e \in S, NEW P
  PROVE  Sift(Append(s, e), P) = SiftNext(Sift(s, P), e, P)
<1>1. PICK f : Sifts(f, s, P) /\ Sift(s, P) = f[Len(s)]
  BY SiftDefined
<1> DEFINE t == Append(s, e)
<1>2. t \in Seq(S) /\ Len(t) = Len(s) + 1 /\ t[Len(s) + 1] = e /\ \A i \in 1..Len(s) : t[i] = s[i]
  OBVIOUS
<1> HIDE DEF t
<1>3. PICK g : Sifts(g, t, P) /\ Sift(t, P) = g[Len(t)]
  BY <1>2, SiftDefined
<1> DEFINE T == {i \in Nat : i <= Len(s) => f[i] = g[i]}
<1>4. 0 \in T
  BY <1>1, <1>3 DEF Sifts
<1>5. ASSUME NEW n \in Nat, n \in T PROVE n + 1 \in T
  <2> SUFFICES ASSUME n + 1 <= Len(s) PROVE f[n + 1] = g[n + 1]
    OBVIOUS
  <2>1. f[n] = g[n] /\ t[n + 1] = s[n + 1] /\ n \in 0..(Len(s) - 1) /\ n \in 0..(Len(t) - 1)
    BY <1>2, <1>5
  <2> QED BY <1>1, <1>3, <2>1 DEF Sifts
<1>6. Len(s) \in T
  <2> HIDE DEF T
  <2> QED BY <1>4, <1>5, Induction
<1>7. Sift(t, P) = SiftNext(Sift(s, P), e, P)
  <2>1. Len(s) \in 0..(Len(t) - 1) /\ Len(s) \in Nat
    BY <1>2
  <2> QED BY <1>1, <1>2, <1>3, <1>6, <2>1 DEF Sifts
<1> QED BY <1>7 DEF t

LEMMA ConcatNext ==
  ASSUME NEW S, NEW a \in Seq(S), NEW b \in Seq(S), NEW e \in S, NEW P
  PROVE  SiftNext(a \o b, e, P) = a \o SiftNext(b, e, P)
<1>1. Append(a \o b, e) = a \o Append(b, e)
  OBVIOUS
<1> QED BY <1>1, Zenon DEF SiftNext

Splits(s, v, P) == Sift(s \o v, P) = Sift(s, P) \o Sift(v, P)

LEMMA SplitsAppend ==
  ASSUME NEW S, NEW s \in Seq(S), NEW v \in Seq(S), NEW e \in S, NEW P
  PROVE  Splits(s, v, P) => Splits(s, Append(v, e), P)
<1> DEFINE a == Sift(s, P)  b == Sift(v, P)  w == s \o v
<1>1. a \in Seq(S) /\ b \in Seq(S) /\ w \in Seq(S)
  BY SiftType, ConcatProperties
<1>2. s \o Append(v, e) = Append(w, e)
  OBVIOUS
<1>3. Sift(Append(v, e), P) = SiftNext(b, e, P)
  BY SiftAppend
<1>4. Splits(s, v, P) => Sift(w, P) = a \o b
  BY DEF Splits
<1> HIDE DEF a, b, w
<1>5. Sift(Append(w, e), P) = SiftNext(Sift(w, P), e, P)
  BY <1>1, SiftAppend
<1>6. SiftNext(a \o b, e, P) = a \o SiftNext(b, e, P)
  BY <1>1, ConcatNext
<1>7. Splits(s, v, P) => Sift(s \o Append(v, e), P) = a \o Sift(Append(v, e), P)
  BY <1>2, <1>3, <1>4, <1>5, <1>6, Zenon
<1> QED BY <1>7, Zenon DEF a, Splits

\* What is left of two sequences one after the other.
LEMMA SiftConcat ==
  ASSUME NEW S, NEW s \in Seq(S), NEW t \in Seq(S), NEW P
  PROVE  Sift(s \o t, P) = Sift(s, P) \o Sift(t, P)
<1> DEFINE T == {v \in Seq(S) : Splits(s, v, P)}
<1>1. << >> \in T
  <2> DEFINE a == Sift(s, P)
  <2>1. a \in Seq(S)
    BY SiftType
  <2> HIDE DEF a
  <2>2. s \o << >> = s /\ a \o << >> = a
    BY <2>1
  <2>3. Splits(s, << >>, P)
    BY <2>2, SiftEmpty, Zenon DEF a, Splits
  <2> QED BY <2>3
<1>2. ASSUME NEW v \in Seq(S), NEW e \in S, v \in T PROVE Append(v, e) \in T
  BY <1>2, SplitsAppend
<1>3. t \in T
  <2> HIDE DEF T
  <2> QED BY <1>1, <1>2, Growth
<1>4. Splits(s, t, P)
  BY <1>3
<1> QED BY <1>4, Zenon DEF Splits

\* What is left of s: the elements in P, and none twice that was not.
Distinct(s) == \A i, j \in 1..Len(s) : s[i] = s[j] => i = j
Holds(s, x) == \E i \in 1..Len(s) : s[i] = x

LEMMA HoldsAppend ==
  ASSUME NEW S, NEW s \in Seq(S), NEW e \in S
  PROVE  /\ Len(Append(s, e)) = Len(s) + 1
         /\ \A x : Holds(Append(s, e), x) <=> Holds(s, x) \/ x = e
<1>1. /\ Len(Append(s, e)) = Len(s) + 1 /\ Append(s, e)[Len(s) + 1] = e
      /\ \A i \in 1..Len(s) : Append(s, e)[i] = s[i]
  OBVIOUS
<1>2. \A i \in 1..(Len(s) + 1) : i \in 1..Len(s) \/ i = Len(s) + 1
  OBVIOUS
<1> QED BY <1>1, <1>2 DEF Holds

LEMMA DistinctAppend ==
  ASSUME NEW S, NEW s \in Seq(S), NEW e \in S
  PROVE  Distinct(Append(s, e)) <=> Distinct(s) /\ ~Holds(s, e)
<1>1. /\ Len(Append(s, e)) = Len(s) + 1 /\ Append(s, e)[Len(s) + 1] = e
      /\ \A i \in 1..Len(s) : Append(s, e)[i] = s[i]
  OBVIOUS
<1>2. \A i \in 1..(Len(s) + 1) : i \in 1..Len(s) \/ i = Len(s) + 1
  OBVIOUS
<1>3. \A i \in 1..Len(s) : i \in 1..(Len(s) + 1) /\ i # Len(s) + 1
  OBVIOUS
<1>4. Len(s) + 1 \in 1..(Len(s) + 1)
  OBVIOUS
<1> QED BY <1>1, <1>2, <1>3, <1>4 DEF Holds, Distinct

LEMMA TailElements ==
  ASSUME NEW S, NEW s \in Seq(S), s # << >>
  PROVE  /\ \A x : Holds(s, x) <=> Holds(Tail(s), x) \/ x = Head(s)
         /\ Distinct(s) => Distinct(Tail(s)) /\ ~Holds(Tail(s), Head(s))
         /\ Len(Tail(s)) = Len(s) - 1
<1> DEFINE t == Tail(s)
<1>1. /\ Len(s) \in Nat /\ Len(s) > 0 /\ t \in Seq(S) /\ Len(t) = Len(s) - 1 /\ Head(s) = s[1]
      /\ \A i \in 1..Len(t) : t[i] = s[i + 1]
  OBVIOUS
<1> HIDE DEF t
<1>2. \A i \in 1..Len(s) : i = 1 \/ (i - 1 \in 1..Len(t) /\ s[i] = t[i - 1])
  BY <1>1
<1>3. \A i \in 1..Len(t) : i + 1 \in 1..Len(s) /\ t[i] = s[i + 1] /\ i + 1 # 1
  BY <1>1
<1>4. 1 \in 1..Len(s)
  BY <1>1
<1>5. \A x : Holds(s, x) <=> Holds(t, x) \/ x = Head(s)
  BY <1>1, <1>2, <1>3, <1>4 DEF Holds
<1>6. ASSUME Distinct(s) PROVE Distinct(t) /\ ~Holds(t, Head(s))
  <2>1. ~Holds(t, Head(s))
    BY <1>1, <1>3, <1>4, <1>6 DEF Distinct, Holds
  <2>2. Distinct(t)
    <3> SUFFICES ASSUME NEW i \in 1..Len(t), NEW j \in 1..Len(t), t[i] = t[j] PROVE i = j
      BY DEF Distinct
    <3>1. i + 1 = j + 1
      BY <1>3, <1>6 DEF Distinct
    <3> QED BY <3>1
  <2> QED BY <2>1, <2>2
<1> QED BY <1>1, <1>5, <1>6 DEF t

\* A set whose every element the sequence holds is no larger than it is long.
LEMMA HeldCardinality ==
  ASSUME NEW S, NEW s \in Seq(S), NEW C, \A x \in C : Holds(s, x)
  PROVE  IsFiniteSet(C) /\ Cardinality(C) \in Nat /\ Cardinality(C) <= Len(s)
<1> DEFINE R == {s[i] : i \in 1..Len(s)}  f == [i \in 1..Len(s) |-> s[i]]
<1>1. f \in Surjection(1..Len(s), R)
  BY DEF Surjection
<1> HIDE DEF f, R
<1>2. ExistsSurjection(1..Len(s), R)
  BY <1>1, Zenon DEF ExistsSurjection
<1>3. IsFiniteSet(R) /\ Cardinality(R) <= Len(s) /\ Len(s) \in Nat
  BY <1>2, FS_NatSurjection, FS_SurjCardinalityBound
<1>4. C \subseteq R
  BY DEF Holds, R
<1>5. IsFiniteSet(C) /\ Cardinality(C) <= Cardinality(R)
  BY <1>3, <1>4, FS_Subset
<1>6. Cardinality(C) \in Nat /\ Cardinality(R) \in Nat
  BY <1>3, <1>5, FS_CardinalityType
<1> QED BY <1>2, <1>3, <1>5, <1>6

SiftsWell(v, P) ==
    /\ Len(Sift(v, P)) <= Len(v)
    /\ \A x : Holds(Sift(v, P), x) <=> Holds(v, x) /\ x \in P
    /\ Distinct(v) => Distinct(Sift(v, P))

LEMMA SiftsWellAppend ==
  ASSUME NEW S, NEW s \in Seq(S), NEW e \in S, NEW P, SiftsWell(s, P)
  PROVE  SiftsWell(Append(s, e), P)
<1> DEFINE v == Sift(s, P)
<1>1. v \in Seq(S) /\ Sift(Append(s, e), P) = SiftNext(v, e, P)
  BY SiftType, SiftAppend
<1>2. Len(v) <= Len(s) /\ (\A x : Holds(v, x) <=> Holds(s, x) /\ x \in P)
      /\ (Distinct(s) => Distinct(v))
  BY DEF SiftsWell
<1> HIDE DEF v
<1>3. /\ Len(Append(s, e)) = Len(s) + 1 /\ Len(s) \in Nat /\ Len(v) \in Nat
      /\ \A x : Holds(Append(s, e), x) <=> Holds(s, x) \/ x = e
      /\ Distinct(Append(s, e)) <=> Distinct(s) /\ ~Holds(s, e)
  BY <1>1, HoldsAppend, DistinctAppend
<1>4. CASE e \notin P
  BY <1>1, <1>2, <1>3, <1>4 DEF SiftsWell, SiftNext
<1>5. CASE e \in P
  <2>1. /\ Len(Append(v, e)) = Len(v) + 1
        /\ \A x : Holds(Append(v, e), x) <=> Holds(v, x) \/ x = e
        /\ Distinct(Append(v, e)) <=> Distinct(v) /\ ~Holds(v, e)
    BY <1>1, HoldsAppend, DistinctAppend
  <2> QED BY <1>1, <1>2, <1>3, <1>5, <2>1 DEF SiftsWell, SiftNext
<1> QED BY <1>4, <1>5

LEMMA SiftElements ==
  ASSUME NEW S, NEW s \in Seq(S), NEW P
  PROVE  SiftsWell(s, P)
<1> DEFINE T == {v \in Seq(S) : SiftsWell(v, P)}
<1>1. << >> \in T
  <2> DEFINE v == << >>
  <2>1. v \in Seq(S) /\ Len(v) = 0
    OBVIOUS
  <2>2. Sift(v, P) = v
    BY SiftEmpty
  <2> HIDE DEF v
  <2>3. (\A x : ~Holds(v, x)) /\ Distinct(v)
    BY <2>1 DEF Holds, Distinct
  <2>4. v \in T
    BY <2>1, <2>2, <2>3 DEF SiftsWell
  <2> QED BY <2>4 DEF v
<1>2. ASSUME NEW v \in Seq(S), NEW e \in S, v \in T PROVE Append(v, e) \in T
  BY <1>2, SiftsWellAppend
<1>3. s \in T
  <2> HIDE DEF T
  <2> QED BY <1>1, <1>2, Growth
<1> QED BY <1>3

\* v has the elements of s that are in P, in their order, p their places.
Picks(p, v, s, P) ==
    /\ p \in [1..Len(v) -> 1..Len(s)]
    /\ \A i, j \in 1..Len(v) : i < j => p[i] < p[j]
    /\ \A i \in 1..Len(v) : v[i] = s[p[i]]
    /\ \A k \in 1..Len(s) : s[k] \in P <=> \E i \in 1..Len(v) : p[i] = k

LEMMA PicksNext ==
  ASSUME NEW S, NEW v \in Seq(S), NEW s \in Seq(S), NEW e \in S, NEW P, NEW p, Picks(p, v, s, P)
  PROVE  \E q : Picks(q, SiftNext(v, e, P), Append(s, e), P)
<1> DEFINE t == Append(s, e)  w == Append(v, e)  n == Len(s)  m == Len(v)
           q == [i \in 1..(m + 1) |-> IF i = m + 1 THEN n + 1 ELSE p[i]]
<1>1. /\ Len(t) = n + 1 /\ t[n + 1] = e /\ \A i \in 1..n : t[i] = s[i]
      /\ Len(w) = m + 1 /\ w[m + 1] = e /\ \A i \in 1..m : w[i] = v[i]
      /\ n \in Nat /\ m \in Nat
  OBVIOUS
<1> HIDE DEF t, w
<1>2. /\ p \in [1..m -> 1..n]
      /\ \A i, j \in 1..m : i < j => p[i] < p[j]
      /\ \A i \in 1..m : v[i] = s[p[i]]
      /\ \A k \in 1..n : s[k] \in P <=> \E i \in 1..m : p[i] = k
  BY DEF Picks
<1> HIDE DEF n, m
<1>3. \A k \in 1..(n + 1) : k \in 1..n \/ k = n + 1
  BY <1>1
<1>4. CASE e \notin P
  <2>1. /\ p \in [1..m -> 1..(n + 1)]
        /\ \A i \in 1..m : p[i] # n + 1 /\ v[i] = t[p[i]]
    BY <1>1, <1>2
  <2>2. \A k \in 1..(n + 1) : t[k] \in P <=> \E i \in 1..m : p[i] = k
    BY <1>1, <1>2, <1>3, <1>4, <2>1
  <2>3. Picks(p, v, t, P)
    BY <1>1, <1>2, <2>1, <2>2 DEF Picks, m
  <2>4. SiftNext(v, e, P) = v
    BY <1>4 DEF SiftNext
  <2> QED BY <2>3, <2>4, Zenon DEF t
<1>5. CASE e \in P
  <2>1. /\ q \in [1..(m + 1) -> 1..(n + 1)]
        /\ q[m + 1] = n + 1
        /\ \A i \in 1..m : q[i] = p[i] /\ q[i] \in 1..n
    BY <1>1, <1>2
  <2> HIDE DEF q
  <2>2. \A k \in 1..(m + 1) : k \in 1..m \/ k = m + 1
    BY <1>1
  <2>3. \A i, j \in 1..(m + 1) : i < j => q[i] < q[j]
    <3> SUFFICES ASSUME NEW i \in 1..(m + 1), NEW j \in 1..(m + 1), i < j PROVE q[i] < q[j]
      OBVIOUS
    <3>1. i \in 1..m
      BY <1>1
    <3>2. CASE j \in 1..m
      BY <1>2, <2>1, <3>1, <3>2
    <3>3. CASE j = m + 1
      BY <1>1, <2>1, <3>1, <3>3
    <3> QED BY <2>2, <3>2, <3>3
  <2>4. ASSUME NEW i \in 1..(m + 1) PROVE w[i] = t[q[i]]
    <3>1. CASE i \in 1..m
      BY <1>1, <1>2, <2>1, <3>1
    <3>2. CASE i = m + 1
      BY <1>1, <2>1, <3>2
    <3> QED BY <2>2, <3>1, <3>2
  <2>5. \A k \in 1..(n + 1) : t[k] \in P <=> \E i \in 1..(m + 1) : q[i] = k
    <3>1. t[n + 1] \in P /\ \E i \in 1..(m + 1) : q[i] = n + 1
      BY <1>1, <1>5, <2>1
    <3>2. ASSUME NEW k \in 1..n PROVE t[k] \in P <=> \E i \in 1..(m + 1) : q[i] = k
      <4>1. k # n + 1
        BY <1>1
      <4>2. (\E i \in 1..(m + 1) : q[i] = k) <=> \E i \in 1..m : q[i] = k
        BY <1>1, <2>1, <2>2, <4>1
      <4> QED BY <1>1, <1>2, <2>1, <4>2
    <3> QED BY <1>3, <3>1, <3>2
  <2>6. Picks(q, w, t, P)
    BY <1>1, <2>1, <2>3, <2>4, <2>5 DEF Picks
  <2>7. SiftNext(v, e, P) = w
    BY <1>5 DEF SiftNext, w
  <2> QED BY <2>6, <2>7, Zenon DEF t
<1> QED BY <1>4, <1>5

\* Sift keeps the elements in P, each from a place of its own, in their order.
LEMMA SiftPlaces ==
  ASSUME NEW S, NEW s \in Seq(S), NEW P
  PROVE  \E p : Picks(p, Sift(s, P), s, P)
<1> DEFINE T == {v \in Seq(S) : \E p : Picks(p, Sift(v, P), v, P)}
<1>1. << >> \in T
  <2> DEFINE v == << >>
  <2>1. v \in Seq(S) /\ Len(v) = 0 /\ v \in [1..0 -> 1..0]
    OBVIOUS
  <2>2. Sift(v, P) = v
    BY SiftEmpty
  <2> HIDE DEF v
  <2>3. Picks(v, v, v, P)
    BY <2>1 DEF Picks
  <2>4. v \in T
    BY <2>1, <2>2, <2>3, Zenon
  <2> QED BY <2>4 DEF v
<1>2. ASSUME NEW v \in Seq(S), NEW e \in S, v \in T PROVE Append(v, e) \in T
  <2>1. PICK p : Picks(p, Sift(v, P), v, P)
    BY <1>2
  <2>2. Sift(v, P) \in Seq(S) /\ Sift(Append(v, e), P) = SiftNext(Sift(v, P), e, P)
    BY SiftType, SiftAppend
  <2>3. \E q : Picks(q, SiftNext(Sift(v, P), e, P), Append(v, e), P)
    BY <2>1, <2>2, PicksNext
  <2>4. Append(v, e) \in Seq(S)
    OBVIOUS
  <2> QED BY <2>2, <2>3, <2>4, Zenon
<1>3. s \in T
  <2> HIDE DEF T
  <2> QED BY <1>1, <1>2, Growth
<1> QED BY <1>3

-----------------------------------------------------------------------------
(* Folds.  A recursive function of the model that goes through a sequence, and *)
(* whose steps stay in V, ends with FoldOf of them.                            *)

FoldStep(f, step, v0, s, i) == IF i = 0 THEN v0 ELSE step[<<f[i - 1], s[i]>>]
FoldOf(step, v0, s) ==
    LET upto == CHOOSE f : f = [i \in 0..Len(s) |-> FoldStep(f, step, v0, s, i)]
    IN upto[Len(s)]

Stepping(step, V, S) == step \in [V \X S -> V]
\* g makes the steps, as long as it is in V.
Folds(g, V, step, v0, s) ==
    g[0] = v0 /\ \A n \in 0..(Len(s) - 1) : g[n] \in V => g[n + 1] = step[<<g[n], s[n + 1]>>]
Recursive(g, step, v0, s) == g = [i \in 0..Len(s) |-> FoldStep(g, step, v0, s, i)]

LEMMA RecursiveFolds ==
  ASSUME NEW V, NEW S, NEW s \in Seq(S), NEW v0, NEW step, NEW g, Recursive(g, step, v0, s)
  PROVE  Folds(g, V, step, v0, s)
<1>1. /\ 0 \in 0..Len(s)
      /\ \A n \in 0..(Len(s) - 1) : n + 1 \in 0..Len(s) /\ n + 1 # 0 /\ (n + 1) - 1 = n
  OBVIOUS
<1>2. \A i \in 0..Len(s) : g[i] = FoldStep(g, step, v0, s, i)
  BY Zenon DEF Recursive
<1>3. g[0] = v0
  BY <1>1, <1>2, Zenon DEF FoldStep
<1>4. ASSUME NEW n \in 0..(Len(s) - 1) PROVE g[n + 1] = step[<<g[n], s[n + 1]>>]
  BY <1>1, <1>2, Zenon DEF FoldStep
<1> QED BY <1>3, <1>4, Zenon DEF Folds

LEMMA FoldDefined ==
  ASSUME NEW V, NEW v0, v0 \in V, NEW S, NEW step, Stepping(step, V, S), NEW s \in Seq(S)
  PROVE  \E g \in [0..Len(s) -> V] : Recursive(g, step, v0, s)
<1> DEFINE m == Len(s)
           next == [i \in 1..m |-> [v \in V |-> step[<<v, s[i]>>]]]
<1>1. m \in Nat /\ \A i \in 1..m : s[i] \in S
  OBVIOUS
<1> HIDE DEF m
<1>2. ASSUME NEW i \in 1..m, NEW v \in V PROVE step[<<v, s[i]>>] \in V
  <2>1. <<v, s[i]>> \in V \X S
    BY <1>1
  <2> QED BY <2>1 DEF Stepping
<1>3. next \in [1..m -> [V -> V]]
  BY <1>2
<1>4. \A i \in 1..m, v \in V : next[i][v] = step[<<v, s[i]>>]
  OBVIOUS
<1> HIDE DEF next
<1>5. PICK h \in [0..m -> V] : StepsTo(h, m, v0, next)
  <2>1. m \in Nat
    BY <1>1
  <2> QED BY <1>3, <2>1, Steps, Zenon
<1>6. ASSUME NEW i \in 0..m PROVE h[i] = FoldStep(h, step, v0, s, i)
  <2>1. CASE i = 0
    BY <1>5, <2>1 DEF FoldStep, StepsTo
  <2>2. CASE i # 0
    <3>1. i \in 1..m /\ h[i - 1] \in V
      BY <1>1, <2>2
    <3>2. next[i][h[i - 1]] = step[<<h[i - 1], s[i]>>]
      BY <1>4, <3>1
    <3>3. h[i] = next[i][h[i - 1]]
      BY <1>5, <2>2 DEF StepsTo
    <3> QED BY <2>2, <3>2, <3>3, Zenon DEF FoldStep
  <2> QED BY <2>1, <2>2
<1>7. h = [i \in 0..m |-> h[i]]
  OBVIOUS
<1>8. h = [i \in 0..m |-> FoldStep(h, step, v0, s, i)]
  BY <1>6, <1>7
<1> QED BY <1>8, Zenon DEF Recursive, m

\* Whatever makes the same steps ends with the same value.
LEMMA FoldOnce ==
  ASSUME NEW V, NEW v0, NEW S, NEW step, NEW s \in Seq(S),
         NEW g \in [0..Len(s) -> V], Folds(g, V, step, v0, s), NEW c, Folds(c, V, step, v0, s)
  PROVE  c[Len(s)] = g[Len(s)] /\ g[Len(s)] \in V
<1> DEFINE T == {n \in Nat : n <= Len(s) => c[n] = g[n]}
<1>1. 0 \in T
  BY DEF Folds
<1>2. ASSUME NEW n \in Nat, n \in T PROVE n + 1 \in T
  <2> SUFFICES ASSUME n + 1 <= Len(s) PROVE c[n + 1] = g[n + 1]
    OBVIOUS
  <2>1. c[n] = g[n] /\ n \in 0..(Len(s) - 1) /\ n \in 0..Len(s)
    BY <1>2
  <2>2. g[n] \in V
    BY <2>1
  <2>3. c[n + 1] = step[<<c[n], s[n + 1]>>] /\ g[n + 1] = step[<<g[n], s[n + 1]>>]
    BY <2>1, <2>2, Zenon DEF Folds
  <2> QED BY <2>1, <2>3, Zenon
<1>3. Len(s) \in T
  <2> HIDE DEF T
  <2>1. Len(s) \in Nat
    OBVIOUS
  <2> QED BY <1>1, <1>2, <2>1, Induction
<1>4. Len(s) \in 0..Len(s)
  OBVIOUS
<1> QED BY <1>3, <1>4

LEMMA FoldIs ==
  ASSUME NEW V, NEW v0, v0 \in V, NEW S, NEW step, Stepping(step, V, S), NEW s \in Seq(S),
         NEW c, Folds(c, V, step, v0, s)
  PROVE  c[Len(s)] = FoldOf(step, v0, s) /\ c[Len(s)] \in V
<1>1. PICK g \in [0..Len(s) -> V] : Recursive(g, step, v0, s)
  BY FoldDefined, Zenon
<1> DEFINE upto == CHOOSE f : Recursive(f, step, v0, s)
<1>2. Recursive(upto, step, v0, s)
  BY <1>1, Zenon
<1>3. FoldOf(step, v0, s) = upto[Len(s)]
  BY Zenon DEF FoldOf, Recursive
<1> HIDE DEF upto
<1>4. Folds(g, V, step, v0, s)
  BY <1>1, RecursiveFolds, Zenon
<1>5. upto[Len(s)] = g[Len(s)] /\ g[Len(s)] \in V
  <2>1. Folds(upto, V, step, v0, s)
    BY <1>2, RecursiveFolds, Zenon
  <2> QED BY <1>4, <2>1, FoldOnce
<1>6. c[Len(s)] = g[Len(s)] /\ g[Len(s)] \in V
  BY <1>4, FoldOnce
<1> QED BY <1>3, <1>5, <1>6, Zenon

LEMMA FoldType ==
  ASSUME NEW V, NEW v0, v0 \in V, NEW S, NEW step, Stepping(step, V, S), NEW s \in Seq(S)
  PROVE  FoldOf(step, v0, s) \in V
<1>1. PICK g \in [0..Len(s) -> V] : Recursive(g, step, v0, s)
  BY FoldDefined, Zenon
<1>2. Folds(g, V, step, v0, s)
  BY <1>1, RecursiveFolds, Zenon
<1>3. g[Len(s)] = FoldOf(step, v0, s) /\ g[Len(s)] \in V
  BY <1>2, FoldIs, Zenon
<1> QED BY <1>3, Zenon

LEMMA FoldEmpty ==
  ASSUME NEW V, NEW v0, v0 \in V, NEW S, NEW step, Stepping(step, V, S)
  PROVE  FoldOf(step, v0, << >>) = v0
<1> DEFINE s == << >>  c == [i \in {0} |-> v0]
<1>1. s \in Seq(S) /\ Len(s) = 0 /\ c[0] = v0
  OBVIOUS
<1> HIDE DEF s, c
<1>2. Folds(c, V, step, v0, s)
  BY <1>1 DEF Folds
<1>3. c[Len(s)] = FoldOf(step, v0, s) /\ c[Len(s)] \in V
  <2>1. s \in Seq(S)
    BY <1>1
  <2> QED BY <1>2, <2>1, FoldIs, Zenon
<1> QED BY <1>1, <1>3, Zenon DEF s

LEMMA FoldAppend ==
  ASSUME NEW V, NEW v0, v0 \in V, NEW S, NEW step, Stepping(step, V, S), NEW s \in Seq(S), NEW e \in S
  PROVE  FoldOf(step, v0, Append(s, e)) = step[<<FoldOf(step, v0, s), e>>]
<1> DEFINE t == Append(s, e)
<1>1. t \in Seq(S) /\ Len(t) = Len(s) + 1 /\ t[Len(s) + 1] = e /\ \A i \in 1..Len(s) : t[i] = s[i]
  OBVIOUS
<1> HIDE DEF t
<1>2. PICK g \in [0..Len(t) -> V] : Recursive(g, step, v0, t)
  BY <1>1, FoldDefined, Zenon
<1>3. Folds(g, V, step, v0, t)
  BY <1>1, <1>2, RecursiveFolds, Zenon
<1>4. Folds(g, V, step, v0, s)
  <2>1. \A n \in 0..(Len(s) - 1) : n \in 0..(Len(t) - 1) /\ t[n + 1] = s[n + 1]
    BY <1>1
  <2> QED BY <1>3, <2>1, Zenon DEF Folds
<1>5. g[Len(t)] = FoldOf(step, v0, t) /\ g[Len(t)] \in V
  <2>1. t \in Seq(S)
    BY <1>1
  <2> QED BY <1>3, <2>1, FoldIs, Zenon
<1>8. g[Len(s)] = FoldOf(step, v0, s) /\ g[Len(s)] \in V
  BY <1>4, FoldIs, Zenon
<1>6. Len(s) \in 0..(Len(t) - 1)
  BY <1>1
<1>7. g[Len(s) + 1] = step[<<g[Len(s)], t[Len(s) + 1]>>]
  BY <1>3, <1>6, <1>8, Zenon DEF Folds
<1> QED BY <1>1, <1>5, <1>7, <1>8, Zenon DEF t

(***************************************************************************)
(* Sequences in two parts                                                  *)
(***************************************************************************)
LEMMA ConcatAppend ==
  ASSUME NEW S, NEW a \in Seq(S), NEW b \in Seq(S), NEW e \in S
  PROVE  a \o Append(b, e) = Append(a \o b, e) /\ Append(b, e) \in Seq(S) /\ a \o b \in Seq(S)
OBVIOUS

LEMMA ConcatParts ==
  ASSUME NEW S, NEW a \in Seq(S), NEW b \in Seq(S)
  PROVE  /\ SubSeq(a \o b, 1, Len(a)) = a
         /\ SubSeq(a \o b, Len(a) + 1, Len(a \o b)) = b
         /\ a \o b \in Seq(S) /\ Len(a \o b) = Len(a) + Len(b) /\ Len(a) \in Nat /\ Len(b) \in Nat
OBVIOUS

LEMMA SplitAt ==
  ASSUME NEW S, NEW s \in Seq(S), NEW k \in 1..Len(s)
  PROVE  /\ s = Append(SubSeq(s, 1, k - 1), s[k]) \o SubSeq(s, k + 1, Len(s))
         /\ SubSeq(s, 1, k - 1) \in Seq(S) /\ Len(SubSeq(s, 1, k - 1)) = k - 1
         /\ SubSeq(s, k + 1, Len(s)) \in Seq(S) /\ Len(SubSeq(s, k + 1, Len(s))) = Len(s) - k
         /\ s[k] \in S
<1> DEFINE a == SubSeq(s, 1, k - 1)  b == SubSeq(s, k + 1, Len(s))  t == Append(a, s[k])
<1>1. /\ a \in Seq(S) /\ Len(a) = k - 1 /\ s[k] \in S /\ \A i \in 1..(k - 1) : a[i] = s[i]
  OBVIOUS
<1>2. /\ b \in Seq(S) /\ Len(b) = Len(s) - k /\ \A i \in 1..(Len(s) - k) : b[i] = s[i + k]
  OBVIOUS
<1> HIDE DEF a, b
<1>3. t = SubSeq(s, 1, k)
  <2>1. 1 \in 1..Len(s) /\ k \in 1..Len(s)
    OBVIOUS
  <2>2. SubSeq(s, 1, k) = SubSeq(s, 1, k - 1) \o <<s[k]>>
    BY <2>1, SubSeqRecursiveSecond
  <2>3. a \o <<s[k]>> = t
    BY <1>1
  <2> QED BY <2>2, <2>3, Zenon DEF a
<1>6. SubSeq(s, 1, k) \o SubSeq(s, k + 1, Len(s)) = s
  <2>1. 1 \in 1..(Len(s) + 1) /\ k \in (1 - 1)..Len(s) /\ Len(s) \in k..Len(s)
    OBVIOUS
  <2>2. SubSeq(s, 1, k) \o SubSeq(s, k + 1, Len(s)) = SubSeq(s, 1, Len(s))
    BY <2>1, ConcatAdjacentSubSeq
  <2> QED BY <2>2, SubSeqFull, Zenon
<1> QED BY <1>1, <1>2, <1>3, <1>6, Zenon DEF a, b, t

LEMMA ConcatTwo ==
  ASSUME NEW S, NEW v \in Seq(S), NEW w \in Seq(S), NEW x \in S, NEW y \in S
  PROVE  v \o Append(Append(w, x), y) = Append(Append(v \o w, x), y)
<1>1. v \o Append(w, x) = Append(v \o w, x) /\ Append(w, x) \in Seq(S) /\ v \o w \in Seq(S)
  OBVIOUS
<1> DEFINE u == Append(w, x)
<1>2. u \in Seq(S)
  BY <1>1
<1> HIDE DEF u
<1>3. v \o Append(u, y) = Append(v \o u, y) /\ Append(u, y) \in Seq(S) /\ v \o u \in Seq(S)
  BY <1>2, ConcatAppend, Zenon
<1> QED BY <1>1, <1>3, Zenon DEF u

LEMMA TwoMore ==
  ASSUME NEW S, NEW v \in Seq(S), NEW x \in S, NEW y \in S
  PROVE  Append(Append(v, x), y) = v \o <<x, y>> /\ <<x, y>> \in Seq(S) /\ Len(<<x, y>>) = 2
OBVIOUS

\* u is s followed by t, place by place.
Joining(u, s, t, S) ==
    /\ u \in Seq(S) /\ Len(u) = Len(s) + Len(t)
    /\ \A i \in 1..Len(s) : u[i] = s[i]
    /\ \A i \in 1..Len(t) : u[i + Len(s)] = t[i]

LEMMA PlacesJoined ==
  ASSUME NEW S, NEW s \in Seq(S), NEW t \in Seq(S)
  PROVE  Joining(s \o t, s, t, S)
<1> DEFINE u == s \o t  m == Len(s)  n == Len(t)
<1>1. /\ u \in Seq(S) /\ Len(u) = Len(s) + Len(t)
      /\ \A i \in 1..Len(s) + Len(t) : u[i] = IF i <= Len(s) THEN s[i] ELSE t[i - Len(s)]
  BY ConcatProperties, Zenon
<1>2. m \in Nat /\ n \in Nat
  OBVIOUS
<1> HIDE DEF u
<1>3. \A i \in 1..m : u[i] = s[i]
  BY <1>1, <1>2
<1>4. \A i \in 1..n : u[i + m] = t[i]
  BY <1>1, <1>2
<1> QED BY <1>1, <1>3, <1>4, Zenon DEF u, m, n, Joining

LEMMA FoldConcat ==
  ASSUME NEW V, NEW v0, v0 \in V, NEW S, NEW step, Stepping(step, V, S), NEW s \in Seq(S), NEW t \in Seq(S)
  PROVE  FoldOf(step, v0, s \o t) = FoldOf(step, FoldOf(step, v0, s), t)
<1> DEFINE w0 == FoldOf(step, v0, s)
           T == {v \in Seq(S) : FoldOf(step, v0, s \o v) = FoldOf(step, w0, v)}
<1>1. w0 \in V
  BY FoldType
<1> HIDE DEF w0
<1>2. << >> \in T
  <2>1. s \o << >> = s /\ << >> \in Seq(S)
    OBVIOUS
  <2>2. FoldOf(step, w0, << >>) = w0
    BY <1>1, FoldEmpty
  <2> QED BY <2>1, <2>2, Zenon DEF w0
<1>3. ASSUME NEW v \in Seq(S), NEW e \in S, v \in T PROVE Append(v, e) \in T
  <2> DEFINE u == s \o v
  <2>1. u \in Seq(S) /\ s \o Append(v, e) = Append(u, e) /\ Append(v, e) \in Seq(S)
    OBVIOUS
  <2> HIDE DEF u
  <2>2. FoldOf(step, v0, Append(u, e)) = step[<<FoldOf(step, v0, u), e>>]
    BY <2>1, FoldAppend
  <2>3. FoldOf(step, w0, Append(v, e)) = step[<<FoldOf(step, w0, v), e>>]
    BY <1>1, FoldAppend
  <2>4. FoldOf(step, v0, u) = FoldOf(step, w0, v)
    BY <1>3 DEF u
  <2> QED BY <2>1, <2>2, <2>3, <2>4, Zenon
<1>4. t \in T
  <2> HIDE DEF T
  <2> QED BY <1>2, <1>3, Growth
<1> QED BY <1>4 DEF w0

LEMMA LastOut ==
  ASSUME NEW S, NEW n \in Nat, NEW f \in [1..(n + 1) -> S]
  PROVE  /\ [i \in 1..n |-> f[i]] \in Seq(S) /\ f \in Seq(S) /\ f[n + 1] \in S
         /\ f = Append([i \in 1..n |-> f[i]], f[n + 1])
<1> DEFINE g == [i \in 1..n |-> f[i]]  h == Append(g, f[n + 1])
<1>1. g \in Seq(S) /\ Len(g) = n /\ f[n + 1] \in S
  OBVIOUS
<1>2. f \in Seq(S) /\ Len(f) = n + 1
  OBVIOUS
<1>3. \A i \in 1..n : g[i] = f[i]
  OBVIOUS
<1> HIDE DEF g
<1>4. h \in Seq(S) /\ Len(h) = n + 1 /\ h[n + 1] = f[n + 1] /\ \A i \in 1..n : h[i] = g[i]
  BY <1>1
<1> HIDE DEF h
<1>5. \A i \in 1..(n + 1) : h[i] = f[i]
  <2>1. \A i \in 1..(n + 1) : i \in 1..n \/ i = n + 1
    OBVIOUS
  <2> QED BY <1>3, <1>4, <2>1, Zenon
<1>6. f = h
  BY <1>2, <1>4, <1>5, SeqEqual
<1> QED BY <1>1, <1>2, <1>6 DEF g, h

LEMMA FoldOne ==
  ASSUME NEW V, NEW v0, v0 \in V, NEW S, NEW step, Stepping(step, V, S), NEW e \in S
  PROVE  FoldOf(step, v0, <<e>>) = step[<<v0, e>>]
<1> DEFINE none == << >>
<1>1. none \in Seq(S) /\ <<e>> = Append(none, e)
  OBVIOUS
<1>2. FoldOf(step, v0, none) = v0
  BY FoldEmpty
<1> HIDE DEF none
<1>3. FoldOf(step, v0, Append(none, e)) = step[<<FoldOf(step, v0, none), e>>]
  BY <1>1, FoldAppend
<1> QED BY <1>1, <1>2, <1>3, Zenon

\* A state that no line of a text changes is the one after the text.
LEMMA FoldStays ==
  ASSUME NEW V, NEW v0, v0 \in V, NEW S, NEW step, Stepping(step, V, S), NEW s \in Seq(S),
         \A i \in 1..Len(s) : step[<<v0, s[i]>>] = v0
  PROVE  FoldOf(step, v0, s) = v0
<1> DEFINE Q == {e \in S : step[<<v0, e>>] = v0}
           T == {v \in Seq(Q) : v \in Seq(S) /\ FoldOf(step, v0, v) = v0}
<1>1. << >> \in T
  <2>1. << >> \in Seq(Q) /\ << >> \in Seq(S)
    OBVIOUS
  <2>2. FoldOf(step, v0, << >>) = v0
    BY FoldEmpty
  <2> QED BY <2>1, <2>2, Zenon
<1>2. ASSUME NEW v \in Seq(Q), NEW e \in Q, v \in T PROVE Append(v, e) \in T
  <2>1. v \in Seq(S) /\ e \in S /\ step[<<v0, e>>] = v0 /\ FoldOf(step, v0, v) = v0
    BY <1>2
  <2>2. Append(v, e) \in Seq(Q) /\ Append(v, e) \in Seq(S)
    BY <2>1
  <2>3. FoldOf(step, v0, Append(v, e)) = step[<<FoldOf(step, v0, v), e>>]
    BY <2>1, FoldAppend
  <2> QED BY <2>1, <2>2, <2>3, Zenon
<1>3. s \in Seq(Q)
  <2>1. \A i \in 1..Len(s) : s[i] \in Q
    OBVIOUS
  <2>2. s = [i \in 1..Len(s) |-> s[i]] /\ Len(s) \in Nat
    OBVIOUS
  <2> HIDE DEF Q
  <2> QED BY <2>1, <2>2
<1>4. s \in T
  <2> HIDE DEF T, Q
  <2> QED BY <1>1, <1>2, <1>3, Growth
<1> QED BY <1>4

LEMMA SiftAgrees ==
  ASSUME NEW S, NEW s \in Seq(S), NEW P, NEW Q, \A i \in 1..Len(s) : s[i] \in P <=> s[i] \in Q
  PROVE  Sift(s, P) = Sift(s, Q)
<1> DEFINE R == {e \in S : e \in P <=> e \in Q}  T == {v \in Seq(R) : Sift(v, P) = Sift(v, Q)}
<1>1. s \in Seq(R)
  <2>1. \A i \in 1..Len(s) : s[i] \in R
    OBVIOUS
  <2>2. s = [i \in 1..Len(s) |-> s[i]] /\ Len(s) \in Nat
    OBVIOUS
  <2> HIDE DEF R
  <2> QED BY <2>1, <2>2
<1>2. << >> \in T
  <2>1. << >> \in Seq(R)
    OBVIOUS
  <2> QED BY <2>1, SiftEmpty, Zenon
<1>3. ASSUME NEW v \in Seq(R), NEW e \in R, v \in T PROVE Append(v, e) \in T
  <2>1. Sift(Append(v, e), P) = SiftNext(Sift(v, P), e, P) /\ Sift(Append(v, e), Q) = SiftNext(Sift(v, Q), e, Q)
    BY SiftAppend, Zenon
  <2>2. (e \in P <=> e \in Q) /\ Sift(v, P) = Sift(v, Q)
    BY <1>3
  <2>3. Sift(Append(v, e), P) = Sift(Append(v, e), Q)
    BY <2>1, <2>2, Zenon DEF SiftNext
  <2>4. Append(v, e) \in Seq(R)
    OBVIOUS
  <2> QED BY <2>3, <2>4, Zenon
<1>4. s \in T
  <2> HIDE DEF T, R
  <2> QED BY <1>1, <1>2, <1>3, Growth
<1> QED BY <1>4

LEMMA SiftOne ==
  ASSUME NEW e, NEW P
  PROVE  /\ e \in P => Sift(<<e>>, P) = <<e>>
         /\ e \notin P => Sift(<<e>>, P) = << >>
<1> DEFINE none == << >>
<1>1. none \in Seq({e}) /\ Append(none, e) = <<e>> /\ e \in {e}
  OBVIOUS
<1>2. Sift(none, P) = none
  BY SiftEmpty
<1> HIDE DEF none
<1>3. Sift(Append(none, e), P) = SiftNext(Sift(none, P), e, P)
  BY <1>1, SiftAppend
<1>4. Sift(<<e>>, P) = SiftNext(none, e, P)
  BY <1>1, <1>2, <1>3, Zenon
<1>5. /\ e \in P => Sift(<<e>>, P) = Append(none, e)
      /\ e \notin P => Sift(<<e>>, P) = none
  BY <1>4, Zenon DEF SiftNext
<1> QED BY <1>1, <1>5, Zenon DEF none

\* What an append is, in one word.
Appended(t, S, s, e) ==
    /\ t \in Seq(S) /\ Len(t) = Len(s) + 1 /\ t[Len(s) + 1] = e
    /\ \A i \in 1..Len(s) : t[i] = s[i]

LEMMA Appends ==
  ASSUME NEW S, NEW s \in Seq(S), NEW e \in S
  PROVE  Appended(Append(s, e), S, s, e)
<1> DEFINE t == Append(s, e)
<1>1. t \in Seq(S) /\ Len(t) = Len(s) + 1 /\ t[Len(s) + 1] = e /\ \A i \in 1..Len(s) : t[i] = s[i]
  BY AppendProperties
<1> HIDE DEF t
<1> QED BY <1>1, Zenon DEF Appended, t

LEMMA TwoOnes ==
  ASSUME NEW S, NEW x \in S, NEW y \in S
  PROVE  <<x>> \o <<y>> = <<x, y>>
<1> DEFINE a == <<x>>
<1>1. a \in Seq(S) /\ Len(a) = 1 /\ a[1] = x
  OBVIOUS
<1> DEFINE b == <<x, y>>  c == Append(a, y)
<1>3. b \in Seq(S) /\ Len(b) = 2 /\ b[1] = x /\ b[2] = y
  OBVIOUS
<1> HIDE DEF a, b
<1>4. c \in Seq(S) /\ Len(c) = 2 /\ c[1] = x /\ c[2] = y
  <2>1. c \in Seq(S) /\ Len(c) = Len(a) + 1 /\ c[Len(a) + 1] = y /\ \A i \in 1..Len(a) : c[i] = a[i]
    <3>1. Appended(c, S, a, y)
      BY <1>1, Appends, Zenon
    <3> QED BY <3>1, Zenon DEF Appended
  <2> HIDE DEF c
  <2>2. Len(a) + 1 = 2 /\ 1 \in 1..Len(a)
    BY <1>1
  <2> QED BY <1>1, <2>1, <2>2, Zenon
<1> HIDE DEF c
<1>5. c = b
  <2>1. \A i \in 1..2 : c[i] = b[i]
    BY <1>3, <1>4
  <2> QED BY <1>3, <1>4, <2>1, SeqEqual
<1>2. Append(a, y) = a \o <<y>>
  BY <1>1, AppendIsConcat
<1> QED BY <1>2, <1>5, Zenon DEF a, b, c

(***************************************************************************)
(* FlattenSeq                                                              *)
(***************************************************************************)
Concats(S) == [p \in Seq(S) \X Seq(S) |-> p[1] \o p[2]]
Flattens(f, ss) == f = [i \in 1..Len(ss) |-> IF i = 1 THEN ss[i] ELSE f[i - 1] \o ss[i]]

LEMMA ConcatsStep ==
  ASSUME NEW S
  PROVE  /\ Stepping(Concats(S), Seq(S), Seq(S)) /\ << >> \in Seq(S)
         /\ \A u, v \in Seq(S) : Concats(S)[<<u, v>>] = u \o v
<1>1. \A u, v \in Seq(S) : u \o v \in Seq(S)
  BY ConcatProperties
<1>2. \A p \in Seq(S) \X Seq(S) : p[1] \in Seq(S) /\ p[2] \in Seq(S)
  OBVIOUS
<1>3. \A p \in Seq(S) \X Seq(S) : p[1] \o p[2] \in Seq(S)
  BY <1>1, <1>2, Zenon
<1>4. \A u, v \in Seq(S) : <<u, v>> \in Seq(S) \X Seq(S) /\ <<u, v>>[1] = u /\ <<u, v>>[2] = v
  OBVIOUS
<1>5. Stepping(Concats(S), Seq(S), Seq(S))
  BY <1>3, Zenon DEF Stepping, Concats
<1>6. \A u, v \in Seq(S) : Concats(S)[<<u, v>>] = u \o v
  BY <1>4, Zenon DEF Concats
<1>7. << >> \in Seq(S)
  OBVIOUS
<1> QED BY <1>5, <1>6, <1>7

Joins(step, V, v0) ==
    /\ v0 = << >> /\ v0 \in V /\ Stepping(step, V, V)
    /\ \A u, v \in V : step[<<u, v>>] = u \o v
    /\ \A v \in V : v0 \o v = v

LEMMA FlattenFolds ==
  ASSUME NEW V, NEW step, NEW v0, Joins(step, V, v0), NEW ss \in Seq(V)
  PROVE  FlattenSeq(ss) = FoldOf(step, v0, ss)
<1>1. v0 \in V /\ Stepping(step, V, V) /\ (\A u, v \in V : step[<<u, v>>] = u \o v) /\ \A v \in V : v0 \o v = v
  BY Zenon DEF Joins
<1>2. ss \in Seq(V)
  OBVIOUS
<1>3. PICK g \in [0..Len(ss) -> V] : Recursive(g, step, v0, ss)
  BY <1>1, <1>2, FoldDefined, Zenon
<1>4. Folds(g, V, step, v0, ss)
  BY <1>2, <1>3, RecursiveFolds, Zenon
<1>5. g[Len(ss)] = FoldOf(step, v0, ss) /\ g[Len(ss)] \in V
  BY <1>1, <1>2, <1>4, FoldIs, Zenon
<1>6. /\ g[0] = v0
      /\ \A n \in 0..(Len(ss) - 1) : g[n + 1] = g[n] \o ss[n + 1]
  <2>1. ASSUME NEW n \in 0..(Len(ss) - 1) PROVE g[n + 1] = g[n] \o ss[n + 1]
    <3>1. n \in 0..Len(ss) /\ n + 1 \in 1..Len(ss)
      BY <1>2
    <3>5. g[n] \in V /\ ss[n + 1] \in V
      BY <1>2, <3>1
    <3>2. g[n + 1] = step[<<g[n], ss[n + 1]>>]
      BY <1>4, <3>5, Zenon DEF Folds
    <3> QED BY <1>1, <3>2, <3>5, Zenon
  <2> QED BY <1>4, <2>1, Zenon DEF Folds
<1>7. CASE Len(ss) = 0
  <2>1. ss = << >> /\ FlattenSeq(ss) = ss
    BY <1>2, <1>7 DEF FlattenSeq
  <2>2. g[Len(ss)] = v0
    BY <1>6, <1>7
  <2> QED BY <1>5, <2>1, <2>2, Zenon DEF Joins
<1>8. CASE Len(ss) # 0
  <2> DEFINE h == [i \in 1..Len(ss) |-> g[i]]
             c == CHOOSE f : Flattens(f, ss)
  <2>1. \A i \in 1..Len(ss) : h[i] = IF i = 1 THEN ss[i] ELSE h[i - 1] \o ss[i]
    <3> SUFFICES ASSUME NEW i \in 1..Len(ss) PROVE g[i] = IF i = 1 THEN ss[i] ELSE h[i - 1] \o ss[i]
      OBVIOUS
    <3>1. i - 1 \in 0..(Len(ss) - 1) /\ (i - 1) + 1 = i
      OBVIOUS
    <3>2. g[i] = g[i - 1] \o ss[i]
      BY <1>6, <3>1, Zenon
    <3>3. CASE i = 1
      <4>1. g[0] = v0 /\ i - 1 = 0 /\ ss[i] \in V
        BY <1>2, <1>6, <3>3
      <4> QED BY <1>1, <3>2, <3>3, <4>1, Zenon
    <3>4. CASE i # 1
      <4>1. h[i - 1] = g[i - 1]
        BY <3>4
      <4> HIDE DEF h
      <4> QED BY <3>2, <3>4, <4>1, Zenon
    <3> QED BY <3>3, <3>4
  <2>2. h = [i \in 1..Len(ss) |-> h[i]]
    OBVIOUS
  <2>3. h[Len(ss)] = g[Len(ss)]
    BY <1>2, <1>8
  <2> HIDE DEF h
  <2>4. Flattens(h, ss)
    BY <2>1, <2>2, Zenon DEF Flattens
  <2>5. Flattens(c, ss)
    BY <2>4, Zenon
  <2>6. FlattenSeq(ss) = c[Len(ss)]
    BY <1>8, Zenon DEF FlattenSeq, Flattens
  <2> HIDE DEF c
  <2> DEFINE T == {n \in Nat : n + 1 <= Len(ss) => c[n + 1] = h[n + 1]}
  <2>7. 0 \in T
    <3>1. 1 \in 1..Len(ss) => c[1] = ss[1] /\ h[1] = ss[1]
      BY <2>4, <2>5, Zenon DEF Flattens
    <3> QED BY <3>1
  <2>8. ASSUME NEW n \in Nat, n \in T PROVE n + 1 \in T
    <3> SUFFICES ASSUME (n + 1) + 1 <= Len(ss) PROVE c[(n + 1) + 1] = h[(n + 1) + 1]
      OBVIOUS
    <3> DEFINE k == (n + 1) + 1
    <3>1. c[n + 1] = h[n + 1] /\ k \in 1..Len(ss) /\ k # 1 /\ k - 1 = n + 1
      BY <2>8
    <3> HIDE DEF k
    <3>2. c[k] = c[k - 1] \o ss[k] /\ h[k] = h[k - 1] \o ss[k]
      BY <2>4, <2>5, <3>1, Zenon DEF Flattens
    <3>3. c[k] = h[k]
      BY <3>1, <3>2, Zenon
    <3> QED BY <3>3 DEF k
  <2>9. Len(ss) - 1 \in T /\ Len(ss) - 1 \in Nat /\ (Len(ss) - 1) + 1 = Len(ss)
    <3>1. Len(ss) - 1 \in Nat /\ (Len(ss) - 1) + 1 = Len(ss)
      BY <1>2, <1>8
    <3> HIDE DEF T
    <3> QED BY <2>7, <2>8, <3>1, Induction
  <2>10. c[Len(ss)] = h[Len(ss)]
    BY <2>9
  <2> QED BY <1>5, <2>3, <2>6, <2>10, Zenon
<1> QED BY <1>7, <1>8

LEMMA FlattenEmpty == FlattenSeq(<< >>) = << >>
BY DEF FlattenSeq

LEMMA FlattenGrows ==
  ASSUME NEW V, NEW step, NEW v0, Joins(step, V, v0), NEW ss \in Seq(V), NEW s \in V
  PROVE  FlattenSeq(Append(ss, s)) = FlattenSeq(ss) \o s /\ FlattenSeq(ss) \in V
<1> DEFINE v == FoldOf(step, v0, ss)  t == Append(ss, s)
<1>1. v0 \in V /\ Stepping(step, V, V) /\ \A u, w \in V : step[<<u, w>>] = u \o w
  BY Zenon DEF Joins
<1>2. t \in Seq(V)
  OBVIOUS
<1>3. FlattenSeq(ss) = v /\ FlattenSeq(t) = FoldOf(step, v0, t)
  <2> HIDE DEF t
  <2>1. FlattenSeq(ss) = v
    BY FlattenFolds, Zenon
  <2>2. FlattenSeq(t) = FoldOf(step, v0, t)
    BY <1>2, FlattenFolds, Zenon
  <2> QED BY <2>1, <2>2
<1>4. v \in V
  BY <1>1, FoldType, Zenon
<1>5. FoldOf(step, v0, t) = step[<<v, s>>]
  <2>1. v0 \in V
    BY <1>1
  <2>2. Stepping(step, V, V)
    BY <1>1
  <2>3. FoldOf(step, v0, Append(ss, s)) = step[<<FoldOf(step, v0, ss), s>>]
    BY <2>1, <2>2, FoldAppend
  <2> QED BY <2>3, Zenon
<1> HIDE DEF v, t
<1>6. FlattenSeq(t) = FlattenSeq(ss) \o s
  BY <1>1, <1>3, <1>4, <1>5, Zenon
<1> QED BY <1>3, <1>4, <1>6, Zenon DEF t

LEMMA FlattenAppend ==
  ASSUME NEW S, NEW ss \in Seq(Seq(S)), NEW s \in Seq(S)
  PROVE  FlattenSeq(Append(ss, s)) = FlattenSeq(ss) \o s /\ FlattenSeq(ss) \in Seq(S)
<1>1. Joins(Concats(S), Seq(S), << >>)
  BY ConcatsStep, ConcatEmptySeq DEF Joins
<1> QED BY <1>1, FlattenGrows

LEMMA FlattenType ==
  ASSUME NEW S, NEW ss \in Seq(Seq(S))
  PROVE  FlattenSeq(ss) \in Seq(S)
<1>1. << >> \in Seq(S)
  OBVIOUS
<1> QED BY <1>1, FlattenAppend

LEMMA FlattenConcat ==
  ASSUME NEW S, NEW a \in Seq(Seq(S)), NEW b \in Seq(Seq(S))
  PROVE  FlattenSeq(a \o b) = FlattenSeq(a) \o FlattenSeq(b) /\ FlattenSeq(a) \in Seq(S)
<1> DEFINE M == Seq(S)  x == FlattenSeq(a)
           T == {v \in Seq(M) : FlattenSeq(a \o v) = x \o FlattenSeq(v)}
<1>1. ASSUME NEW v \in Seq(M) PROVE FlattenSeq(v) \in M
  <2>1. << >> \in Seq(S)
    OBVIOUS
  <2> QED BY <2>1, FlattenAppend
<1>2. << >> \in T
  <2>1. a \o << >> = a /\ << >> \in Seq(M)
    OBVIOUS
  <2>2. x \in Seq(S)
    BY <1>1
  <2> HIDE DEF x
  <2>3. x \o << >> = x
    BY <2>2
  <2> QED BY <2>1, <2>3, FlattenEmpty, Zenon DEF x
<1>3. ASSUME NEW v \in Seq(M), NEW e \in M, v \in T PROVE Append(v, e) \in T
  <2> DEFINE w == Append(v, e)  y == FlattenSeq(v)  u == a \o v
  <2>1. w \in Seq(M) /\ u \in Seq(M) /\ a \o w = Append(u, e)
    BY ConcatAppend
  <2>2. x \in Seq(S) /\ y \in Seq(S) /\ e \in Seq(S)
    BY <1>1
  <2>3. FlattenSeq(w) = y \o e
    BY FlattenAppend
  <2>4. FlattenSeq(u) = x \o y
    BY <1>3
  <2> HIDE DEF u, w, x
  <2>5. FlattenSeq(Append(u, e)) = FlattenSeq(u) \o e
    BY <2>1, FlattenAppend
  <2> HIDE DEF y
  <2>6. (x \o y) \o e = x \o (y \o e)
    BY <2>2, ConcatAssociative, SMTT(40)
  <2>7. FlattenSeq(a \o w) = x \o FlattenSeq(w)
    BY <2>1, <2>3, <2>4, <2>5, <2>6, Zenon
  <2> QED BY <2>1, <2>7, Zenon DEF w
<1>4. b \in T
  <2> HIDE DEF T, M
  <2>1. b \in Seq(M)
    BY DEF M
  <2> QED BY <1>2, <1>3, <2>1, Growth
<1> QED BY <1>1, <1>4

LEMMA FlattenOne ==
  ASSUME NEW S, NEW a \in Seq(S)
  PROVE  FlattenSeq(<<a>>) = a
<1> DEFINE none == << >>
<1>1. none \in Seq(Seq(S)) /\ Append(none, a) = <<a>> /\ none \o a = a
  BY ConcatEmptySeq
<1>2. FlattenSeq(none) = none
  BY FlattenEmpty
<1> HIDE DEF none
<1>3. FlattenSeq(Append(none, a)) = FlattenSeq(none) \o a
  BY <1>1, FlattenAppend
<1> QED BY <1>1, <1>2, <1>3, Zenon

\* G is kept by every piece, read after whatever came before it.
OneMore(G, V, P, step, pieces, out) ==
    \A v \in V, got \in Seq(P), i \in DOMAIN out :
       <<v, got>> \in G => <<FoldOf(step, v, pieces[i]), Append(got, out[i])>> \in G

\* A text of pieces: what holds between the state and the results so far, and with
\* each piece between the next state and one result more, holds of the whole text.
LEMMA FoldPieces ==
  ASSUME NEW V, NEW v0 \in V, NEW S, NEW step, Stepping(step, V, S), NEW P, NEW m \in Nat,
         NEW pieces \in [1..m -> Seq(S)], NEW out \in [1..m -> P], NEW G, <<v0, << >>>> \in G,
         OneMore(G, V, P, step, pieces, out)
  PROVE  <<FoldOf(step, v0, FlattenSeq(pieces)), out>> \in G
<1> DEFINE part(n) == [i \in 1..n |-> pieces[i]]  got(n) == [i \in 1..n |-> out[i]]
           state(n) == FoldOf(step, v0, FlattenSeq(part(n)))
           T == {n \in Nat : n <= m => <<state(n), got(n)>> \in G}
<1>1. ASSUME NEW n \in Nat, n <= m
      PROVE  /\ part(n) \in [1..n -> Seq(S)] /\ part(n) \in Seq(Seq(S))
             /\ got(n) \in [1..n -> P] /\ got(n) \in Seq(P)
  <2>1. \A i \in 1..n : pieces[i] \in Seq(S) /\ out[i] \in P
    BY <1>1
  <2>2. part(n) \in [1..n -> Seq(S)] /\ got(n) \in [1..n -> P]
    BY <2>1
  <2> HIDE DEF part, got
  <2>3. part(n) \in Seq(Seq(S))
    BY <2>2
  <2>4. got(n) \in Seq(P)
    BY <2>2
  <2> QED BY <2>2, <2>3, <2>4
<1>2. ASSUME NEW n \in Nat, n <= m
      PROVE  FlattenSeq(part(n)) \in Seq(S) /\ state(n) \in V
  <2> DEFINE ss == part(n)  u == FlattenSeq(ss)
  <2>1. ss \in Seq(Seq(S)) /\ << >> \in Seq(S)
    BY <1>1, <1>2
  <2> HIDE DEF ss
  <2>2. u \in Seq(S)
    BY <2>1, FlattenAppend
  <2> HIDE DEF u
  <2>3. FoldOf(step, v0, u) \in V
    BY <2>2, FoldType
  <2> QED BY <2>2, <2>3 DEF u, ss
<1>3. 0 \in T
  <2>1. part(0) = << >> /\ got(0) = << >>
    OBVIOUS
  <2>2. FoldOf(step, v0, << >>) = v0
    BY FoldEmpty
  <2>3. state(0) = v0
    BY <2>1, <2>2, FlattenEmpty, Zenon
  <2> QED BY <2>1, <2>3
<1>4. ASSUME NEW n \in Nat, n \in T PROVE n + 1 \in T
  <2> SUFFICES ASSUME n + 1 <= m PROVE <<state(n + 1), got(n + 1)>> \in G
    OBVIOUS
  <2> DEFINE one == pieces[n + 1]  s == FlattenSeq(part(n))
  <2>1. n <= m /\ n + 1 \in 1..m /\ <<state(n), got(n)>> \in G
    BY <1>4
  <2>2. one \in Seq(S) /\ s \in Seq(S) /\ part(n) \in Seq(Seq(S)) /\ got(n) \in Seq(P) /\ state(n) \in V
    <3>1. one \in Seq(S)
      BY <2>1
    <3> HIDE DEF one, part, got, state
    <3> QED BY <1>1, <1>2, <2>1, <3>1
  <2>3. part(n + 1) = Append(part(n), one)
    <3> DEFINE f == part(n + 1)
    <3>1. f \in [1..(n + 1) -> Seq(S)] /\ f[n + 1] = one /\ [i \in 1..n |-> f[i]] = part(n)
      BY <1>1
    <3>2. f = Append([i \in 1..n |-> f[i]], f[n + 1])
      <4> HIDE DEF f
      <4> QED BY <3>1, LastOut
    <3> QED BY <3>1, <3>2, Zenon
  <2>4. got(n + 1) = Append(got(n), out[n + 1])
    <3> DEFINE f == got(n + 1)
    <3>1. f \in [1..(n + 1) -> P] /\ f[n + 1] = out[n + 1] /\ [i \in 1..n |-> f[i]] = got(n)
      BY <1>1
    <3>2. f = Append([i \in 1..n |-> f[i]], f[n + 1])
      <4> HIDE DEF f
      <4> QED BY <3>1, LastOut
    <3> QED BY <3>1, <3>2, Zenon
  <2>5. FlattenSeq(part(n + 1)) = s \o one
    <3> HIDE DEF one, part
    <3> QED BY <2>2, <2>3, FlattenAppend DEF s
  <2> HIDE DEF s, one, part, got
  <2>6. FoldOf(step, v0, s \o one) = FoldOf(step, FoldOf(step, v0, s), one)
    BY <2>2, FoldConcat
  <2>7. state(n + 1) = FoldOf(step, state(n), one)
    BY <2>5, <2>6, Zenon DEF s
  <2>8. <<FoldOf(step, state(n), one), Append(got(n), out[n + 1])>> \in G
    <3> HIDE DEF state
    <3>1. n + 1 \in DOMAIN out
      BY <2>1
    <3> QED BY <2>1, <2>2, <3>1, Zenon DEF one, OneMore
  <2> QED BY <2>4, <2>7, <2>8, Zenon
<1>5. m \in T
  <2> HIDE DEF T
  <2> QED BY <1>3, <1>4, Induction
<1>6. part(m) = pieces /\ got(m) = out /\ m <= m
  OBVIOUS
<1> QED BY <1>5, <1>6

LEMMA LastAppended ==
  ASSUME NEW S, NEW s \in Seq(S), NEW e \in S
  PROVE  Append(s, e) # << >> /\ Last(Append(s, e)) = e /\ Front(Append(s, e)) = s
<1> DEFINE t == Append(s, e)
<1>1. /\ t \in Seq(S) /\ Len(t) = Len(s) + 1 /\ t[Len(s) + 1] = e /\ Len(s) \in Nat
      /\ \A i \in 1..Len(s) : t[i] = s[i]
  BY AppendProperties
<1> HIDE DEF t
<1>2. t # << >>
  BY <1>1
<1>3. Last(t) = e
  BY <1>1, Zenon DEF Last
<1>4. Front(t) = s
  <2>1. Len(t) - 1 = Len(s) /\ SubSeq(t, 1, Len(s)) \in Seq(S) /\ Len(SubSeq(t, 1, Len(s))) = Len(s)
    BY <1>1
  <2>2. \A i \in 1..Len(s) : SubSeq(t, 1, Len(s))[i] = s[i]
    BY <1>1
  <2>3. SubSeq(t, 1, Len(s)) = s
    BY <2>1, <2>2, SeqEqual
  <2> QED BY <2>1, <2>3, Zenon DEF Front
<1> QED BY <1>2, <1>3, <1>4, Zenon DEF t

LEMMA EndOf ==
  ASSUME NEW S, NEW s \in Seq(S), s # << >>
  PROVE  Last(s) \in S /\ Front(s) \in Seq(S)
<1>1. Len(s) \in 1..Len(s) /\ Len(s) - 1 \in Nat
  OBVIOUS
<1>2. s[Len(s)] \in S
  BY <1>1
<1>3. SubSeq(s, 1, Len(s) - 1) \in Seq(S)
  BY <1>1
<1>4. Last(s) \in S
  BY <1>2, Zenon DEF Last
<1>5. Front(s) \in Seq(S)
  BY <1>3, Zenon DEF Front
<1> QED BY <1>4, <1>5
=============================================================================
