---------------------------- MODULE ForwarderProofs ----------------------------
(* Every digest the channel accepts reaches every remote server's messages     *)
(* once for each line that names the server and in order, for any list of      *)
(* servers, any batch size and any capacity of the channel.                    *)
EXTENDS ForwarderChannel, SequenceFacts, FiniteSetTheorems

Entry == [nth : Nat, whitelist : Kinds]
Message == [whitelist : Kinds, digests : Seq(Entry), left : BOOLEAN, forced : BOOLEAN]
-----------------------------------------------------------------------------
(* What Sent makes of one more message.                                        *)

Joined(a, b) == a \o b

LEMMA JoinedType == \A S : \A a, b \in Seq(S) : Joined(a, b) \in Seq(S)
BY ConcatProperties DEF Joined

LEMMA SentType ==
  ASSUME NEW t \in Seq(Message), NEW k
  PROVE  Sent(t, k) \in Seq(Entry)
<1> DEFINE ss == [n \in 1..Len(t) |-> Carried(t[n], k)]
<1>1. \A n \in 1..Len(t) : t[n] \in Message
  BY ElementOfSeq
<1>2. \A n \in 1..Len(t) : Carried(t[n], k) \in Seq(Entry)
  BY <1>1 DEF Carried, Message
<1>3. ss \in Seq(Seq(Entry))
  <2>1. Len(t) \in Nat
    OBVIOUS
  <2> QED BY <1>2, <2>1, IsASeq
<1> HIDE DEF ss
<1>4. FlattenSeq(ss) \in Seq(Entry)
  BY <1>3, FlattenType
<1> QED BY <1>4 DEF Sent, ss

LEMMA SentAppend ==
  ASSUME NEW t \in Seq(Message), NEW m \in Message, NEW k
  PROVE  Sent(Append(t, m), k) = Sent(t, k) \o Carried(m, k)
<1> DEFINE ss == [n \in 1..Len(t) |-> Carried(t[n], k)]
           tt == Append(t, m)
           uu == [n \in 1..Len(tt) |-> Carried(tt[n], k)]
           e == Carried(m, k)
<1>1. \A n \in 1..Len(t) : t[n] \in Message
  BY ElementOfSeq
<1>2. e \in Seq(Entry) /\ \A n \in 1..Len(t) : Carried(t[n], k) \in Seq(Entry)
  BY <1>1 DEF Carried, Message
<1>3. ss \in Seq(Seq(Entry)) /\ Len(ss) = Len(t)
  <2>1. Len(t) \in Nat
    OBVIOUS
  <2> QED BY <1>2, <2>1, IsASeq
<1>4. /\ Len(tt) = Len(t) + 1 /\ Len(t) \in Nat /\ tt[Len(t) + 1] = m
      /\ \A n \in 1..Len(t) : tt[n] = t[n]
  OBVIOUS
<1> HIDE DEF tt
<1>5. /\ \A n \in 1..Len(t) : uu[n] = ss[n]
      /\ uu[Len(t) + 1] = e
      /\ DOMAIN uu = 1..(Len(t) + 1)
  BY <1>4
<1>6. uu = Append(ss, e)
  <2> DEFINE l == Len(t)  ww == Append(ss, e)
  <2> HIDE DEF ss, e
  <2>1. /\ ww \in Seq(Seq(Entry)) /\ Len(ww) = l + 1 /\ ww[l + 1] = e
        /\ \A n \in 1..l : ww[n] = ss[n] /\ ss[n] \in Seq(Entry)
    BY <1>2, <1>3
  <2> HIDE DEF ww
  <2>2. /\ l \in Nat /\ \A n \in 1..l : uu[n] = ss[n]
        /\ uu[l + 1] = e /\ DOMAIN uu = 1..(l + 1)
    BY <1>4, <1>5
  <2>3. uu = [n \in 1..(l + 1) |-> uu[n]]
    BY <1>4
  <2> HIDE DEF uu, l
  <2>4. \A n \in 1..(l + 1) : n \in 1..l \/ n = l + 1
    BY <2>2
  <2>5. \A n \in 1..(l + 1) : uu[n] = ww[n]
    BY <2>1, <2>2, <2>4
  <2>6. ww = [n \in 1..(l + 1) |-> ww[n]]
    BY <2>1, <2>2
  <2>7. uu = ww
    BY <2>3, <2>5, <2>6
  <2> QED BY <2>7 DEF ww
<1> HIDE DEF ss, e, uu
<1>7. FlattenSeq(uu) = FlattenSeq(ss) \o e
  BY <1>2, <1>3, <1>6, FlattenAppend
<1> QED BY <1>7 DEF ss, e, uu, tt, Sent
-----------------------------------------------------------------------------
(* Concatenation, and the entries of one operation.                            *)

LEMMA JoinedEmpty == \A S : \A a \in Seq(S) : Joined(a, << >>) = a /\ Joined(<< >>, a) = a
BY DEF Joined

LEMMA JoinedAssoc ==
  ASSUME NEW S, NEW a \in Seq(S), NEW b \in Seq(S), NEW c \in Seq(S)
  PROVE  Joined(Joined(a, b), c) = Joined(a, Joined(b, c))
BY ConcatAssociative DEF Joined

LEMMA Singleton ==
  ASSUME NEW S, NEW s \in Seq(S), Len(s) = 1
  PROVE  s[1] \in S /\ s = << s[1] >>
<1>1. s[1] \in S
  OBVIOUS
<1>2. << s[1] >> \in Seq(S) /\ Len(<< s[1] >>) = 1 /\ << s[1] >>[1] = s[1]
  BY <1>1
<1>3. \A i \in 1..Len(s) : s[i] = << s[1] >>[i]
  <2>1. \A i \in 1..Len(s) : i = 1
    OBVIOUS
  <2> QED BY <1>2, <2>1
<1> QED BY <1>1, <1>2, <1>3, SeqEqual

LEMMA SubSeqAppend ==
  ASSUME NEW S, NEW s \in Seq(S), NEW e \in S, NEW n \in Nat, n <= Len(s)
  PROVE  SubSeq(Append(s, e), 1, n) = SubSeq(s, 1, n)
OBVIOUS

LEMMA OfKindType ==
  ASSUME NEW x \in Seq(Entry), NEW k
  PROVE  OfKind(x, k) \in Seq(Entry)
BY SiftType DEF OfKind

LEMMA OfKindConcat ==
  ASSUME NEW x \in Seq(Entry), NEW y \in Seq(Entry), NEW k
  PROVE  OfKind(Joined(x, y), k) = Joined(OfKind(x, k), OfKind(y, k))
<1> DEFINE P == [nth : Nat, whitelist : {k}]
<1> HIDE DEF P
<1>1. Sift(x \o y, P) = Sift(x, P) \o Sift(y, P)
  BY SiftConcat
<1> QED BY <1>1, Zenon DEF OfKind, Joined, P

LEMMA OfKindEmpty == \A k : OfKind(<< >>, k) = << >>
BY SiftEmpty DEF OfKind

LEMMA OfKindAppend ==
  ASSUME NEW x \in Seq(Entry), NEW e \in Entry, NEW k
  PROVE  OfKind(Append(x, e), k) = IF e.whitelist = k THEN Append(OfKind(x, k), e) ELSE OfKind(x, k)
<1> DEFINE P == [nth : Nat, whitelist : {k}]
<1>1. e \in P <=> e.whitelist = k
  BY DEF Entry
<1> HIDE DEF P
<1>2. Sift(Append(x, e), P) = SiftNext(Sift(x, P), e, P)
  BY SiftAppend
<1> QED BY <1>1, <1>2, Zenon DEF OfKind, SiftNext, P

LEMMA OfKindOne ==
  ASSUME NEW e \in Entry, NEW k
  PROVE  OfKind(<< e >>, k) = IF e.whitelist = k THEN << e >> ELSE << >>
<1> DEFINE none == << >>
<1>1. none \in Seq(Entry) /\ << e >> = Append(none, e)
  OBVIOUS
<1>2. OfKind(none, k) = none
  BY OfKindEmpty
<1> HIDE DEF none
<1>3. OfKind(Append(none, e), k) = IF e.whitelist = k THEN Append(none, e) ELSE none
  BY <1>1, <1>2, OfKindAppend
<1> QED BY <1>1, <1>3, Zenon DEF none
-----------------------------------------------------------------------------
(* The lines of the servers file, and entries once for each.                   *)

LEMMA LinesType == ASSUME NEW a, NEW n \in Nat PROVE Lines(a, n) \in Nat
<1> DEFINE l == Len(Servers)
<1>1. l \in Nat
  BY ForwarderAssumption
<1> HIDE DEF l
<1>2. IsFiniteSet(n..l)
  BY <1>1, FS_Interval
<1>3. IsFiniteSet({k \in n..l : Servers[k] = a})
  BY <1>2, FS_Subset
<1> QED BY <1>3, FS_CardinalityType DEF Lines, l

LEMMA LinesNext ==
  ASSUME NEW a, NEW n \in 1..Len(Servers)
  PROVE  Lines(a, n) = IF Servers[n] = a THEN Lines(a, n + 1) + 1 ELSE Lines(a, n + 1)
<1> DEFINE l == Len(Servers)
           S == {k \in n..l : Servers[k] = a}
           T == {k \in (n + 1)..l : Servers[k] = a}
<1>1. l \in Nat /\ n \in Nat /\ n <= l
  BY ForwarderAssumption
<1>2. \A k : k \in n..l <=> k = n \/ k \in (n + 1)..l
  BY <1>1
<1>3. n \notin (n + 1)..l
  BY <1>1
<1> HIDE DEF l
<1>4. IsFiniteSet((n + 1)..l)
  BY <1>1, FS_Interval
<1>5. IsFiniteSet(T)
  BY <1>4, FS_Subset
<1>6. n \notin T
  BY <1>3
<1>7. CASE Servers[n] = a
  <2>1. S = T \cup {n}
    BY <1>2, <1>7
  <2> HIDE DEF S, T
  <2>2. Cardinality(S) = Cardinality(T) + 1
    BY <1>5, <1>6, <2>1, FS_AddElement
  <2> QED BY <1>7, <2>2 DEF Lines, S, T, l
<1>8. CASE Servers[n] # a
  <2>1. S = T
    BY <1>2, <1>8
  <2> QED BY <1>8, <2>1 DEF Lines, l
<1> QED BY <1>7, <1>8

LEMMA LinesEnd == ASSUME NEW a PROVE Lines(a, Len(Servers) + 1) = 0
<1>1. {k \in (Len(Servers) + 1)..Len(Servers) : Servers[k] = a} = {}
  BY ForwarderAssumption
<1> QED BY <1>1, FS_EmptySet DEF Lines

LEMMA RepeatedType ==
  ASSUME NEW e \in Entry, NEW n \in Nat
  PROVE  Repeated(e, n) \in Seq(Entry)
<1> HIDE DEF Entry
<1> QED BY IsASeq DEF Repeated

LEMMA RepeatedNone == ASSUME NEW e PROVE Repeated(e, 0) = << >>
BY DEF Repeated

\* One more time is one time before the others.
LEMMA RepeatedNext ==
  ASSUME NEW e \in Entry, NEW n \in Nat
  PROVE  Repeated(e, n + 1) = Joined(<< e >>, Repeated(e, n))
<1> DEFINE x == Repeated(e, n + 1)  y == Repeated(e, n)  z == << e >> \o y
<1> HIDE DEF Entry
<1>1. x \in Seq(Entry) /\ Len(x) = n + 1 /\ \A i \in 1..(n + 1) : x[i] = e
  <2>1. n + 1 \in Nat
    OBVIOUS
  <2> QED BY <2>1, RepeatedType DEF Repeated
<1>2. y \in Seq(Entry) /\ Len(y) = n /\ \A i \in 1..n : y[i] = e
  BY RepeatedType DEF Repeated
<1> HIDE DEF x, y
<1>3. /\ z \in Seq(Entry) /\ Len(z) = n + 1
      /\ \A i \in 1..(n + 1) : z[i] = e
  BY <1>2
<1> HIDE DEF z
<1>4. \A i \in 1..Len(x) : x[i] = z[i]
  BY <1>1, <1>3
<1>5. x = z
  BY <1>1, <1>3, <1>4, SeqEqual
<1> QED BY <1>5, Zenon DEF x, y, z, Joined

\* The pieces of which ForLines is made.
Pieces(a, s) == [n \in 1..Len(s) |-> Repeated(s[n], Lines(a, 1))]

LEMMA PiecesType ==
  ASSUME NEW a, NEW s \in Seq(Entry)
  PROVE  Pieces(a, s) \in Seq(Seq(Entry)) /\ Len(Pieces(a, s)) = Len(s)
<1>1. \A n \in 1..Len(s) : s[n] \in Entry
  BY ElementOfSeq
<1>2. Lines(a, 1) \in Nat /\ Len(s) \in Nat
  BY LinesType
<1>3. \A n \in 1..Len(s) : Repeated(s[n], Lines(a, 1)) \in Seq(Entry)
  BY <1>1, <1>2, RepeatedType
<1> QED BY <1>2, <1>3, IsASeq DEF Pieces

LEMMA PiecesConcat ==
  ASSUME NEW a, NEW s \in Seq(Entry), NEW t \in Seq(Entry)
  PROVE  Pieces(a, s \o t) = Pieces(a, s) \o Pieces(a, t)
<1> DEFINE l == Lines(a, 1)  x == Pieces(a, s)  y == Pieces(a, t)  z == Pieces(a, s \o t)
<1>1. s \o t \in Seq(Entry) /\ Len(s \o t) = Len(s) + Len(t)
  OBVIOUS
<1>2. /\ x \in Seq(Seq(Entry)) /\ Len(x) = Len(s) /\ y \in Seq(Seq(Entry)) /\ Len(y) = Len(t)
      /\ z \in Seq(Seq(Entry)) /\ Len(z) = Len(s \o t)
  BY <1>1, PiecesType
<1>3. /\ \A n \in 1..Len(s) : x[n] = Repeated(s[n], l)
      /\ \A n \in 1..Len(t) : y[n] = Repeated(t[n], l)
      /\ \A n \in 1..Len(s \o t) : z[n] = Repeated((s \o t)[n], l)
  BY DEF Pieces
<1>4. \A n \in 1..Len(s \o t) :
        \/ n \in 1..Len(s) /\ (s \o t)[n] = s[n]
        \/ n - Len(s) \in 1..Len(t) /\ n > Len(s) /\ (s \o t)[n] = t[n - Len(s)]
  OBVIOUS
<1> DEFINE u == s \o t  m == Len(s)  k == Len(t)
<1>5. m \in Nat /\ k \in Nat /\ Len(u) = m + k
  OBVIOUS
<1> HIDE DEF x, y, z, l, u, m, k
<1>6. /\ x \o y \in Seq(Seq(Entry)) /\ Len(x \o y) = m + k
      /\ \A n \in 1..(m + k) : (x \o y)[n] = IF n <= m THEN x[n] ELSE y[n - m]
  BY <1>2, <1>5 DEF m, k
<1>7. ASSUME NEW n \in 1..(m + k) PROVE z[n] = (x \o y)[n]
  <2>1. z[n] = Repeated(u[n], l)
    BY <1>3, <1>5 DEF u
  <2>2. CASE n \in 1..m /\ u[n] = s[n]
    <3>1. x[n] = Repeated(s[n], l) /\ n <= m
      BY <1>3, <1>5, <2>2 DEF m
    <3> QED BY <1>6, <2>1, <2>2, <3>1
  <2>3. CASE n - m \in 1..k /\ n > m /\ u[n] = t[n - m]
    <3>1. y[n - m] = Repeated(t[n - m], l) /\ ~(n <= m)
      BY <1>3, <1>5, <2>3 DEF k
    <3> QED BY <1>6, <2>1, <2>3, <3>1
  <2> QED BY <1>4, <1>5, <2>2, <2>3 DEF u, m, k
<1>8. z \in Seq(Seq(Entry)) /\ Len(z) = m + k
  BY <1>2, <1>5 DEF u
<1>9. z = x \o y
  <2> DEFINE w == x \o y
  <2>1. w \in Seq(Seq(Entry)) /\ Len(w) = Len(z) /\ \A n \in 1..Len(z) : z[n] = w[n]
    BY <1>6, <1>7, <1>8
  <2> HIDE DEF w
  <2>2. z = w
    BY <1>8, <2>1, SeqEqual
  <2> QED BY <2>2 DEF w
<1> QED BY <1>9 DEF x, y, z, u

LEMMA ForLinesType ==
  ASSUME NEW a, NEW s \in Seq(Entry)
  PROVE  ForLines(a, s) \in Seq(Entry)
<1>1. FlattenSeq(Pieces(a, s)) \in Seq(Entry)
  BY PiecesType, FlattenType
<1> QED BY <1>1 DEF ForLines, Pieces

LEMMA ForLinesConcat ==
  ASSUME NEW a, NEW s \in Seq(Entry), NEW t \in Seq(Entry)
  PROVE  ForLines(a, Joined(s, t)) = Joined(ForLines(a, s), ForLines(a, t))
<1>1. FlattenSeq(Pieces(a, s) \o Pieces(a, t))
        = FlattenSeq(Pieces(a, s)) \o FlattenSeq(Pieces(a, t))
  BY PiecesType, FlattenConcat
<1>2. FlattenSeq(Pieces(a, s \o t)) = FlattenSeq(Pieces(a, s)) \o FlattenSeq(Pieces(a, t))
  BY <1>1, PiecesConcat
<1> QED BY <1>2, Zenon DEF ForLines, Pieces, Joined

LEMMA ForLinesEmpty == ASSUME NEW a PROVE ForLines(a, << >>) = << >>
<1>1. Pieces(a, << >>) = << >>
  BY DEF Pieces
<1> QED BY <1>1, FlattenEmpty DEF ForLines, Pieces

LEMMA ForLinesOne ==
  ASSUME NEW a, NEW e \in Entry
  PROVE  ForLines(a, << e >>) = Repeated(e, Lines(a, 1))
<1> DEFINE piece == Repeated(e, Lines(a, 1))
<1>1. piece \in Seq(Entry)
  BY LinesType, RepeatedType
<1>2. Pieces(a, << e >>) = << piece >>
  BY DEF Pieces
<1> HIDE DEF piece
<1>3. FlattenSeq(<< piece >>) = piece
  BY <1>1, FlattenOne
<1> QED BY <1>2, <1>3 DEF ForLines, Pieces, piece

LEMMA ForLinesAppend ==
  ASSUME NEW a, NEW s \in Seq(Entry), NEW e \in Entry
  PROVE  ForLines(a, Append(s, e)) = Joined(ForLines(a, s), Repeated(e, Lines(a, 1)))
<1>1. << e >> \in Seq(Entry) /\ Append(s, e) = s \o << e >>
  OBVIOUS
<1>2. Append(s, e) = Joined(s, << e >>)
  BY <1>1, Zenon DEF Joined
<1> QED BY <1>1, <1>2, ForLinesConcat, ForLinesOne
-----------------------------------------------------------------------------
(* The inductive invariant.                                                    *)

FTypeOK ==
    /\ fqueue \in Seq(Entry) /\ fopen \in BOOLEAN
    /\ fpc \in {"receive", "forward", "force", "ended"}
    /\ current \in Seq(Entry) /\ next \in Nat
    /\ draining \in BOOLEAN /\ stopping \in BOOLEAN
    /\ batches \in [Addresses -> [Kinds -> Seq(Entry)]]
    /\ trail \in [Addresses -> Seq(Message)]
    /\ tried \in Nat /\ accepted \in Seq(Entry) /\ early \in Nat

Phases ==
    /\ fpc = "forward" => Len(current) = 1 /\ next \in 1..Len(Servers)
    /\ fopen <=> fpc # "ended"
    /\ fpc \in {"force", "ended"} => draining
    /\ draining => stopping
    /\ fpc = "ended" => \A a \in Addresses, k \in Kinds : batches[a][k] = << >>
    /\ early <= Len(accepted)

OneKind ==
    \A a \in Addresses, k \in Kinds :
        \A j \in 1..Len(batches[a][k]) : batches[a][k][j].whitelist = k

\* What forward_one has done with the digests of this address.
Handled(a, k) == Joined(Attempted(a, k), batches[a][k])
Early(a, k) == OfKind(ForLines(a, SubSeq(accepted, 1, early)), k)

\* From the moment the channel was found empty, what was accepted before the
\* stop is among what is sent or batched.
EarlyHandled ==
    fpc \in {"force", "ended"} =>
        \A a \in Addresses, k \in Kinds : IsPrefix(Early(a, k), Handled(a, k))

Accounted ==
    fopen => \A a \in Addresses, k \in Kinds :
                 OfKind(ForLines(a, accepted), k) =
                     Joined(Handled(a, k), OfKind(Joined(AtHand(a), ForLines(a, fqueue)), k))

FInv == FTypeOK /\ Phases /\ OneKind /\ BatchesFull /\ Accounted /\ EarlyHandled

LEMMA InitInv == CInit => FInv
<1> SUFFICES ASSUME CInit PROVE FInv
  OBVIOUS
<1> USE ForwarderAssumption DEF CInit, FInit, ThreadInit, Kinds
<1>1. << >> \in Seq(Entry) /\ << >> \in Seq(Message)
  OBVIOUS
<1>2. FTypeOK
  BY <1>1 DEF FTypeOK
<1>3. Phases
  BY DEF Phases
<1>4. OneKind /\ BatchesFull
  BY DEF OneKind, BatchesFull
<1>5. Accounted
  <2> SUFFICES ASSUME NEW a \in Addresses, NEW k \in Kinds
               PROVE  OfKind(ForLines(a, accepted), k)
                        = Joined(Handled(a, k), OfKind(Joined(AtHand(a), ForLines(a, fqueue)), k))
    BY DEF Accounted
  <2> DEFINE none == << >>
  <2>1. /\ accepted = none /\ fqueue = none /\ AtHand(a) = none /\ batches[a][k] = none
        /\ trail[a] = none
    BY DEF AtHand
  <2>2. Sent(none, k) = none
    <3>1. Len(none) = 0 /\ [n \in 1..0 |-> Carried(none[n], k)] = none
      OBVIOUS
    <3> QED BY <3>1, FlattenEmpty DEF Sent
  <2>3. OfKind(none, k) = none /\ Joined(none, none) = none /\ none \in Seq(Entry)
    BY OfKindEmpty, JoinedEmpty, <1>1
  <2>4. ForLines(a, none) = none
    BY ForLinesEmpty
  <2> HIDE DEF none
  <2> QED BY <2>1, <2>2, <2>3, <2>4 DEF Handled, Attempted
<1>6. EarlyHandled
  BY DEF EarlyHandled
<1> QED BY <1>2, <1>3, <1>4, <1>5, <1>6 DEF FInv

\* A message as BatchesFull wants it.
WellFilled(m) ==
    /\ \A j \in 1..Len(m.digests) : m.digests[j].whitelist = m.whitelist
    /\ IF m.forced THEN Len(m.digests) < BatchSize ELSE Len(m.digests) = BatchSize

LEMMA FilledAppend ==
  ASSUME NEW t \in Seq(Message), NEW m \in Message, WellFilled(m),
         \A n \in 1..Len(t) : WellFilled(t[n])
  PROVE  \A n \in 1..Len(Append(t, m)) : WellFilled(Append(t, m)[n])
<1>1. /\ Len(Append(t, m)) = Len(t) + 1 /\ Append(t, m)[Len(t) + 1] = m
      /\ \A n \in 1..Len(t) : Append(t, m)[n] = t[n]
  OBVIOUS
<1>2. \A n \in 1..(Len(t) + 1) : n \in 1..Len(t) \/ n = Len(t) + 1
  OBVIOUS
<1> QED BY <1>1, <1>2

\* What was accepted early is a prefix of what was accepted.
LEMMA EarlyPrefix ==
  ASSUME accepted \in Seq(Entry), early \in Nat, early <= Len(accepted), NEW a, NEW k
  PROVE  IsPrefix(Early(a, k), OfKind(ForLines(a, accepted), k))
<1> DEFINE x == SubSeq(accepted, 1, early)  y == SubSeq(accepted, early + 1, Len(accepted))
<1>1. x \in Seq(Entry) /\ y \in Seq(Entry) /\ x \o y = accepted
  <2>1. /\ 1 \in 1..(Len(accepted) + 1) /\ early \in (1 - 1)..Len(accepted)
        /\ Len(accepted) \in early..Len(accepted) /\ Len(accepted) \in Nat
    OBVIOUS
  <2>2. x \o y = SubSeq(accepted, 1, Len(accepted))
    BY <2>1, ConcatAdjacentSubSeq
  <2>3. x \in Seq(Entry) /\ y \in Seq(Entry) /\ SubSeq(accepted, 1, Len(accepted)) = accepted
    BY <2>1
  <2> QED BY <2>2, <2>3, Zenon
<1> DEFINE fx == ForLines(a, x)  fy == ForLines(a, y)  u == OfKind(fx, k)  v == OfKind(fy, k)
<1> HIDE DEF x, y
<1>2. ForLines(a, Joined(x, y)) = Joined(fx, fy) /\ fx \in Seq(Entry) /\ fy \in Seq(Entry)
  BY <1>1, ForLinesConcat, ForLinesType
<1> HIDE DEF fx, fy
<1>3. OfKind(Joined(fx, fy), k) = Joined(u, v)
  BY <1>2, OfKindConcat
<1>4. u \in Seq(Entry) /\ v \in Seq(Entry)
  BY <1>2, OfKindType
<1>5. OfKind(ForLines(a, accepted), k) = u \o v
  BY <1>1, <1>2, <1>3, Zenon DEF Joined
<1>6. Early(a, k) = u
  BY DEF Early, x, fx
<1> HIDE DEF u, v
<1>7. IsPrefix(u, u \o v)
  BY <1>4 DEF IsPrefix
<1> QED BY <1>5, <1>6, <1>7

\* Nothing is at hand unless forward_one is at work.
LEMMA NothingAtHand == ASSUME fpc # "forward", NEW a PROVE AtHand(a) = << >>
BY DEF AtHand

LEMMA AtHandType == ASSUME FTypeOK, Phases, NEW a PROVE AtHand(a) \in Seq(Entry)
<1>1. CASE fpc = "forward"
  <2>1. current \in Seq(Entry) /\ Len(current) = 1 /\ next \in Nat
    BY <1>1 DEF FTypeOK, Phases
  <2>2. current[1] \in Entry
    BY <2>1, Singleton
  <2> QED BY <1>1, <2>1, <2>2, LinesType, RepeatedType DEF AtHand
<1>2. CASE fpc # "forward"
  <2>1. << >> \in Seq(Entry)
    OBVIOUS
  <2> QED BY <1>2, <2>1, NothingAtHand
<1> QED BY <1>1, <1>2

LEMMA HandledType ==
  ASSUME FTypeOK, NEW a \in Addresses, NEW k \in Kinds
  PROVE  /\ Attempted(a, k) \in Seq(Entry) /\ batches[a][k] \in Seq(Entry)
         /\ Handled(a, k) \in Seq(Entry)
<1>1. trail[a] \in Seq(Message) /\ batches[a][k] \in Seq(Entry)
  BY DEF FTypeOK
<1>2. Attempted(a, k) \in Seq(Entry)
  BY <1>1, SentType DEF Attempted
<1> QED BY <1>1, <1>2, JoinedType DEF Handled

Others == UNCHANGED <<tried, accepted, early>>

\* Take moves the head of the channel to every server's hand.
LEMMA ReceiveInv == ASSUME FInv, ReceiveEntry, Others PROVE FInv'
<1> USE DEF FInv, Others, clientVars
<1> DEFINE h == Head(fqueue)  rest == Tail(fqueue)
<1>1. /\ fpc = "receive" /\ fqueue # << >> /\ fqueue' = rest /\ current' = << h >>
      /\ next' = 1 /\ fpc' = "forward" /\ UNCHANGED <<fopen, draining, stopping, batches, trail>>
      /\ UNCHANGED <<tried, accepted, early>>
  BY DEF ReceiveEntry, Take
<1>2. h \in Entry /\ rest \in Seq(Entry) /\ << h >> \o rest = fqueue /\ << h >> \in Seq(Entry)
  BY <1>1 DEF FTypeOK
<1>3. FTypeOK'
  BY <1>1, <1>2 DEF FTypeOK
<1> HIDE DEF h, rest
<1>4. Phases' /\ OneKind' /\ BatchesFull' /\ EarlyHandled'
  <2>1. Len(<< h >>) = 1 /\ 1 \in 1..Len(Servers)
    BY ForwarderAssumption
  <2>2. Phases'
    BY <1>1, <2>1 DEF Phases
  <2>3. OneKind' /\ BatchesFull'
    BY <1>1 DEF OneKind, BatchesFull
  <2>4. EarlyHandled'
    BY <1>1 DEF EarlyHandled
  <2> QED BY <2>2, <2>3, <2>4
<1>5. Accounted'
  <2> SUFFICES ASSUME fopen, NEW a \in Addresses, NEW k \in Kinds
               PROVE  OfKind(ForLines(a, accepted), k)
                        = Joined(Handled(a, k), OfKind(Joined(AtHand(a)', ForLines(a, rest)), k))
    BY <1>1 DEF Accounted, Handled, Attempted
  <2>1. AtHand(a)' = Repeated(h, Lines(a, 1))
    <3>1. << h >>[1] = h
      OBVIOUS
    <3> QED BY <1>1, <3>1 DEF AtHand
  <2>2. AtHand(a) = << >>
    BY <1>1, NothingAtHand
  <2>3. Joined(AtHand(a), ForLines(a, fqueue)) = ForLines(a, fqueue)
    BY <2>2, JoinedEmpty, ForLinesType DEF FTypeOK
  <2>4. Joined(AtHand(a)', ForLines(a, rest)) = ForLines(a, fqueue)
    <3>1. Joined(<< h >>, rest) = fqueue
      BY <1>2, Zenon DEF Joined
    <3>2. ForLines(a, Joined(<< h >>, rest)) = Joined(ForLines(a, << h >>), ForLines(a, rest))
      BY <1>2, ForLinesConcat
    <3>3. ForLines(a, << h >>) = Repeated(h, Lines(a, 1))
      BY <1>2, ForLinesOne
    <3> QED BY <2>1, <3>1, <3>2, <3>3
  <2> QED BY <2>3, <2>4 DEF Accounted
<1> QED BY <1>3, <1>4, <1>5

\* The steps of the loop that hand nothing on.
LEMMA QuietInv ==
  ASSUME FInv, \/ (ReceiveTimeout \/ Drained \/ Stop) /\ Others
               \/ Stopped \/ UNCHANGED cvars
  PROVE  FInv'
<1> USE DEF FInv, Others, clientVars, loopVars, fvars, cvars
<1>1. /\ UNCHANGED <<fqueue, fopen, batches, trail, current, next, tried, accepted, early>>
      /\ \/ fpc' = fpc
         \/ fpc = "receive" /\ fpc' = "force" /\ fqueue = << >> /\ draining
  BY DEF ReceiveTimeout, Drained, Stop, Stopped
<1>2. /\ draining' \in BOOLEAN /\ stopping' \in BOOLEAN /\ (draining' => stopping')
      /\ draining => draining'
  <2>1. CASE ReceiveTimeout
    BY <2>1 DEF ReceiveTimeout, LeavesLoop, FTypeOK
  <2>2. CASE Drained
    BY <2>2 DEF Drained, FTypeOK, Phases
  <2>3. CASE Stop
    BY <2>3 DEF Stop, FTypeOK
  <2>4. CASE Stopped \/ UNCHANGED cvars
    BY <2>4 DEF Stopped, FTypeOK, Phases
  <2> QED BY <2>1, <2>2, <2>3, <2>4
<1>3. FTypeOK'
  BY <1>1, <1>2 DEF FTypeOK
<1>4. Phases'
  BY <1>1, <1>2 DEF Phases
<1>5. OneKind' /\ BatchesFull'
  BY <1>1 DEF OneKind, BatchesFull
<1>6. \A a : AtHand(a)' = AtHand(a)
  BY <1>1 DEF AtHand
<1>7. \A a, k : Handled(a, k)' = Handled(a, k)
  BY <1>1 DEF Handled, Attempted
<1>8. Accounted'
  BY <1>1, <1>6, <1>7 DEF Accounted
<1>9. EarlyHandled'
  <2>1. CASE fpc' = fpc
    BY <1>1, <1>7, <2>1 DEF EarlyHandled, Early
  <2>2. CASE fpc' # fpc
    <3> SUFFICES ASSUME NEW a \in Addresses, NEW k \in Kinds
                 PROVE  IsPrefix(Early(a, k), Handled(a, k))
      BY <1>1, <1>7 DEF EarlyHandled, Early
    <3>1. OfKind(ForLines(a, accepted), k) = Handled(a, k)
      <4>1. /\ AtHand(a) = << >> /\ fqueue = << >> /\ fopen
        BY <1>1, <2>2, NothingAtHand DEF Phases
      <4>2. Joined(AtHand(a), ForLines(a, fqueue)) = << >>
        BY <4>1, JoinedEmpty, ForLinesEmpty DEF FTypeOK
      <4>3. OfKind(ForLines(a, accepted), k) = Joined(Handled(a, k), << >>)
        BY <4>1, <4>2, OfKindEmpty DEF Accounted
      <4> QED BY <4>3, HandledType, JoinedEmpty
    <3>2. IsPrefix(Early(a, k), OfKind(ForLines(a, accepted), k))
      BY EarlyPrefix DEF FTypeOK, Phases
    <3> QED BY <3>1, <3>2
  <2> QED BY <2>1, <2>2
<1> QED BY <1>3, <1>4, <1>5, <1>8, <1>9

ForwardTurn(address, whitelist, digests) ==
    \/ /\ Full(digests)
       /\ Attempt(address, whitelist, digests)
       /\ Unbatched(address, whitelist)
    \/ /\ ~Full(digests)
       /\ batches' = [batches EXCEPT ![address][whitelist] = digests]
       /\ UNCHANGED trail

\* One turn of forward_one: what the server had, and the entry.
LEMMA ForwardInv == ASSUME FInv, ForwardToServer, Others PROVE FInv'
<1> USE DEF FInv, Others, clientVars, loopVars
<1> DEFINE b == Servers[next]  e == current[1]  w == current[1].whitelist
           digests == Append(batches[b][w], e)
<1>1. /\ fpc = "forward" /\ Len(current) = 1 /\ next \in 1..Len(Servers)
      /\ fopen /\ current = << e >> /\ e \in Entry /\ w \in Kinds /\ b \in Addresses
      /\ next' = next + 1
      /\ UNCHANGED <<fqueue, fopen, draining, stopping, tried, accepted, early>>
  <2>1. fpc = "forward" /\ Len(current) = 1 /\ next \in 1..Len(Servers) /\ fopen
    BY DEF ForwardToServer, Phases
  <2>2. current = << e >> /\ e \in Entry
    <3>1. current \in Seq(Entry)
      BY DEF FTypeOK
    <3> QED BY <2>1, <3>1, Singleton
  <2>3. w \in Kinds /\ b \in Addresses
    BY <2>1, <2>2 DEF Entry, Addresses
  <2> QED BY <2>1, <2>2, <2>3 DEF ForwardToServer
<1>2. \/ next # Len(Servers) /\ fpc' = fpc /\ current' = current
      \/ next = Len(Servers) /\ fpc' = "receive" /\ current' = << >>
  BY DEF ForwardToServer, LastServer
<1>3. /\ batches[b][w] \in Seq(Entry) /\ trail[b] \in Seq(Message)
      /\ digests \in Seq(Entry) /\ Len(digests) = Len(batches[b][w]) + 1
      /\ Len(batches[b][w]) \in Nat /\ Len(batches[b][w]) < BatchSize
  BY <1>1 DEF FTypeOK, BatchesFull
<1>4. \A j \in 1..Len(digests) : digests[j].whitelist = w
  <2>1. \A j \in 1..Len(batches[b][w]) : batches[b][w][j].whitelist = w
    BY <1>1 DEF OneKind
  <2>2. /\ digests[Len(batches[b][w]) + 1] = e
        /\ \A j \in 1..Len(batches[b][w]) : digests[j] = batches[b][w][j]
    <3> DEFINE old == batches[b][w]
    <3>1. old \in Seq(Entry) /\ e \in Entry
      BY <1>1, <1>3
    <3> HIDE DEF old, e
    <3>2. /\ Append(old, e)[Len(old) + 1] = e
          /\ \A j \in 1..Len(old) : Append(old, e)[j] = old[j]
      BY <3>1
    <3> QED BY <3>2, Zenon DEF old, e
  <2>4. \A j \in 1..Len(digests) : j \in 1..Len(batches[b][w]) \/ j = Len(batches[b][w]) + 1
    BY <1>3
  <2>5. e.whitelist = w
    OBVIOUS
  <2> HIDE DEF digests, e, b, w
  <2> QED BY <2>1, <2>2, <2>4, <2>5
<1>4a. e.whitelist = w
  OBVIOUS
<1>5. \/ /\ Len(digests) = BatchSize
         /\ \E m \in Message : /\ m.whitelist = w /\ m.digests = digests /\ m.forced = FALSE
                               /\ trail' = [trail EXCEPT ![b] = Append(@, m)]
         /\ batches' = [batches EXCEPT ![b][w] = << >>]
      \/ /\ Len(digests) < BatchSize
         /\ trail' = trail
         /\ batches' = [batches EXCEPT ![b][w] = digests]
  <2> HIDE DEF b, e, w, digests
  <2>1. ForwardTurn(b, w, digests)
    BY DEF ForwardToServer, ForwardTurn, b, e, w, digests
  <2>2. CASE Full(digests)
    <3>1. Len(digests) = BatchSize
      BY <1>3, <2>2, ForwarderAssumption DEF Full
    <3>2. PICK left \in BOOLEAN :
            trail' = [trail EXCEPT ![b] =
                        Append(@, [whitelist |-> w, digests |-> digests, left |-> left,
                                   forced |-> fpc = "force"])]
      BY <2>1, <2>2 DEF ForwardTurn, Attempt
    <3> DEFINE m == [whitelist |-> w, digests |-> digests, left |-> left, forced |-> fpc = "force"]
    <3>3. m \in Message /\ m.whitelist = w /\ m.digests = digests /\ m.forced = FALSE
      BY <1>1, <1>3 DEF Message
    <3>4. batches' = [batches EXCEPT ![b][w] = << >>]
      BY <2>1, <2>2 DEF ForwardTurn, Unbatched
    <3> QED BY <3>1, <3>2, <3>3, <3>4
  <2>3. CASE ~Full(digests)
    BY <1>3, <2>1, <2>3, ForwarderAssumption DEF ForwardTurn, Full
  <2> QED BY <2>2, <2>3
<1> HIDE DEF b, e, w, digests
<1>6. batches' \in [Addresses -> [Kinds -> Seq(Entry)]] /\ trail' \in [Addresses -> Seq(Message)]
  <2> DEFINE none == << >>
  <2>1. none \in Seq(Entry)
    OBVIOUS
  <2>2. \A t \in Seq(Message), m \in Message : Append(t, m) \in Seq(Message)
    OBVIOUS
  <2> HIDE DEF none
  <2>3. \E v \in Seq(Entry) : batches' = [batches EXCEPT ![b][w] = v]
    BY <1>3, <1>5, <2>1 DEF none
  <2>4. \/ trail' = trail
        \/ \E v \in Seq(Message) : trail' = [trail EXCEPT ![b] = v]
    BY <1>3, <1>5, <2>2
  <2>5. batches' \in [Addresses -> [Kinds -> Seq(Entry)]]
    BY <1>1, <2>3 DEF FTypeOK
  <2>6. trail' \in [Addresses -> Seq(Message)]
    <3>1. trail \in [Addresses -> Seq(Message)]
      BY DEF FTypeOK
    <3> QED BY <2>4, <3>1
  <2> QED BY <2>5, <2>6
<1>7. FTypeOK'
  <2>1. current' \in Seq(Entry)
    <3>1. << >> \in Seq(Entry) /\ current \in Seq(Entry)
      BY DEF FTypeOK
    <3> QED BY <1>2, <3>1, Zenon
  <2>3. next' \in Nat
    BY <1>1 DEF FTypeOK
  <2>2. fpc' \in {"receive", "forward", "force", "ended"}
    BY <1>1, <1>2
  <2> QED BY <1>1, <1>6, <2>1, <2>2, <2>3 DEF FTypeOK
<1>8. Phases' /\ EarlyHandled'
  BY <1>1, <1>2, ForwarderAssumption DEF Phases, EarlyHandled
<1>9. OneKind'
  <2> SUFFICES ASSUME NEW a \in Addresses, NEW k \in Kinds, NEW j \in 1..Len(batches'[a][k])
               PROVE  batches'[a][k][j].whitelist = k
    BY DEF OneKind
  <2>1. CASE a = b /\ k = w
    <3>1. batches'[a][k] = << >> \/ batches'[a][k] = digests
      BY <1>1, <1>5, <2>1 DEF FTypeOK
    <3> QED BY <1>4, <2>1, <3>1
  <2>2. CASE ~(a = b /\ k = w)
    <3>1. batches'[a][k] = batches[a][k]
      BY <1>1, <1>5, <2>2 DEF FTypeOK
    <3> QED BY <3>1 DEF OneKind
  <2> QED BY <2>1, <2>2
<1>10. BatchesFull'
  <2> SUFFICES ASSUME NEW a \in Addresses
               PROVE  /\ \A k \in Kinds : Len(batches'[a][k]) < BatchSize
                      /\ \A n \in 1..Len(trail'[a]) : WellFilled(trail'[a][n])
    BY DEF BatchesFull, WellFilled
  <2>1. /\ \A k \in Kinds : Len(batches[a][k]) < BatchSize
        /\ \A n \in 1..Len(trail[a]) : WellFilled(trail[a][n])
    BY DEF BatchesFull, WellFilled
  <2>2. ASSUME NEW k \in Kinds PROVE Len(batches'[a][k]) < BatchSize
    <3>1. Len(<< >>) = 0 /\ 0 < BatchSize
      BY ForwarderAssumption
    <3>2. \/ batches'[a][k] = batches[a][k]
          \/ batches'[a][k] = << >>
          \/ batches'[a][k] = digests /\ Len(digests) < BatchSize
      <4>1. CASE a = b /\ k = w
        BY <1>1, <1>5, <4>1 DEF FTypeOK
      <4>2. CASE ~(a = b /\ k = w)
        BY <1>1, <1>5, <4>2 DEF FTypeOK
      <4> QED BY <4>1, <4>2
    <3> QED BY <2>1, <3>1, <3>2
  <2>3. ASSUME NEW n \in 1..Len(trail'[a]) PROVE WellFilled(trail'[a][n])
    <3>1. CASE trail'[a] = trail[a]
      BY <2>1, <2>3, <3>1
    <3>2. CASE trail'[a] # trail[a]
      <4>1. PICK m \in Message :
              /\ m.whitelist = w /\ m.digests = digests /\ m.forced = FALSE
              /\ Len(digests) = BatchSize
              /\ trail'[a] = Append(trail[a], m)
        BY <1>1, <1>5, <3>2 DEF FTypeOK
      <4>2. WellFilled(m)
        BY <1>4, <4>1 DEF WellFilled
      <4> QED BY <2>1, <2>3, <4>1, <4>2, FilledAppend DEF FTypeOK
    <3> QED BY <3>1, <3>2
  <2> QED BY <2>2, <2>3
<1>11. ASSUME NEW a \in Addresses, NEW k \in Kinds
       PROVE  Handled(a, k)' = IF a = b THEN Joined(Handled(a, k), OfKind(<< e >>, k)) ELSE Handled(a, k)
  <2> DEFINE t == trail[a]  v == batches[a][k]  one == << e >>  none == << >>
  <2>1. /\ t \in Seq(Message) /\ v \in Seq(Entry) /\ Sent(t, k) \in Seq(Entry)
        /\ one \in Seq(Entry) /\ none \in Seq(Entry)
    BY <1>1, HandledType DEF FTypeOK, Attempted
  <2>2. Handled(a, k) = Joined(Sent(t, k), v)
    BY DEF Handled, Attempted
  <2>3. Handled(a, k)' = Joined(Sent(trail'[a], k), batches'[a][k])
    BY DEF Handled, Attempted
  <2>4. OfKind(one, k) = IF w = k THEN one ELSE none
    BY <1>1, <1>4a, OfKindOne
  <2>5. Joined(Joined(Sent(t, k), v), none) = Joined(Sent(t, k), v)
    BY <2>1, JoinedEmpty, JoinedType
  <2>6. CASE a # b
    <3>1. trail'[a] = t /\ batches'[a][k] = v
      BY <1>1, <1>5, <2>6 DEF FTypeOK
    <3> QED BY <2>2, <2>3, <2>6, <3>1
  <2>7. CASE a = b /\ k # w
    <3>1. batches'[a][k] = v
      BY <1>1, <1>5, <2>7 DEF FTypeOK
    <3>2. Sent(trail'[a], k) = Sent(t, k)
      <4>1. CASE trail' = trail
        BY <4>1
      <4>2. CASE trail' # trail
        <5>1. PICK m \in Message : m.whitelist = w /\ trail'[a] = Append(t, m)
          BY <1>1, <1>5, <2>7, <4>2 DEF FTypeOK
        <5>2. Sent(trail'[a], k) = Joined(Sent(t, k), Carried(m, k))
          BY <2>1, <5>1, SentAppend DEF Joined
        <5>3. Carried(m, k) = none
          BY <2>7, <5>1 DEF Carried
        <5> QED BY <2>1, <5>2, <5>3, JoinedEmpty
      <4> QED BY <4>1, <4>2
    <3>3. Handled(a, k)' = Joined(Sent(t, k), v)
      BY <2>3, <3>1, <3>2
    <3> QED BY <2>2, <2>4, <2>5, <2>7, <3>3
  <2>8. CASE a = b /\ k = w
    <3> DEFINE more == Append(v, e)
    <3>1. more \in Seq(Entry) /\ more = Joined(v, one)
      <4> HIDE DEF v, e
      <4>1. Append(v, e) \in Seq(Entry) /\ Append(v, e) = v \o << e >>
        BY <1>1, <2>1
      <4> QED BY <4>1, Zenon DEF Joined
    <3>2. digests = more
      BY <2>8 DEF digests
    <3>3. Handled(a, k)' = Joined(Sent(t, k), more)
      <4>1. CASE Len(digests) = BatchSize
        <5>1. PICK m \in Message : m.whitelist = w /\ m.digests = digests
                                   /\ trail'[a] = Append(t, m)
          <6>1. ~(Len(digests) < BatchSize)
            BY <4>1, ForwarderAssumption
          <6>2. PICK m \in Message : /\ m.whitelist = w /\ m.digests = digests
                                     /\ trail' = [trail EXCEPT ![b] = Append(trail[b], m)]
            BY <1>5, <6>1, Zenon
          <6>3. trail \in [Addresses -> Seq(Message)]
            BY <1>1 DEF FTypeOK
          <6>4. trail'[a] = Append(t, m)
            BY <2>8, <6>2, <6>3, Zenon
          <6> QED BY <6>2, <6>4
        <5>2. batches'[a][k] = none
          BY <1>1, <1>5, <2>8, <4>1, ForwarderAssumption DEF FTypeOK
        <5>3. Carried(m, k) = more
          BY <2>8, <3>2, <5>1 DEF Carried
        <5>4. Sent(trail'[a], k) = Joined(Sent(t, k), more)
          BY <2>1, <5>1, <5>3, SentAppend, Zenon DEF Joined
        <5>5. Joined(Joined(Sent(t, k), more), none) = Joined(Sent(t, k), more)
          BY <2>1, <3>1, JoinedEmpty, JoinedType
        <5> QED BY <2>3, <5>2, <5>4, <5>5, Zenon
      <4>2. CASE Len(digests) # BatchSize
        <5>1. trail'[a] = t /\ batches'[a][k] = more
          BY <1>1, <1>5, <2>8, <3>2, <4>2 DEF FTypeOK
        <5> QED BY <2>3, <5>1, Zenon
      <4> QED BY <4>1, <4>2
    <3> HIDE DEF t, v, one, more, none
    <3>4. Joined(Sent(t, k), Joined(v, one)) = Joined(Joined(Sent(t, k), v), one)
      BY <2>1, JoinedAssoc
    <3>5. OfKind(one, k) = one
      BY <2>4, <2>8
    <3> QED BY <2>2, <2>8, <3>1, <3>3, <3>4, <3>5, Zenon DEF one
  <2> QED BY <2>6, <2>7, <2>8
<1>12. ASSUME NEW a \in Addresses
       PROVE  /\ AtHand(a)' \in Seq(Entry)
              /\ a = b => AtHand(a) = Joined(<< e >>, AtHand(a)')
              /\ a # b => AtHand(a)' = AtHand(a)
  <2> DEFINE m == Lines(a, next + 1)
  <2>1. m \in Nat /\ Lines(a, next) = IF b = a THEN m + 1 ELSE m
    <3>1. next + 1 \in Nat
      BY <1>1
    <3> QED BY <1>1, <3>1, LinesType, LinesNext DEF b
  <2>2. AtHand(a) = Repeated(e, Lines(a, next))
    BY <1>1 DEF AtHand, e
  <2>3. AtHand(a)' = Repeated(e, m)
    <3>1. CASE next # Len(Servers)
      BY <1>1, <1>2, <3>1 DEF AtHand, e
    <3>2. CASE next = Len(Servers)
      <4>1. m = 0 /\ fpc' # "forward"
        BY <1>2, <3>2, LinesEnd
      <4>2. AtHand(a)' = << >>
        BY <4>1 DEF AtHand
      <4> QED BY <4>1, <4>2, RepeatedNone
    <3> QED BY <3>1, <3>2
  <2> HIDE DEF m
  <2>4. Repeated(e, m + 1) = Joined(<< e >>, Repeated(e, m)) /\ Repeated(e, m) \in Seq(Entry)
    BY <1>1, <2>1, RepeatedNext, RepeatedType
  <2> QED BY <2>1, <2>2, <2>3, <2>4
<1>13. Accounted'
  <2> SUFFICES ASSUME NEW a \in Addresses, NEW k \in Kinds
               PROVE  OfKind(ForLines(a, accepted), k)
                        = Joined(Handled(a, k)', OfKind(Joined(AtHand(a)', ForLines(a, fqueue)), k))
    BY <1>1 DEF Accounted
  <2> DEFINE h == Handled(a, k)  one == << e >>  q == ForLines(a, fqueue)  left == AtHand(a)'
             rest == Joined(left, q)
             oneK == OfKind(one, k)  restK == OfKind(rest, k)
  <2>1. OfKind(ForLines(a, accepted), k) = Joined(h, OfKind(Joined(AtHand(a), q), k))
    BY <1>1 DEF Accounted
  <2>2. /\ h \in Seq(Entry) /\ q \in Seq(Entry) /\ one \in Seq(Entry) /\ left \in Seq(Entry)
        /\ rest \in Seq(Entry)
    <3>1. h \in Seq(Entry) /\ q \in Seq(Entry) /\ one \in Seq(Entry) /\ left \in Seq(Entry)
      BY <1>1, <1>12, HandledType, ForLinesType DEF FTypeOK
    <3> HIDE DEF h, q, one, left
    <3> QED BY <3>1, JoinedType
  <2>3. oneK \in Seq(Entry) /\ restK \in Seq(Entry)
    <3>1. one \in Seq(Entry) /\ rest \in Seq(Entry)
      BY <2>2
    <3> HIDE DEF one, rest
    <3> QED BY <3>1, OfKindType
  <2>4. OfKind(Joined(one, rest), k) = Joined(oneK, restK)
    <3>1. one \in Seq(Entry) /\ rest \in Seq(Entry)
      BY <2>2
    <3> HIDE DEF one, rest
    <3> QED BY <3>1, OfKindConcat
  <2>5. Joined(Joined(one, left), q) = Joined(one, rest)
    <3>1. one \in Seq(Entry) /\ left \in Seq(Entry) /\ q \in Seq(Entry)
      BY <2>2
    <3> HIDE DEF one, left, q
    <3> QED BY <3>1, JoinedAssoc
  <2>6. CASE a = b
    <3>1. OfKind(ForLines(a, accepted), k) = Joined(h, Joined(oneK, restK))
      BY <1>12, <2>1, <2>4, <2>5, <2>6
    <3>2. Handled(a, k)' = Joined(h, oneK)
      BY <1>11, <2>6
    <3> HIDE DEF h, one, q, left, rest, oneK, restK
    <3>3. Joined(Joined(h, oneK), restK) = Joined(h, Joined(oneK, restK))
      BY <2>2, <2>3, JoinedAssoc
    <3>4. OfKind(ForLines(a, accepted), k) = Joined(Handled(a, k)', restK)
      BY <3>1, <3>2, <3>3
    <3> QED BY <3>4, Zenon DEF restK, rest, left, q
  <2>7. CASE a # b
    BY <1>11, <1>12, <2>1, <2>7
  <2> QED BY <2>6, <2>7
<1> QED BY <1>7, <1>8, <1>9, <1>10, <1>13

\* A partial message moves from the batches to the trail.
LEMMA ForceInv == ASSUME FInv, ForceBatch, Others PROVE FInv'
<1> USE DEF FInv, Others, clientVars, loopVars
<1>1. /\ fpc = "force" /\ fpc' = "force"
      /\ UNCHANGED <<fqueue, fopen, current, next, draining, stopping, tried, accepted, early>>
  BY DEF ForceBatch
<1>2. PICK w \in Kinds, b \in Addresses :
         Attempt(b, w, batches[b][w]) /\ Unbatched(b, w)
  BY DEF ForceBatch
<1> DEFINE v == batches[b][w]
<1>3. PICK m \in Message :
         /\ m.whitelist = w /\ m.digests = v /\ m.forced = TRUE
         /\ trail' = [trail EXCEPT ![b] = Append(@, m)]
  <2>1. PICK left \in BOOLEAN :
          trail' = [trail EXCEPT ![b] =
                      Append(@, [whitelist |-> w, digests |-> v, left |-> left,
                                 forced |-> fpc = "force"])]
    BY <1>2 DEF Attempt
  <2> DEFINE n == [whitelist |-> w, digests |-> v, left |-> left, forced |-> fpc = "force"]
  <2>2. n \in Message /\ n.whitelist = w /\ n.digests = v /\ n.forced = TRUE
    BY <1>1 DEF Message, FTypeOK
  <2> QED BY <2>1, <2>2
<1>4. batches' = [batches EXCEPT ![b][w] = << >>]
  BY <1>2 DEF Unbatched
<1>5. /\ << >> \in Seq(Entry) /\ Len(<< >>) = 0 /\ v \in Seq(Entry) /\ 0 < BatchSize
      /\ \A t \in Seq(Message) : Append(t, m) \in Seq(Message)
  BY ForwarderAssumption DEF FTypeOK
<1>6. FTypeOK'
  <2>1. batches' \in [Addresses -> [Kinds -> Seq(Entry)]]
    BY <1>4, <1>5 DEF FTypeOK
  <2>2. trail' \in [Addresses -> Seq(Message)]
    BY <1>3, <1>5 DEF FTypeOK
  <2> QED BY <1>1, <2>1, <2>2 DEF FTypeOK
<1>7. Phases'
  BY <1>1 DEF Phases
<1>8. OneKind'
  <2> SUFFICES ASSUME NEW a \in Addresses, NEW k \in Kinds, NEW j \in 1..Len(batches'[a][k])
               PROVE  batches'[a][k][j].whitelist = k
    BY DEF OneKind
  <2>1. CASE a = b /\ k = w
    BY <1>4, <1>5, <2>1 DEF FTypeOK
  <2>2. CASE ~(a = b /\ k = w)
    BY <1>4, <2>2 DEF FTypeOK, OneKind
  <2> QED BY <2>1, <2>2
<1>9. BatchesFull'
  <2> SUFFICES ASSUME NEW a \in Addresses
               PROVE  /\ \A k \in Kinds : Len(batches'[a][k]) < BatchSize
                      /\ \A n \in 1..Len(trail'[a]) : WellFilled(trail'[a][n])
    BY DEF BatchesFull, WellFilled
  <2>1. /\ \A k \in Kinds : Len(batches[a][k]) < BatchSize
        /\ \A n \in 1..Len(trail[a]) : WellFilled(trail[a][n])
    BY DEF BatchesFull, WellFilled
  <2>2. ASSUME NEW k \in Kinds PROVE Len(batches'[a][k]) < BatchSize
    BY <1>4, <1>5, <2>1 DEF FTypeOK
  <2>3. ASSUME NEW n \in 1..Len(trail'[a]) PROVE WellFilled(trail'[a][n])
    <3>1. CASE a # b
      BY <1>3, <2>1, <2>3, <3>1 DEF FTypeOK
    <3>2. CASE a = b
      <4>1. trail'[a] = Append(trail[a], m) /\ trail[a] \in Seq(Message)
        BY <1>3, <3>2 DEF FTypeOK
      <4>2. WellFilled(m)
        <5>1. /\ Len(v) < BatchSize
              /\ \A j \in 1..Len(v) : v[j].whitelist = w
          BY DEF BatchesFull, OneKind
        <5> QED BY <1>3, <5>1 DEF WellFilled
      <4> QED BY <2>1, <2>3, <4>1, <4>2, FilledAppend
    <3> QED BY <3>1, <3>2
  <2> QED BY <2>2, <2>3
<1>10. ASSUME NEW a \in Addresses, NEW k \in Kinds PROVE Handled(a, k)' = Handled(a, k)
  <2> DEFINE t == trail[a]  u == batches[a][k]  none == << >>
  <2>1. t \in Seq(Message) /\ u \in Seq(Entry) /\ Sent(t, k) \in Seq(Entry) /\ none \in Seq(Entry)
    BY HandledType DEF FTypeOK, Attempted
  <2>2. Handled(a, k) = Joined(Sent(t, k), u)
    BY DEF Handled, Attempted
  <2>3. Handled(a, k)' = Joined(Sent(trail'[a], k), batches'[a][k])
    BY DEF Handled, Attempted
  <2>4. CASE a # b
    <3>1. trail'[a] = t /\ batches'[a][k] = u
      BY <1>3, <1>4, <2>4 DEF FTypeOK
    <3> QED BY <2>2, <2>3, <3>1
  <2>5. CASE a = b
    <3>1. trail'[a] = Append(t, m)
      BY <1>3, <2>5 DEF FTypeOK
    <3>2. Sent(trail'[a], k) = Joined(Sent(t, k), Carried(m, k))
      BY <2>1, <3>1, SentAppend DEF Joined
    <3>3. CASE k # w
      <4>1. batches'[a][k] = u /\ Carried(m, k) = none
        BY <1>3, <1>4, <2>5, <3>3 DEF FTypeOK, Carried
      <4> QED BY <2>1, <2>2, <2>3, <3>2, <4>1, JoinedEmpty
    <3>4. CASE k = w
      <4>1. batches'[a][k] = none /\ Carried(m, k) = u
        BY <1>3, <1>4, <2>5, <3>4 DEF FTypeOK, Carried
      <4>2. Joined(Joined(Sent(t, k), u), none) = Joined(Sent(t, k), u)
        BY <2>1, JoinedEmpty, JoinedType
      <4> QED BY <2>2, <2>3, <3>2, <4>1, <4>2, Zenon
    <3> QED BY <3>3, <3>4
  <2> QED BY <2>4, <2>5
<1>11. \A a \in Addresses : AtHand(a)' = AtHand(a)
  BY <1>1 DEF AtHand
<1>12. Accounted'
  BY <1>1, <1>10, <1>11 DEF Accounted
<1>13. EarlyHandled'
  BY <1>1, <1>10 DEF EarlyHandled, Early
<1> QED BY <1>6, <1>7, <1>8, <1>9, <1>12, <1>13

\* The thread ends with nothing batched, and drops the channel.
LEMMA EndInv == ASSUME FInv, End, Others PROVE FInv'
<1> USE DEF FInv, Others, clientVars
<1>1. /\ fpc = "force" /\ fpc' = "ended" /\ fopen' = FALSE /\ fqueue' = << >>
      /\ UNCHANGED <<current, next, draining, stopping, batches, trail, tried, accepted, early>>
  BY DEF End
<1>2. \A a \in Addresses, k \in Kinds : batches[a][k] = << >>
  BY DEF End, AllForced, Partial
<1>3. FTypeOK'
  <2>1. << >> \in Seq(Entry)
    OBVIOUS
  <2> QED BY <1>1, <2>1 DEF FTypeOK
<1>4. Phases'
  BY <1>1, <1>2 DEF Phases
<1>5. OneKind' /\ BatchesFull'
  BY <1>1 DEF OneKind, BatchesFull
<1>6. Accounted'
  BY <1>1 DEF Accounted
<1>7. \A a, k : Handled(a, k)' = Handled(a, k)
  BY <1>1 DEF Handled, Attempted
<1>8. EarlyHandled'
  BY <1>1, <1>7 DEF EarlyHandled, Early
<1> QED BY <1>3, <1>4, <1>5, <1>6, <1>8

\* A worker appends the same entry to the channel and to what was accepted.
LEMMA ProduceInv == ASSUME FInv, Produce PROVE FInv'
<1> USE DEF FInv, clientVars, loopVars
<1>1. /\ UNCHANGED <<fopen, fpc, current, next, draining, stopping, batches, trail>>
      /\ tried' = tried + 1
      /\ early' = IF stopping THEN early ELSE Len(accepted')
  BY DEF Produce
<1>2. PICK w \in Kinds : queue_forward_request([nth |-> tried + 1, whitelist |-> w])
  BY DEF Produce
<1> DEFINE e == [nth |-> tried + 1, whitelist |-> w]
<1>3. e \in Entry
  BY DEF Entry, FTypeOK
<1>4. \/ /\ fopen /\ fqueue' = Append(fqueue, e) /\ accepted' = Append(accepted, e)
      \/ UNCHANGED <<fqueue, accepted>>
  BY <1>2 DEF queue_forward_request
<1> HIDE DEF e
<1>5. /\ fqueue' \in Seq(Entry) /\ accepted' \in Seq(Entry)
      /\ Len(accepted) \in Nat /\ Len(accepted') \in Nat /\ Len(accepted) <= Len(accepted')
  <2>1. CASE UNCHANGED <<fqueue, accepted>>
    BY <2>1 DEF FTypeOK
  <2>2. CASE fqueue' = Append(fqueue, e) /\ accepted' = Append(accepted, e)
    BY <1>3, <2>2 DEF FTypeOK
  <2> QED BY <1>4, <2>1, <2>2
<1>6. FTypeOK'
  BY <1>1, <1>5 DEF FTypeOK
<1>7. Phases'
  BY <1>1, <1>5 DEF Phases, FTypeOK
<1>8. OneKind' /\ BatchesFull'
  BY <1>1 DEF OneKind, BatchesFull
<1>9. (\A a : AtHand(a)' = AtHand(a)) /\ (\A a, k : Handled(a, k)' = Handled(a, k))
  BY <1>1 DEF AtHand, Handled, Attempted
<1>10. Accounted'
  <2> SUFFICES ASSUME fopen, NEW a \in Addresses, NEW k \in Kinds
               PROVE  OfKind(ForLines(a, accepted'), k)
                        = Joined(Handled(a, k), OfKind(Joined(AtHand(a), ForLines(a, fqueue')), k))
    BY <1>1, <1>9 DEF Accounted
  <2> DEFINE h == Handled(a, k)  hand == AtHand(a)  q == ForLines(a, fqueue)
             all == ForLines(a, accepted)  more == Repeated(e, Lines(a, 1))
             rest == Joined(hand, q)  restK == OfKind(rest, k)  moreK == OfKind(more, k)
  <2>1. OfKind(all, k) = Joined(h, restK)
    BY DEF Accounted
  <2>2. CASE UNCHANGED <<fqueue, accepted>>
    BY <2>1, <2>2
  <2>3. CASE fqueue' = Append(fqueue, e) /\ accepted' = Append(accepted, e)
    <3>1. /\ h \in Seq(Entry) /\ hand \in Seq(Entry) /\ fqueue \in Seq(Entry)
          /\ accepted \in Seq(Entry)
      BY HandledType, AtHandType DEF FTypeOK
    <3>2. /\ q \in Seq(Entry) /\ all \in Seq(Entry) /\ more \in Seq(Entry)
      BY <1>3, <3>1, ForLinesType, LinesType, RepeatedType
    <3>3. rest \in Seq(Entry) /\ restK \in Seq(Entry) /\ moreK \in Seq(Entry)
      BY <3>1, <3>2, JoinedType, OfKindType
    <3>4. ForLines(a, fqueue') = Joined(q, more) /\ ForLines(a, accepted') = Joined(all, more)
      BY <1>3, <2>3, <3>1, ForLinesAppend
    <3> HIDE DEF h, hand, q, all, more, rest, restK, moreK
    <3>5. Joined(hand, Joined(q, more)) = Joined(rest, more)
      BY <3>1, <3>2, JoinedAssoc DEF rest
    <3>6. OfKind(Joined(rest, more), k) = Joined(restK, moreK)
      BY <3>2, <3>3, OfKindConcat DEF restK, moreK
    <3>7. OfKind(Joined(all, more), k) = Joined(OfKind(all, k), moreK)
      BY <3>2, OfKindConcat DEF moreK
    <3>8. Joined(Joined(h, restK), moreK) = Joined(h, Joined(restK, moreK))
      BY <3>1, <3>3, JoinedAssoc
    <3>9. OfKind(ForLines(a, accepted'), k)
            = Joined(h, OfKind(Joined(hand, ForLines(a, fqueue')), k))
      BY <2>1, <3>4, <3>5, <3>6, <3>7, <3>8
    <3> QED BY <3>9, Zenon DEF h, hand
  <2> QED BY <1>4, <2>2, <2>3
<1>11. EarlyHandled'
  <2> SUFFICES ASSUME fpc \in {"force", "ended"}, NEW a \in Addresses, NEW k \in Kinds
               PROVE  IsPrefix(Early(a, k)', Handled(a, k))
    BY <1>1, <1>9 DEF EarlyHandled
  <2>1. stopping /\ early' = early /\ early <= Len(accepted) /\ early \in Nat
    BY <1>1 DEF Phases, FTypeOK
  <2>2. SubSeq(accepted', 1, early) = SubSeq(accepted, 1, early)
    <3>1. accepted \in Seq(Entry)
      BY DEF FTypeOK
    <3>2. SubSeq(Append(accepted, e), 1, early) = SubSeq(accepted, 1, early)
      BY <1>3, <2>1, <3>1, SubSeqAppend
    <3> QED BY <1>4, <3>2, Zenon
  <2>3. Early(a, k)' = Early(a, k)
    BY <2>1, <2>2 DEF Early
  <2> QED BY <2>3 DEF EarlyHandled
<1> QED BY <1>6, <1>7, <1>8, <1>10, <1>11

LEMMA NextInv == FInv /\ [CNext]_cvars => FInv'
<1> SUFFICES ASSUME FInv, [CNext]_cvars PROVE FInv'
  OBVIOUS
<1>1. CASE Loop /\ Others
  BY <1>1, ReceiveInv, QuietInv, ForwardInv, ForceInv, EndInv DEF Loop
<1>2. CASE (Stop /\ Others) \/ Stopped \/ UNCHANGED cvars
  BY <1>2, QuietInv
<1>3. CASE Produce
  BY <1>3, ProduceInv
<1> QED BY <1>1, <1>2, <1>3 DEF CNext, Others

LEMMA Invariant == CSpec => []FInv
BY InitInv, NextInv, PTL DEF CSpec
-----------------------------------------------------------------------------
\* Whatever the channel accepted is sent, batched, at hand or queued, in order and
\* for each server and operation once for every line that names the server, and
\* no message is over or under full (forward_loop, forward_one,
\* BatchClient::add_digest and force).
THEOREM DeliverySafe == CSpec => []DeliveredInBatches
<1>1. FInv => DeliveredInBatches
  BY DEF FInv, Accounted, Handled, Joined, DeliveredInBatches, NothingLostOrRepeated
<1> QED BY <1>1, Invariant, PTL

\* When stop has joined the thread, every server's messages begin with all that
\* was accepted before the stop.
THEOREM FlushSafe == CSpec => []StopFlushes
<1>1. FInv => StopFlushes
  <2> SUFFICES ASSUME FInv, fpc = "ended", NEW a \in Addresses, NEW k \in Kinds
               PROVE  IsPrefix(Early(a, k), Attempted(a, k))
    BY DEF StopFlushes, Early
  <2>1. IsPrefix(Early(a, k), Handled(a, k)) /\ batches[a][k] = << >>
    BY DEF FInv, EarlyHandled, Phases
  <2>2. Handled(a, k) = Attempted(a, k)
    BY <2>1, HandledType, JoinedEmpty DEF FInv, Handled
  <2> QED BY <2>1, <2>2
<1> QED BY <1>1, Invariant, PTL
=============================================================================
