------------------------------ MODULE MailProofs ------------------------------
(* Proofs about what a mail is predigested to: the mails of an mbox and the    *)
(* parts of a body stay apart, noise and soft line breaks change nothing, and  *)
(* only the lines at some places count.                                        *)
EXTENDS MailLines, SequenceFacts

(***************************************************************************)
(* The lines of a text                                                     *)
(***************************************************************************)
LEMMA LinesEnd ==
  ASSUME NEW S, NEW x \in Seq(S), << >> \in S
  PROVE  TextLines(x \o <<<< >>>>) = x
<1> DEFINE none == << >>  b == <<none>>  y == x \o b
<1>1. b \in Seq(S) /\ Len(b) = 1 /\ b[1] = none
  OBVIOUS
<1> HIDE DEF b
<1>2. SubSeq(y, 1, Len(x)) = x /\ y \in Seq(S) /\ Len(y) = Len(x) + Len(b) /\ Len(x) \in Nat
  BY <1>1, ConcatParts, SMTT(40)
<1>3. y[Len(x) + 1] = none
  <2>1. Joining(y, x, b, S)
    BY <1>1, PlacesJoined
  <2>2. 1 \in 1..Len(b) /\ 1 + Len(x) = Len(x) + 1
    BY <1>1, <1>2
  <2> QED BY <1>1, <2>1, <2>2, Zenon DEF Joining
<1> HIDE DEF y, none
<1>4. Len(y) = Len(x) + 1 /\ Len(y) - 1 = Len(x) /\ y # << >>
  BY <1>1, <1>2
<1>5. Last(y) = none /\ Front(y) = x
  BY <1>2, <1>3, <1>4, Zenon DEF Last, Front
<1>6. TextLines(y) = x
  BY <1>4, <1>5, Zenon DEF TextLines, none
<1> QED BY <1>6, Zenon DEF y, b, none

(***************************************************************************)
(* The mails of an mbox                                                    *)
(***************************************************************************)
MboxStates(L) == [mails : Seq(Seq(L)), current : Seq(L), seen : BOOLEAN]
MboxStep(L) == [p \in MboxStates(L) \X L |-> Delivered(p[1], p[2])]
MboxAfter(L, state, lines) == FoldOf(MboxStep(L), state, lines)
Delivers(f, lines) ==
    f = [n \in 0..Len(lines) |-> IF n = 0 THEN NoMail ELSE Delivered(f[n - 1], lines[n])]
\* The mails, the one that has begun included.
Gathered(state) == IF state.current # << >> THEN Append(state.mails, state.current) ELSE state.mails

LEMMA DeliveredIs ==
  ASSUME NEW L, NEW state \in MboxStates(L), NEW line \in L
  PROVE  /\ ~Begins(line, "From") =>
              Delivered(state, line) = [mails |-> state.mails, current |-> Append(state.current, line),
                                        seen |-> state.seen]
         /\ Begins(line, "From") /\ state.seen =>
              Delivered(state, line) = [mails |-> Gathered(state), current |-> << >>, seen |-> TRUE]
         /\ Begins(line, "From") /\ state = NoMail =>
              Delivered(state, line) = [mails |-> Gathered(state), current |-> << >>, seen |-> TRUE]
         /\ Delivered(state, line) \in MboxStates(L)
<1>1. /\ state = [mails |-> state.mails, current |-> state.current, seen |-> state.seen]
      /\ state.mails \in Seq(Seq(L)) /\ state.current \in Seq(L) /\ state.seen \in BOOLEAN
  BY DEF MboxStates
<1>2. ~Begins(line, "From") =>
         Delivered(state, line) = [mails |-> state.mails, current |-> Append(state.current, line),
                                   seen |-> state.seen]
  <2> DEFINE b == Begins(line, "From")
  <2> SUFFICES ASSUME ~b
               PROVE  Delivered(state, line) = [mails |-> state.mails, current |-> Append(state.current, line),
                                                seen |-> state.seen]
    OBVIOUS
  <2>1. Delivered(state, line) = [state EXCEPT !.current = Append(state.current, line)]
    BY Zenon DEF Delivered
  <2> HIDE DEF b
  <2> QED BY <1>1, <2>1
<1>3. Begins(line, "From") =>
         Delivered(state, line) = [mails |-> IF state.seen /\ state.current # << >>
                                             THEN Append(state.mails, state.current) ELSE state.mails,
                                   current |-> IF state.seen THEN << >> ELSE state.current, seen |-> TRUE]
  BY Zenon DEF Delivered
<1>4. Begins(line, "From") /\ state.seen =>
        Delivered(state, line) = [mails |-> Gathered(state), current |-> << >>, seen |-> TRUE]
  <2> DEFINE b == Begins(line, "From")
  <2> HIDE DEF b
  <2> QED BY <1>3 DEF Gathered, b
<1>5. Begins(line, "From") /\ state = NoMail =>
        Delivered(state, line) = [mails |-> Gathered(state), current |-> << >>, seen |-> TRUE]
  <2> DEFINE b == Begins(line, "From")
  <2> HIDE DEF b
  <2> QED BY <1>3 DEF Gathered, b, NoMail
<1>6. Delivered(state, line) \in MboxStates(L)
  <2> DEFINE b == Begins(line, "From")
             kept == IF state.seen /\ state.current # << >>
                     THEN Append(state.mails, state.current) ELSE state.mails
             left == IF state.seen THEN << >> ELSE state.current
             more == Append(state.current, line)
  <2>1. kept \in Seq(Seq(L)) /\ left \in Seq(L) /\ more \in Seq(L)
    BY <1>1
  <2>2. /\ ~b => Delivered(state, line) = [mails |-> state.mails, current |-> more, seen |-> state.seen]
        /\ b => Delivered(state, line) = [mails |-> kept, current |-> left, seen |-> TRUE]
    BY <1>2, <1>3, Zenon
  <2> HIDE DEF b, kept, left, more
  <2>3. /\ [mails |-> state.mails, current |-> more, seen |-> state.seen] \in MboxStates(L)
        /\ [mails |-> kept, current |-> left, seen |-> TRUE] \in MboxStates(L)
    BY <1>1, <2>1 DEF MboxStates
  <2> QED BY <2>2, <2>3, Zenon
<1> QED BY <1>2, <1>4, <1>5, <1>6, Zenon

LEMMA MboxStepping ==
  ASSUME NEW L
  PROVE  /\ Stepping(MboxStep(L), MboxStates(L), L) /\ NoMail \in MboxStates(L)
         /\ \A state \in MboxStates(L), line \in L : MboxStep(L)[<<state, line>>] = Delivered(state, line)
<1>1. \A state \in MboxStates(L), line \in L : Delivered(state, line) \in MboxStates(L)
  BY DeliveredIs, Zenon
<1>2. NoMail \in MboxStates(L)
  BY DEF NoMail, MboxStates
<1> DEFINE V == MboxStates(L)
<1> HIDE DEF V
<1>3. \A p \in V \X L : p[1] \in V /\ p[2] \in L
  OBVIOUS
<1>4. \A state \in V, line \in L :
        <<state, line>> \in V \X L /\ <<state, line>>[1] = state /\ <<state, line>>[2] = line
  OBVIOUS
<1>5. Stepping(MboxStep(L), V, L)
  BY <1>1, <1>3, Zenon DEF Stepping, MboxStep, V
<1>6. \A state \in V, line \in L : MboxStep(L)[<<state, line>>] = Delivered(state, line)
  BY <1>4, Zenon DEF MboxStep, V
<1> QED BY <1>2, <1>5, <1>6, Zenon DEF V

LEMMA MboxFolds ==
  ASSUME NEW L, NEW lines \in Seq(L), NEW c, c = CHOOSE f : Delivers(f, lines)
  PROVE  c[Len(lines)] = MboxAfter(L, NoMail, lines)
<1> DEFINE step == MboxStep(L)  V == MboxStates(L)  v0 == NoMail
<1>1. Stepping(step, V, L) /\ v0 \in V /\ \A state \in V, line \in L : step[<<state, line>>] = Delivered(state, line)
  BY MboxStepping, Zenon
<1> HIDE DEF step, V, v0
<1>3. PICK g \in [0..Len(lines) -> V] : Recursive(g, step, v0, lines)
  BY <1>1, FoldDefined
<1>4. \A n \in 0..Len(lines) : g[n] = FoldStep(g, step, v0, lines, n)
  BY <1>3, Zenon DEF Recursive
<1>5. Delivers(g, lines)
  <2>1. ASSUME NEW n \in 0..Len(lines)
        PROVE  g[n] = IF n = 0 THEN v0 ELSE Delivered(g[n - 1], lines[n])
    <3>1. CASE n = 0
      BY <1>4, <3>1, Zenon DEF FoldStep
    <3>2. CASE n # 0
      <4>1. n - 1 \in 0..Len(lines) /\ lines[n] \in L
        BY <3>2
      <4>2. g[n - 1] \in V
        BY <4>1
      <4> QED BY <1>1, <1>4, <3>2, <4>1, <4>2, Zenon DEF FoldStep
    <3> QED BY <3>1, <3>2
  <2>2. g = [n \in 0..Len(lines) |-> g[n]]
    OBVIOUS
  <2> QED BY <2>1, <2>2, Zenon DEF Delivers, v0
<1>6. Delivers(c, lines)
  BY <1>5, Zenon
<1>7. Folds(c, V, step, v0, lines)
  <2>1. /\ 0 \in 0..Len(lines)
        /\ \A n \in 0..(Len(lines) - 1) :
             n + 1 \in 0..Len(lines) /\ n + 1 # 0 /\ (n + 1) - 1 = n /\ lines[n + 1] \in L
    OBVIOUS
  <2>2. c[0] = v0 /\ \A n \in 0..(Len(lines) - 1) : c[n + 1] = Delivered(c[n], lines[n + 1])
    BY <1>6, <2>1, Zenon DEF Delivers, v0
  <2> QED BY <1>1, <2>1, <2>2, Zenon DEF Folds
<1>8. c[Len(lines)] = FoldOf(step, v0, lines) /\ c[Len(lines)] \in V
  BY <1>1, <1>7, FoldIs
<1> QED BY <1>8, Zenon DEF v0, step, MboxAfter

MboxOf(L, text) ==
    LET end == MboxAfter(L, NoMail, TextLines(text))
    IN IF end.current # << >> \/ ~end.seen THEN Append(end.mails, end.current) ELSE end.mails

LEMMA SplitIs ==
  ASSUME NEW L, NEW text, TextLines(text) \in Seq(L)
  PROVE  SplitMbox(text) = MboxOf(L, text)
<1> DEFINE lines == TextLines(text)  c == CHOOSE f : Delivers(f, lines)  end == c[Len(lines)]
<1>1. SplitMbox(text) = IF end.current # << >> \/ ~end.seen THEN Append(end.mails, end.current) ELSE end.mails
  BY Zenon DEF SplitMbox, Delivers
<1> HIDE DEF c
<1>2. end = MboxAfter(L, NoMail, lines)
  BY MboxFolds, Zenon DEF c
<1> HIDE DEF end
<1> QED BY <1>1, <1>2, Zenon DEF MboxOf, lines

\* Lines that begin no mail are added to the one that has begun.
LEMMA Collected ==
  ASSUME NEW L, NEW state \in MboxStates(L), NEW lines \in Seq(L),
         \A i \in 1..Len(lines) : ~Begins(lines[i], "From")
  PROVE  MboxAfter(L, state, lines) = [mails |-> state.mails, current |-> state.current \o lines, seen |-> state.seen]
<1> DEFINE Q == {line \in L : ~Begins(line, "From")}
           V == MboxStates(L)
           goal(v) == [mails |-> state.mails, current |-> state.current \o v, seen |-> state.seen]
           T == {v \in Seq(Q) : v \in Seq(L) /\ MboxAfter(L, state, v) = goal(v)}
<1>0. /\ state = [mails |-> state.mails, current |-> state.current, seen |-> state.seen]
      /\ state.mails \in Seq(Seq(L)) /\ state.current \in Seq(L) /\ state.seen \in BOOLEAN
  BY DEF MboxStates
<1>1. Stepping(MboxStep(L), V, L) /\ \A s \in V, line \in L : MboxStep(L)[<<s, line>>] = Delivered(s, line)
  BY MboxStepping, Zenon
<1>2. << >> \in T
  <2>1. goal(<< >>) = state
    <3>1. state.current \o << >> = state.current
      BY <1>0, ConcatEmptySeq
    <3> QED BY <1>0, <3>1
  <2>2. state \in V /\ Stepping(MboxStep(L), V, L)
    BY <1>1
  <2>3. MboxAfter(L, state, << >>) = state
    BY <2>2, FoldEmpty, Zenon DEF MboxAfter
  <2>4. << >> \in Seq(Q) /\ << >> \in Seq(L)
    OBVIOUS
  <2> QED BY <2>1, <2>3, <2>4, Zenon
<1>3. ASSUME NEW v \in Seq(Q), NEW e \in Q, v \in T PROVE Append(v, e) \in T
  <2> DEFINE s == goal(v)  w == Append(v, e)
  <2>1. v \in Seq(L) /\ e \in L /\ ~Begins(e, "From") /\ MboxAfter(L, state, v) = s
    BY <1>3
  <2>2. w \in Seq(Q) /\ w \in Seq(L)
    BY <2>1
  <2>3. s \in V /\ s.mails = state.mails /\ s.current = state.current \o v /\ s.seen = state.seen
    BY <1>0, <2>1 DEF MboxStates
  <2>4. MboxAfter(L, state, w) = Delivered(s, e)
    <3>1. FoldOf(MboxStep(L), state, Append(v, e)) = MboxStep(L)[<<FoldOf(MboxStep(L), state, v), e>>]
      <4>1. Stepping(MboxStep(L), V, L) /\ state \in V
        BY <1>1
      <4> QED BY <2>1, <4>1, FoldAppend
    <3> HIDE DEF s, V
    <3> QED BY <1>1, <2>1, <2>3, <3>1, Zenon DEF MboxAfter
  <2>5. Delivered(s, e) = [mails |-> s.mails, current |-> Append(s.current, e), seen |-> s.seen]
    <3> HIDE DEF s
    <3> QED BY <2>1, <2>3, DeliveredIs, Zenon DEF V
  <2>6. state.current \o w = Append(state.current \o v, e)
    <3> DEFINE cur == state.current
    <3>1. cur \in Seq(L)
      BY <1>0
    <3> HIDE DEF cur
    <3>2. cur \o Append(v, e) = Append(cur \o v, e)
      BY <2>1, <3>1
    <3> QED BY <3>2 DEF cur
  <2> HIDE DEF s, w
  <2>7. MboxAfter(L, state, w) = goal(w)
    BY <2>3, <2>4, <2>5, <2>6, Zenon
  <2> QED BY <2>2, <2>7, Zenon DEF w
<1>4. lines \in Seq(Q)
  <2>1. \A i \in 1..Len(lines) : lines[i] \in Q
    OBVIOUS
  <2>2. lines = [i \in 1..Len(lines) |-> lines[i]] /\ Len(lines) \in Nat
    OBVIOUS
  <2> HIDE DEF Q
  <2> QED BY <2>1, <2>2
<1>5. lines \in T
  <2> HIDE DEF T, Q
  <2> QED BY <1>2, <1>3, <1>4, Growth
<1> QED BY <1>5

\* Each mail as it stands in an mbox, after its "From " line.
Enveloped(mails, froms) == FlattenSeq([i \in DOMAIN mails |-> <<froms[i]>> \o mails[i]])

\* After as many mails, they are gathered.
GatheredTo(L, state, mails) ==
    /\ state \in MboxStates(L) /\ Gathered(state) = mails
    /\ state.seen \/ state = NoMail
    /\ state.seen \/ mails = << >>

LEMMA OneMailMore ==
  ASSUME NEW L, NEW state, NEW mails, GatheredTo(L, state, mails),
         NEW from \in L, Begins(from, "From"),
         NEW mail \in Seq(L), mail # << >>, \A i \in 1..Len(mail) : ~Begins(mail[i], "From")
  PROVE  GatheredTo(L, MboxAfter(L, state, <<from>> \o mail), Append(mails, mail))
<1> DEFINE V == MboxStates(L)  step == MboxStep(L)
           began == [mails |-> mails, current |-> << >>, seen |-> TRUE]
           done == [mails |-> mails, current |-> mail, seen |-> TRUE]
<1>1. state \in V /\ Gathered(state) = mails /\ (state.seen \/ state = NoMail)
  BY Zenon DEF GatheredTo
<1>2. Delivered(state, from) = began /\ began \in V
  BY <1>1, DeliveredIs, ZenonT(40)
<1>3. Stepping(step, V, L) /\ \A s \in V, line \in L : step[<<s, line>>] = Delivered(s, line)
  BY MboxStepping, Zenon
<1>4. MboxAfter(L, state, <<from>>) = began
  <2>1. FoldOf(step, state, <<from>>) = step[<<state, from>>]
    <3> HIDE DEF V, step
    <3> QED BY <1>1, <1>3, FoldOne
  <2> HIDE DEF began
  <2> QED BY <1>1, <1>2, <1>3, <2>1, Zenon DEF MboxAfter
<1>5. MboxAfter(L, began, mail) = done
  <2>1. began.mails = mails /\ began.current = << >> /\ began.seen = TRUE /\ << >> \o mail = mail
    BY ConcatEmptySeq
  <2> HIDE DEF began
  <2> QED BY <1>2, <2>1, Collected, Zenon
<1>6. MboxAfter(L, state, <<from>> \o mail) = done
  <2> DEFINE first == <<from>>
  <2>1. first \in Seq(L) /\ mail \in Seq(L) /\ state \in V /\ Stepping(step, V, L)
    BY <1>1, <1>3
  <2> HIDE DEF V, step, began, done, first
  <2>2. FoldOf(step, state, first \o mail) = FoldOf(step, FoldOf(step, state, first), mail)
    BY <2>1, FoldConcat
  <2> QED BY <1>4, <1>5, <2>2, Zenon DEF MboxAfter, step, first
<1>7. GatheredTo(L, done, Append(mails, mail))
  <2>1. mails \in Seq(Seq(L))
    BY <1>2 DEF MboxStates
  <2>2. done \in V /\ done.seen /\ Gathered(done) = Append(mails, mail)
    BY <2>1 DEF MboxStates, Gathered
  <2> HIDE DEF done
  <2> QED BY <2>2, Zenon DEF GatheredTo
<1> QED BY <1>6, <1>7, Zenon

\* Whatever mails an mbox holds, each after a line that begins with "From ", they are
\* the mails that are digested, each whole and in their order: a line of text begins
\* another one only with that word (split_mbox).
THEOREM MailsApart ==
  ASSUME NEW W, NEW mails \in Seq(Seq(Seq(W))), mails # << >>,
         NEW froms \in [1..Len(mails) -> Seq(W)],
         \A i \in 1..Len(mails) :
            /\ Begins(froms[i], "From") /\ mails[i] # << >>
            /\ \A j \in 1..Len(mails[i]) : ~Begins(mails[i][j], "From")
  PROVE  SplitMbox(Enveloped(mails, froms) \o <<<< >>>>) = mails
<1> DEFINE L == Seq(W)  m == Len(mails)  V == MboxStates(L)  step == MboxStep(L)  v0 == NoMail
           pieces == [i \in 1..m |-> <<froms[i]>> \o mails[i]]  text == FlattenSeq(pieces)
           P == Seq(L)  G == {p \in V \X Seq(P) : GatheredTo(L, p[1], p[2])}
<1>1. m \in Nat /\ DOMAIN mails = 1..m /\ mails \in [1..m -> Seq(L)]
  OBVIOUS
<1>2. \A i \in 1..m : /\ froms[i] \in L /\ Begins(froms[i], "From") /\ mails[i] \in Seq(L) /\ mails[i] # << >>
                      /\ \A j \in 1..Len(mails[i]) : ~Begins(mails[i][j], "From")
  <2> HIDE DEF L
  <2> QED BY <1>1, Zenon DEF L
<1>3. pieces \in [1..m -> Seq(L)] /\ text \in Seq(L)
  <2>1. ASSUME NEW i \in 1..m PROVE <<froms[i]>> \o mails[i] \in Seq(L)
    <3>1. froms[i] \in L /\ mails[i] \in Seq(L)
      BY <1>2, Zenon
    <3> HIDE DEF L
    <3> QED BY <3>1
  <2> HIDE DEF L, m
  <2>2. pieces \in [1..m -> Seq(L)]
    BY <2>1
  <2> HIDE DEF pieces
  <2>3. pieces \in Seq(Seq(L)) /\ << >> \in Seq(L)
    BY <1>1, <2>2
  <2>4. FlattenSeq(pieces) \in Seq(L)
    BY <2>3, FlattenAppend
  <2> QED BY <2>2, <2>4
<1>4. Stepping(step, V, L) /\ v0 \in V
  BY MboxStepping, Zenon
<1> HIDE DEF L
<1>10. ASSUME NEW v \in V, NEW got \in Seq(P)
       PROVE  <<v, got>> \in G <=> GatheredTo(L, v, got)
  <2> HIDE DEF V, P
  <2>1. <<v, got>> \in V \X Seq(P) /\ <<v, got>>[1] = v /\ <<v, got>>[2] = got
    OBVIOUS
  <2> QED BY <2>1, Zenon
<1>5. <<v0, << >>>> \in G
  <2>1. Gathered(v0) = << >>
    BY DEF Gathered, NoMail
  <2>2. GatheredTo(L, v0, << >>)
    BY <1>4, <2>1, Zenon DEF GatheredTo
  <2>3. << >> \in Seq(P)
    OBVIOUS
  <2> HIDE DEF V, v0, P, G
  <2> QED BY <1>4, <1>10, <2>2, <2>3, Zenon
<1>6. OneMore(G, V, P, step, pieces, mails)
  <2> SUFFICES ASSUME NEW v \in V, NEW got \in Seq(P), NEW i \in 1..m, <<v, got>> \in G
               PROVE  <<FoldOf(step, v, pieces[i]), Append(got, mails[i])>> \in G
    BY <1>1, Zenon DEF OneMore
  <2> DEFINE w == FoldOf(step, v, pieces[i])  more == Append(got, mails[i])
  <2>1. GatheredTo(L, v, got)
    <3> HIDE DEF V, G, P
    <3> QED BY <1>10
  <2>2. w = MboxAfter(L, v, <<froms[i]>> \o mails[i])
    <3> HIDE DEF m
    <3> QED BY Zenon DEF MboxAfter
  <2>3. GatheredTo(L, w, more)
    <3> HIDE DEF w
    <3> QED BY <1>2, <2>1, <2>2, OneMailMore, Zenon
  <2>4. w \in V
    <3> HIDE DEF w
    <3> QED BY <2>3, Zenon DEF GatheredTo
  <2>5. more \in Seq(P)
    <3>1. mails[i] \in P
      BY <1>2, Zenon
    <3> HIDE DEF P
    <3> QED BY <3>1
  <2> HIDE DEF w, more, V, G, P
  <2>6. <<w, more>> \in G
    BY <1>10, <2>3, <2>4, <2>5, Zenon
  <2> QED BY <2>6 DEF w, more
<1>7. <<FoldOf(step, v0, text), mails>> \in G
  <2>1. mails \in [1..m -> P] /\ pieces \in [1..m -> Seq(L)]
    BY <1>1, <1>3
  <2> HIDE DEF V, step, v0, pieces, m, G, P
  <2> QED BY <1>1, <1>4, <1>5, <1>6, <2>1, FoldPieces
<1>8. GatheredTo(L, MboxAfter(L, NoMail, text), mails)
  <2> DEFINE end == MboxAfter(L, NoMail, text)
  <2>1. <<end, mails>> \in G
    BY <1>7, Zenon DEF MboxAfter
  <2>2. end \in V
    <3>1. FoldOf(step, v0, text) \in V
      <4> HIDE DEF V, step, v0, text
      <4> QED BY <1>3, <1>4, FoldType
    <3> QED BY <3>1, Zenon DEF MboxAfter
  <2>3. mails \in Seq(P)
    BY <1>1 DEF L
  <2> HIDE DEF end, V, G, P
  <2>4. GatheredTo(L, end, mails)
    BY <1>10, <2>1, <2>2, <2>3, Zenon
  <2> QED BY <2>4 DEF end
<1>0. Enveloped(mails, froms) = text
  BY <1>1, Zenon DEF Enveloped
<1> HIDE DEF pieces
<1>9. TextLines(text \o <<<< >>>>) = text
  <2>1. << >> \in L
    BY DEF L
  <2> HIDE DEF text
  <2> QED BY <1>3, <2>1, LinesEnd
<1> DEFINE end == MboxAfter(L, NoMail, text)
<1>11. SplitMbox(text \o <<<< >>>>) = IF end.current # << >> \/ ~end.seen THEN Append(end.mails, end.current) ELSE end.mails
  <2> DEFINE whole == text \o <<<< >>>>
  <2> HIDE DEF text, whole, end
  <2>1. TextLines(whole) = text
    BY <1>9, Zenon DEF whole
  <2>2. SplitMbox(whole) = MboxOf(L, whole)
    BY <1>3, <2>1, SplitIs, Zenon
  <2> QED BY <2>1, <2>2, Zenon DEF MboxOf, whole, end
<1>12. end.seen /\ Gathered(end) = mails
  <2>1. GatheredTo(L, end, mails)
    BY <1>8
  <2>2. mails # << >>
    OBVIOUS
  <2> HIDE DEF end, m
  <2> QED BY <2>1, <2>2, Zenon DEF GatheredTo
<1> HIDE DEF end, text
<1>13. SplitMbox(text \o <<<< >>>>) = Gathered(end)
  BY <1>11, <1>12, Zenon DEF Gathered
<1> QED BY <1>0, <1>12, <1>13, Zenon DEF text

(***************************************************************************)
(* The parts of a body                                                     *)
(***************************************************************************)
PartStates(L) == [parts : Seq(Seq(L)), current : Seq(L), inside : BOOLEAN, closed : BOOLEAN]
Marker(b) == <<<<"marker", b>>>>
Closing(b) == <<<<"closing", b>>>>
MarkLines(b) == {Marker(b), Closing(b)}
PartStep(L, b) == [p \in PartStates(L) \X L |-> Parted(p[1], p[2], b)]
PartsAfter(L, b, state, lines) == FoldOf(PartStep(L, b), state, lines)
Parts(f, lines, b) ==
    f = [n \in 0..Len(lines) |-> IF n = 0 THEN NoPart ELSE Parted(f[n - 1], lines[n], b)]

\* What a marker leaves of a state in which it counts.
Cut(state, closed) == [parts |-> AtTheEnd(state), current |-> << >>, inside |-> TRUE, closed |-> closed]

PartedBy(state, line, b) ==
    /\ state.closed => Parted(state, line, b) = state
    /\ ~state.inside /\ line \notin MarkLines(b) => Parted(state, line, b) = state
    /\ ~state.closed /\ state.inside /\ line \notin MarkLines(b) =>
         Parted(state, line, b) = [parts |-> state.parts, current |-> Append(state.current, line),
                                   inside |-> TRUE, closed |-> FALSE]
    /\ ~state.closed /\ (state.inside \/ state.current = << >>) /\ line = Marker(b) =>
         Parted(state, line, b) = Cut(state, FALSE)
    /\ ~state.closed /\ (state.inside \/ state.current = << >>) /\ line = Closing(b) =>
         Parted(state, line, b) = Cut(state, TRUE)

LEMMA PartedIs ==
  ASSUME NEW L, NEW b, NEW state \in PartStates(L), NEW line \in L
  PROVE  PartedBy(state, line, b) /\ Parted(state, line, b) \in PartStates(L)
<1> DEFINE mark == line \in MarkLines(b)  close == line = Closing(b)
           kept == IF state.inside /\ state.current # << >>
                   THEN Append(state.parts, state.current) ELSE state.parts
           cut == [parts |-> kept, current |-> << >>, inside |-> TRUE, closed |-> close]
           more == [parts |-> state.parts, current |-> Append(state.current, line),
                    inside |-> state.inside, closed |-> state.closed]
<1>1. /\ state = [parts |-> state.parts, current |-> state.current, inside |-> state.inside, closed |-> state.closed]
      /\ state.parts \in Seq(Seq(L)) /\ state.current \in Seq(L) /\ state.inside \in BOOLEAN
      /\ state.closed \in BOOLEAN
  BY DEF PartStates
<1>2. close \in BOOLEAN /\ mark \in BOOLEAN
  OBVIOUS
<1>3. /\ line = Marker(b) => mark /\ close = FALSE
      /\ line = Closing(b) => mark /\ close = TRUE
  BY DEF MarkLines, Marker, Closing
<1>4. Parted(state, line, b) =
        IF state.closed THEN state ELSE IF mark THEN cut
        ELSE IF state.inside THEN [state EXCEPT !.current = Append(state.current, line)] ELSE state
  BY Zenon DEF Parted, MarkLines, Marker, Closing
<1> HIDE DEF mark, close
<1>5. [state EXCEPT !.current = Append(state.current, line)] = more
  <2> DEFINE added == Append(state.current, line)
  <2> HIDE DEF added
  <2>1. [state EXCEPT !.current = added] = [parts |-> state.parts, current |-> added,
                                            inside |-> state.inside, closed |-> state.closed]
    BY DEF PartStates
  <2> QED BY <2>1 DEF added
<1>6. kept \in Seq(Seq(L))
  BY <1>1
<1>7. state.inside \/ state.current = << >> => kept = AtTheEnd(state)
  BY DEF AtTheEnd
<1> HIDE DEF kept
<1>8. cut \in PartStates(L) /\ more \in PartStates(L)
  BY <1>1, <1>2, <1>6 DEF PartStates
<1>9. /\ close = FALSE /\ kept = AtTheEnd(state) => cut = Cut(state, FALSE)
      /\ close = TRUE /\ kept = AtTheEnd(state) => cut = Cut(state, TRUE)
  BY Zenon DEF Cut
<1>10. ~state.closed /\ state.inside => more = [parts |-> state.parts, current |-> Append(state.current, line),
                                                inside |-> TRUE, closed |-> FALSE]
  BY <1>1
<1> HIDE DEF cut, more
<1>11. /\ state.closed => Parted(state, line, b) = state
       /\ ~state.closed /\ mark => Parted(state, line, b) = cut
       /\ ~state.inside /\ ~mark => Parted(state, line, b) = state
       /\ ~state.closed /\ state.inside /\ ~mark => Parted(state, line, b) = more
  BY <1>4, <1>5, Zenon
<1>12. Parted(state, line, b) \in PartStates(L)
  BY <1>8, <1>11, Zenon
<1>13. line \notin MarkLines(b) => ~mark
  BY DEF mark
<1>14. ~state.inside /\ line \notin MarkLines(b) => Parted(state, line, b) = state
  BY <1>11, <1>13, Zenon
<1>15. ~state.closed /\ state.inside /\ line \notin MarkLines(b) =>
         Parted(state, line, b) = [parts |-> state.parts, current |-> Append(state.current, line),
                                   inside |-> TRUE, closed |-> FALSE]
  BY <1>10, <1>11, <1>13, Zenon
<1>16. ~state.closed /\ (state.inside \/ state.current = << >>) /\ line = Marker(b) =>
         Parted(state, line, b) = Cut(state, FALSE)
  BY <1>3, <1>7, <1>9, <1>11, Zenon
<1>17. ~state.closed /\ (state.inside \/ state.current = << >>) /\ line = Closing(b) =>
         Parted(state, line, b) = Cut(state, TRUE)
  BY <1>3, <1>7, <1>9, <1>11, Zenon
<1> QED BY <1>11, <1>12, <1>14, <1>15, <1>16, <1>17, Zenon DEF PartedBy

LEMMA PartStepping ==
  ASSUME NEW L, NEW b
  PROVE  /\ Stepping(PartStep(L, b), PartStates(L), L) /\ NoPart \in PartStates(L)
         /\ \A state \in PartStates(L), line \in L : PartStep(L, b)[<<state, line>>] = Parted(state, line, b)
<1>1. \A state \in PartStates(L), line \in L : Parted(state, line, b) \in PartStates(L)
  BY PartedIs, Zenon
<1>2. NoPart \in PartStates(L)
  BY DEF NoPart, PartStates
<1> DEFINE V == PartStates(L)
<1> HIDE DEF V
<1>3. \A p \in V \X L : p[1] \in V /\ p[2] \in L
  OBVIOUS
<1>4. \A state \in V, line \in L :
        <<state, line>> \in V \X L /\ <<state, line>>[1] = state /\ <<state, line>>[2] = line
  OBVIOUS
<1>5. Stepping(PartStep(L, b), V, L)
  BY <1>1, <1>3, Zenon DEF Stepping, PartStep, V
<1>6. \A state \in V, line \in L : PartStep(L, b)[<<state, line>>] = Parted(state, line, b)
  BY <1>4, Zenon DEF PartStep, V
<1> QED BY <1>2, <1>5, <1>6, Zenon DEF V

LEMMA PartFolds ==
  ASSUME NEW L, NEW b, NEW lines \in Seq(L), NEW c, c = CHOOSE f : Parts(f, lines, b)
  PROVE  c[Len(lines)] = PartsAfter(L, b, NoPart, lines)
<1> DEFINE step == PartStep(L, b)  V == PartStates(L)  v0 == NoPart
<1>1. Stepping(step, V, L) /\ v0 \in V /\ \A state \in V, line \in L : step[<<state, line>>] = Parted(state, line, b)
  BY PartStepping, Zenon
<1> HIDE DEF step, V, v0
<1>3. PICK g \in [0..Len(lines) -> V] : Recursive(g, step, v0, lines)
  BY <1>1, FoldDefined
<1>4. \A n \in 0..Len(lines) : g[n] = FoldStep(g, step, v0, lines, n)
  BY <1>3, Zenon DEF Recursive
<1>5. Parts(g, lines, b)
  <2>1. ASSUME NEW n \in 0..Len(lines)
        PROVE  g[n] = IF n = 0 THEN v0 ELSE Parted(g[n - 1], lines[n], b)
    <3>1. CASE n = 0
      BY <1>4, <3>1, Zenon DEF FoldStep
    <3>2. CASE n # 0
      <4>1. n - 1 \in 0..Len(lines) /\ lines[n] \in L
        BY <3>2
      <4>2. g[n - 1] \in V
        BY <4>1
      <4> QED BY <1>1, <1>4, <3>2, <4>1, <4>2, Zenon DEF FoldStep
    <3> QED BY <3>1, <3>2
  <2>2. g = [n \in 0..Len(lines) |-> g[n]]
    OBVIOUS
  <2> QED BY <2>1, <2>2, Zenon DEF Parts, v0
<1>6. Parts(c, lines, b)
  BY <1>5, Zenon
<1>7. Folds(c, V, step, v0, lines)
  <2>1. /\ 0 \in 0..Len(lines)
        /\ \A n \in 0..(Len(lines) - 1) :
             n + 1 \in 0..Len(lines) /\ n + 1 # 0 /\ (n + 1) - 1 = n /\ lines[n + 1] \in L
    OBVIOUS
  <2>2. c[0] = v0 /\ \A n \in 0..(Len(lines) - 1) : c[n + 1] = Parted(c[n], lines[n + 1], b)
    BY <1>6, <2>1, Zenon DEF Parts, v0
  <2> QED BY <1>1, <2>1, <2>2, Zenon DEF Folds
<1>8. c[Len(lines)] = FoldOf(step, v0, lines) /\ c[Len(lines)] \in V
  BY <1>1, <1>7, FoldIs
<1> QED BY <1>8, Zenon DEF v0, step, PartsAfter

LEMMA PartsAre ==
  ASSUME NEW L, NEW b, NEW text, TextLines(text) \in Seq(L)
  PROVE  SplitMultipart(text, b) = AtTheEnd(PartsAfter(L, b, NoPart, TextLines(text)))
<1> DEFINE lines == TextLines(text)  c == CHOOSE f : Parts(f, lines, b)
<1>1. SplitMultipart(text, b) = AtTheEnd(c[Len(lines)])
  BY Zenon DEF SplitMultipart, Parts
<1> HIDE DEF c
<1>2. c[Len(lines)] = PartsAfter(L, b, NoPart, lines)
  BY PartFolds, Zenon DEF c
<1> QED BY <1>1, <1>2, Zenon DEF lines

NoMark(lines, b) == \A i \in 1..Len(lines) : lines[i] \notin MarkLines(b)

\* Lines that mark nothing are added to the part that has begun.
LEMMA PartCollected ==
  ASSUME NEW L, NEW b, NEW state \in PartStates(L), state.inside, ~state.closed,
         NEW lines \in Seq(L), NoMark(lines, b)
  PROVE  PartsAfter(L, b, state, lines) =
           [parts |-> state.parts, current |-> state.current \o lines, inside |-> TRUE, closed |-> FALSE]
<1> DEFINE Q == {line \in L : line \notin MarkLines(b)}
           V == PartStates(L)  step == PartStep(L, b)
           goal(v) == [parts |-> state.parts, current |-> state.current \o v, inside |-> TRUE, closed |-> FALSE]
           T == {v \in Seq(Q) : v \in Seq(L) /\ FoldOf(step, state, v) = goal(v)}
<1>0. /\ state = [parts |-> state.parts, current |-> state.current, inside |-> TRUE, closed |-> FALSE]
      /\ state.parts \in Seq(Seq(L)) /\ state.current \in Seq(L) /\ state \in V
  BY DEF PartStates
<1>1. Stepping(step, V, L) /\ \A s \in V, line \in L : step[<<s, line>>] = Parted(s, line, b)
  BY PartStepping, Zenon
<1> HIDE DEF step
<1>2. << >> \in T
  <2>1. goal(<< >>) = state
    <3>1. state.current \o << >> = state.current
      BY <1>0, ConcatEmptySeq
    <3> QED BY <1>0, <3>1
  <2>2. FoldOf(step, state, << >>) = state
    <3> HIDE DEF V
    <3> QED BY <1>0, <1>1, FoldEmpty, Zenon
  <2>4. << >> \in Seq(Q) /\ << >> \in Seq(L)
    OBVIOUS
  <2> QED BY <2>1, <2>2, <2>4, Zenon
<1>3. ASSUME NEW v \in Seq(Q), NEW e \in Q, v \in T PROVE Append(v, e) \in T
  <2> DEFINE s == goal(v)  w == Append(v, e)
  <2>1. v \in Seq(L) /\ e \in L /\ e \notin MarkLines(b) /\ FoldOf(step, state, v) = s
    BY <1>3
  <2>2. w \in Seq(Q) /\ w \in Seq(L)
    BY <2>1
  <2>3. s \in V /\ s.parts = state.parts /\ s.current = state.current \o v /\ s.inside /\ ~s.closed
    BY <1>0, <2>1 DEF PartStates
  <2>4. FoldOf(step, state, w) = Parted(s, e, b)
    <3> HIDE DEF V, s
    <3>1. FoldOf(step, state, Append(v, e)) = step[<<FoldOf(step, state, v), e>>]
      BY <1>0, <1>1, <2>1, FoldAppend
    <3> QED BY <1>1, <2>1, <2>3, <3>1, Zenon
  <2>5. Parted(s, e, b) = [parts |-> s.parts, current |-> Append(s.current, e), inside |-> TRUE, closed |-> FALSE]
    <3> HIDE DEF s
    <3>1. PartedBy(s, e, b)
      BY <2>1, <2>3, PartedIs, Zenon DEF V
    <3> QED BY <2>1, <2>3, <3>1, Zenon DEF PartedBy
  <2>6. state.current \o w = Append(state.current \o v, e)
    <3> DEFINE cur == state.current
    <3>1. cur \in Seq(L)
      BY <1>0
    <3> HIDE DEF cur
    <3>2. cur \o Append(v, e) = Append(cur \o v, e)
      BY <2>1, <3>1
    <3> QED BY <3>2 DEF cur
  <2> HIDE DEF s, w
  <2>7. FoldOf(step, state, w) = goal(w)
    BY <2>3, <2>4, <2>5, <2>6, Zenon
  <2> QED BY <2>2, <2>7, Zenon DEF w
<1>4. lines \in Seq(Q)
  <2>1. \A i \in 1..Len(lines) : lines[i] \in Q
    BY DEF NoMark
  <2>2. lines = [i \in 1..Len(lines) |-> lines[i]] /\ Len(lines) \in Nat
    OBVIOUS
  <2> HIDE DEF Q
  <2> QED BY <2>1, <2>2
<1>5. lines \in T
  <2> HIDE DEF T, Q
  <2> QED BY <1>2, <1>3, <1>4, Growth
<1> QED BY <1>5 DEF PartsAfter, step

\* After as many parts, they are gathered.
PartsGathered(L, state, parts) ==
    /\ state \in PartStates(L) /\ ~state.closed /\ AtTheEnd(state) = parts
    /\ state.inside \/ state.current = << >>

LEMMA OnePartMore ==
  ASSUME NEW L, NEW b, Marker(b) \in L, NEW state, NEW parts, PartsGathered(L, state, parts),
         NEW part \in Seq(L), part # << >>, NoMark(part, b)
  PROVE  PartsGathered(L, PartsAfter(L, b, state, <<Marker(b)>> \o part), Append(parts, part))
<1> DEFINE V == PartStates(L)  step == PartStep(L, b)  mark == Marker(b)
           began == Cut(state, FALSE)
           done == [parts |-> parts, current |-> part, inside |-> TRUE, closed |-> FALSE]
<1>1. state \in V /\ ~state.closed /\ AtTheEnd(state) = parts /\ (state.inside \/ state.current = << >>)
  BY Zenon DEF PartsGathered
<1>2. Parted(state, mark, b) = began /\ began \in V
  <2>1. PartedBy(state, mark, b) /\ Parted(state, mark, b) \in V
    BY <1>1, PartedIs, Zenon
  <2> HIDE DEF V, began
  <2>2. Parted(state, mark, b) = began
    BY <1>1, <2>1, Zenon DEF PartedBy, began
  <2> QED BY <2>1, <2>2, Zenon
<1>3. Stepping(step, V, L) /\ \A s \in V, line \in L : step[<<s, line>>] = Parted(s, line, b)
  BY PartStepping, Zenon
<1>4. FoldOf(step, state, <<mark>>) = began
  <2>1. FoldOf(step, state, <<mark>>) = step[<<state, mark>>]
    <3> HIDE DEF V, step
    <3> QED BY <1>1, <1>3, FoldOne
  <2> HIDE DEF V, step, began
  <2> QED BY <1>1, <1>2, <1>3, <2>1, Zenon
<1>5. PartsAfter(L, b, began, part) = done
  <2>1. began.parts = parts /\ began.current = << >> /\ began.inside /\ ~began.closed /\ << >> \o part = part
    BY <1>1, ConcatEmptySeq DEF Cut
  <2> HIDE DEF began
  <2> QED BY <1>2, <2>1, PartCollected, Zenon
<1>6. FoldOf(step, state, <<mark>> \o part) = done
  <2> DEFINE first == <<mark>>
  <2>1. first \in Seq(L) /\ part \in Seq(L) /\ state \in V /\ Stepping(step, V, L)
    BY <1>1, <1>3
  <2> HIDE DEF V, step, began, done, first
  <2>2. FoldOf(step, state, first \o part) = FoldOf(step, FoldOf(step, state, first), part)
    BY <2>1, FoldConcat
  <2> QED BY <1>4, <1>5, <2>2, Zenon DEF PartsAfter, step, first
<1>7. PartsGathered(L, done, Append(parts, part))
  <2>1. parts \in Seq(Seq(L))
    BY <1>1, <1>2 DEF PartStates, Cut
  <2>2. done \in V /\ ~done.closed /\ done.inside /\ AtTheEnd(done) = Append(parts, part)
    BY <2>1 DEF PartStates, AtTheEnd
  <2> HIDE DEF done
  <2> QED BY <2>2, Zenon DEF PartsGathered
<1> QED BY <1>6, <1>7, Zenon DEF PartsAfter

\* The parts of a body, each after a line that is the marker.
Marked(parts, b) == FlattenSeq([i \in DOMAIN parts |-> <<Marker(b)>> \o parts[i]])

\* A body that has a marker before each of its parts is split into these parts, in
\* their order, whether the closing marker follows or the mail breaks off: neither
\* what comes before the first marker nor what comes after the closing one counts
\* (split_multipart).
THEOREM PartsApart ==
  ASSUME NEW L, << >> \in L, NEW b, Marker(b) \in L, Closing(b) \in L,
         NEW parts \in Seq(Seq(L)), \A i \in 1..Len(parts) : parts[i] # << >> /\ NoMark(parts[i], b),
         NEW before \in Seq(L), NoMark(before, b), NEW after \in Seq(L)
  PROVE  /\ SplitMultipart(before \o Marked(parts, b) \o <<<< >>>>, b) = parts
         /\ SplitMultipart(before \o Marked(parts, b) \o (<<Closing(b)>> \o after) \o <<<< >>>>, b) = parts
<1> DEFINE m == Len(parts)  V == PartStates(L)  step == PartStep(L, b)  v0 == NoPart
           pieces == [i \in 1..m |-> <<Marker(b)>> \o parts[i]]  marked == FlattenSeq(pieces)
           P == Seq(L)  G == {p \in V \X Seq(P) : PartsGathered(L, p[1], p[2])}
           text == before \o marked  end == FoldOf(step, v0, text)
<1>1. m \in Nat /\ DOMAIN parts = 1..m /\ parts \in [1..m -> Seq(L)]
  OBVIOUS
<1>2. \A i \in 1..m : parts[i] \in Seq(L) /\ parts[i] # << >> /\ NoMark(parts[i], b)
  BY <1>1
<1>3. pieces \in [1..m -> Seq(L)] /\ marked \in Seq(L) /\ text \in Seq(L)
  <2> DEFINE mark == Marker(b)
  <2> HIDE DEF m, mark
  <2>1. mark \in L
    BY DEF mark
  <2>2. pieces \in [1..m -> Seq(L)]
    <3>1. ASSUME NEW i \in 1..m PROVE <<mark>> \o parts[i] \in Seq(L)
      BY <1>2, <2>1
    <3> QED BY <3>1 DEF mark
  <2> HIDE DEF pieces
  <2>3. pieces \in Seq(Seq(L)) /\ << >> \in Seq(L)
    BY <1>1, <2>2
  <2>4. marked \in Seq(L)
    BY <2>3, FlattenAppend
  <2> HIDE DEF marked
  <2> QED BY <2>2, <2>4
<1>4. /\ Stepping(step, V, L) /\ v0 \in V
      /\ \A s \in V, line \in L : step[<<s, line>>] = Parted(s, line, b)
  BY PartStepping, Zenon
<1>5. ~v0.closed /\ ~v0.inside /\ v0.current = << >> /\ AtTheEnd(v0) = << >>
  BY DEF NoPart, AtTheEnd
<1>0. ASSUME NEW v \in V, NEW got \in Seq(P)
      PROVE  <<v, got>> \in G <=> PartsGathered(L, v, got)
  <2> HIDE DEF V, P
  <2>1. <<v, got>> \in V \X Seq(P) /\ <<v, got>>[1] = v /\ <<v, got>>[2] = got
    OBVIOUS
  <2> QED BY <2>1, Zenon
<1>6. <<v0, << >>>> \in G
  <2>0. << >> \in Seq(P)
    OBVIOUS
  <2> HIDE DEF V, v0, P, G
  <2>1. PartsGathered(L, v0, << >>)
    BY <1>4, <1>5, Zenon DEF PartsGathered, V
  <2> QED BY <1>0, <1>4, <2>0, <2>1, Zenon
<1>7. OneMore(G, V, P, step, pieces, parts)
  <2> SUFFICES ASSUME NEW v \in V, NEW got \in Seq(P), NEW i \in 1..m, <<v, got>> \in G
               PROVE  <<FoldOf(step, v, pieces[i]), Append(got, parts[i])>> \in G
    BY <1>1, Zenon DEF OneMore
  <2> DEFINE w == FoldOf(step, v, pieces[i])  more == Append(got, parts[i])
  <2>1. PartsGathered(L, v, got)
    <3> HIDE DEF V, G, P
    <3> QED BY <1>0
  <2>2. w = PartsAfter(L, b, v, <<Marker(b)>> \o parts[i])
    <3> HIDE DEF m
    <3> QED BY Zenon DEF PartsAfter
  <2>3. PartsGathered(L, w, more)
    <3> HIDE DEF w
    <3> QED BY <1>2, <2>1, <2>2, OnePartMore, Zenon
  <2>4. w \in V
    <3> HIDE DEF w
    <3> QED BY <2>3, Zenon DEF PartsGathered
  <2>5. more \in Seq(P)
    <3>1. parts[i] \in P
      BY <1>2, Zenon
    <3> HIDE DEF P
    <3> QED BY <3>1
  <2> HIDE DEF w, more, V, G, P
  <2>6. <<w, more>> \in G
    BY <1>0, <2>3, <2>4, <2>5, Zenon
  <2> QED BY <2>6 DEF w, more
<1>8. <<FoldOf(step, v0, marked), parts>> \in G
  <2>1. parts \in [1..m -> P] /\ pieces \in [1..m -> Seq(L)]
    BY <1>1, <1>3
  <2> HIDE DEF V, step, v0, pieces, m, G, P
  <2> QED BY <1>1, <1>4, <1>6, <1>7, <2>1, FoldPieces
<1>9. FoldOf(step, v0, before) = v0
  <2>1. ASSUME NEW i \in 1..Len(before) PROVE step[<<v0, before[i]>>] = v0
    <3> DEFINE line == before[i]
    <3>1. line \in L /\ line \notin MarkLines(b)
      BY DEF NoMark
    <3> HIDE DEF v0, step, line
    <3>2. PartedBy(v0, line, b)
      BY <1>4, <3>1, PartedIs, Zenon
    <3>3. Parted(v0, line, b) = v0
      BY <1>5, <3>1, <3>2, Zenon DEF PartedBy
    <3> QED BY <1>4, <3>1, <3>3, Zenon DEF line
  <2> HIDE DEF V, step, v0
  <2> QED BY <1>4, <2>1, FoldStays
<1>10. PartsGathered(L, end, parts)
  <2>1. FoldOf(step, v0, before \o marked) = FoldOf(step, FoldOf(step, v0, before), marked)
    <3> HIDE DEF V, step, v0, marked
    <3> QED BY <1>3, <1>4, FoldConcat
  <2>2. <<end, parts>> \in G
    BY <1>8, <1>9, <2>1, Zenon
  <2>3. end \in V
    <3> HIDE DEF V, step, v0, text
    <3> QED BY <1>3, <1>4, FoldType
  <2>4. parts \in Seq(P)
    OBVIOUS
  <2> HIDE DEF end, V, G, P
  <2> QED BY <1>0, <2>2, <2>3, <2>4
<1>11. end \in V /\ ~end.closed /\ AtTheEnd(end) = parts /\ (end.inside \/ end.current = << >>)
  <2> HIDE DEF end
  <2> QED BY <1>10, Zenon DEF PartsGathered
<1> DEFINE last == <<Closing(b)>> \o after  cut == Cut(end, TRUE)
<1>12. last \in Seq(L) /\ <<Closing(b)>> \in Seq(L)
  <2> DEFINE c == Closing(b)
  <2> HIDE DEF c
  <2>1. c \in L
    BY DEF c
  <2>2. <<c>> \o after \in Seq(L) /\ <<c>> \in Seq(L)
    BY <2>1
  <2> QED BY <2>2 DEF c
<1> HIDE DEF end
<1>13. FoldOf(step, end, <<Closing(b)>>) = cut /\ cut \in V
  <2>1. PartedBy(end, Closing(b), b) /\ Parted(end, Closing(b), b) \in V
    BY <1>11, PartedIs, Zenon
  <2> HIDE DEF V, cut
  <2>2. Parted(end, Closing(b), b) = cut
    BY <1>11, <2>1, Zenon DEF PartedBy, cut
  <2>3. FoldOf(step, end, <<Closing(b)>>) = step[<<end, Closing(b)>>]
    <3> HIDE DEF step
    <3> QED BY <1>4, <1>11, FoldOne
  <2> HIDE DEF step
  <2> QED BY <1>4, <1>11, <2>1, <2>2, <2>3, Zenon
<1>14. cut.closed /\ AtTheEnd(cut) = parts
  BY <1>11 DEF Cut, AtTheEnd
<1> HIDE DEF cut
<1>15. FoldOf(step, cut, after) = cut
  <2>1. ASSUME NEW i \in 1..Len(after) PROVE step[<<cut, after[i]>>] = cut
    <3> DEFINE line == after[i]
    <3>1. line \in L
      OBVIOUS
    <3> HIDE DEF step, line
    <3>2. PartedBy(cut, line, b)
      BY <1>13, <3>1, PartedIs, Zenon
    <3>3. Parted(cut, line, b) = cut
      BY <1>14, <3>2, Zenon DEF PartedBy
    <3> QED BY <1>4, <1>13, <3>1, <3>3, Zenon DEF line
  <2> HIDE DEF V, step
  <2> QED BY <1>4, <1>13, <2>1, FoldStays
<1>16. FoldOf(step, v0, text \o last) = cut
  <2> HIDE DEF V, step, v0, text
  <2>1. FoldOf(step, end, <<Closing(b)>> \o after) = FoldOf(step, FoldOf(step, end, <<Closing(b)>>), after)
    <3> DEFINE first == <<Closing(b)>>
    <3> HIDE DEF first
    <3>1. first \in Seq(L)
      BY <1>12 DEF first
    <3>2. FoldOf(step, end, first \o after) = FoldOf(step, FoldOf(step, end, first), after)
      BY <1>4, <1>11, <3>1, FoldConcat
    <3> QED BY <3>2 DEF first
  <2>2. FoldOf(step, end, last) = cut
    BY <1>13, <1>15, <2>1, Zenon
  <2> HIDE DEF last
  <2>3. FoldOf(step, v0, text \o last) = FoldOf(step, FoldOf(step, v0, text), last)
    BY <1>3, <1>4, <1>12, FoldConcat
  <2> QED BY <2>2, <2>3, Zenon DEF end
<1>17. ASSUME NEW u \in Seq(L)
       PROVE  SplitMultipart(u \o <<<< >>>>, b) = AtTheEnd(FoldOf(step, v0, u))
  <2> DEFINE whole == u \o <<<< >>>>
  <2>1. TextLines(whole) = u
    BY LinesEnd
  <2> HIDE DEF whole
  <2>2. SplitMultipart(whole, b) = AtTheEnd(PartsAfter(L, b, NoPart, TextLines(whole)))
    BY <2>1, PartsAre, Zenon
  <2> QED BY <2>1, <2>2, Zenon DEF PartsAfter, whole
<1>18. text \o last \in Seq(L)
  <2> HIDE DEF text, last
  <2> QED BY <1>3, <1>12
<1>19. Marked(parts, b) = marked
  BY <1>1, Zenon DEF Marked
<1>20. SplitMultipart(text \o <<<< >>>>, b) = parts
  <2> HIDE DEF text, step, v0
  <2> QED BY <1>3, <1>11, <1>17, Zenon DEF end
<1>21. SplitMultipart((text \o last) \o <<<< >>>>, b) = parts
  <2> HIDE DEF text, last, step, v0
  <2> QED BY <1>14, <1>16, <1>17, <1>18, Zenon
<1> QED BY <1>19, <1>20, <1>21, Zenon

(***************************************************************************)
(* The lines that count                                                    *)
(***************************************************************************)
\* A function applied to each element of two texts in one is applied to each of both.
Each(f, s) == [i \in DOMAIN s |-> f[s[i]]]

EachJoined(f, s, t) == Each(f, s \o t) = Each(f, s) \o Each(f, t)

LEMMA EachConcat ==
  ASSUME NEW S, NEW V, NEW f \in [S -> V], NEW s \in Seq(S), NEW t \in Seq(S)
  PROVE  EachJoined(f, s, t) /\ Each(f, s) \in Seq(V)
<1>1. ASSUME NEW u \in Seq(S)
      PROVE  Each(f, u) \in Seq(V) /\ Len(Each(f, u)) = Len(u) /\ \A i \in 1..Len(u) : Each(f, u)[i] = f[u[i]]
  <2>1. DOMAIN u = 1..Len(u) /\ Len(u) \in Nat /\ \A i \in 1..Len(u) : f[u[i]] \in V
    OBVIOUS
  <2> QED BY <2>1 DEF Each
<1> DEFINE u == s \o t  a == Each(f, s)  b == Each(f, t)  c == Each(f, u)  d == a \o b
<1>2. u \in Seq(S) /\ Joining(u, s, t, S)
  BY PlacesJoined
<1>3. /\ a \in Seq(V) /\ Len(a) = Len(s) /\ \A i \in 1..Len(s) : a[i] = f[s[i]]
      /\ b \in Seq(V) /\ Len(b) = Len(t) /\ \A i \in 1..Len(t) : b[i] = f[t[i]]
      /\ c \in Seq(V) /\ Len(c) = Len(u) /\ \A i \in 1..Len(u) : c[i] = f[u[i]]
  BY <1>1, <1>2, Zenon
<1> HIDE DEF a, b, c
<1>4. Joining(d, a, b, V) /\ d \in Seq(V)
  BY <1>3, PlacesJoined
<1> HIDE DEF u, d
<1>5. Len(c) = Len(d)
  BY <1>2, <1>3, <1>4 DEF Joining
<1>6. \A i \in 1..Len(c) : c[i] = d[i]
  <2> SUFFICES ASSUME NEW i \in 1..Len(c) PROVE c[i] = d[i]
    OBVIOUS
  <2>1. CASE i <= Len(s)
    BY <1>2, <1>3, <1>4, <2>1 DEF Joining
  <2>2. CASE i > Len(s)
    <3>1. PICK j \in 1..Len(t) : i = j + Len(s)
      <4>1. Len(c) = Len(s) + Len(t) /\ Len(s) \in Nat /\ Len(t) \in Nat
        BY <1>2, <1>3 DEF Joining
      <4>2. i - Len(s) \in 1..Len(t) /\ i = (i - Len(s)) + Len(s)
        BY <2>2, <4>1
      <4> QED BY <4>2
    <3> QED BY <1>2, <1>3, <1>4, <3>1 DEF Joining
  <2> QED BY <2>1, <2>2, <1>3
<1>7. c = d
  BY <1>3, <1>4, <1>5, <1>6, SeqEqual
<1> QED BY <1>3, <1>7, Zenon DEF a, b, c, d, u, EachJoined

\* The normalized lines of payloads of words from W, and those of them that count.
Normalizing(W) == [line \in Seq(W) |-> Normalize(line)]
LinesOfPayload(W) == [p \in Seq(Seq(W)) |-> Each(Normalizing(W), p)]
Counting(W) == {line \in Seq(W) : ShouldHandleLine(line)}
AllLines(W, payloads) == FlattenSeq(Each(LinesOfPayload(W), payloads))

LEMMA Normalizes ==
  ASSUME NEW W
  PROVE  /\ Normalizing(W) \in [Seq(W) -> Seq(W)]
         /\ \A line \in Seq(W) : Normalizing(W)[line] = Normalize(line)
         /\ LinesOfPayload(W) \in [Seq(Seq(W)) -> Seq(Seq(W))]
         /\ \A p \in Seq(Seq(W)) : LinesOfPayload(W)[p] = Each(Normalizing(W), p)
<1> DEFINE L == Seq(W)  f == Normalizing(W)  g == LinesOfPayload(W)
<1>1. \A line \in L : Normalize(line) \in L
  BY SiftType, Zenon DEF Normalize
<1>2. f \in [L -> L] /\ \A line \in L : f[line] = Normalize(line)
  <2> HIDE DEF L
  <2> QED BY <1>1 DEF Normalizing, L
<1> HIDE DEF f, L
<1>3. \A p \in Seq(L) : Each(f, p) \in Seq(L)
  BY <1>2, EachConcat, Zenon
<1>4. g \in [Seq(L) -> Seq(L)] /\ \A p \in Seq(L) : g[p] = Each(f, p)
  <2> DEFINE M == Seq(L)
  <2> HIDE DEF M
  <2>1. g = [p \in M |-> Each(f, p)]
    BY Zenon DEF LinesOfPayload, M, L, f
  <2>2. \A p \in M : Each(f, p) \in M
    BY <1>3, Zenon DEF M
  <2> HIDE DEF g
  <2> QED BY <2>1, <2>2, Zenon DEF M
<1> QED BY <1>2, <1>4, Zenon DEF f, L

LEMMA CountsIs ==
  ASSUME NEW W, NEW payloads \in Seq(Seq(Seq(W)))
  PROVE  LinesThatCount(payloads) = Sift(AllLines(W, payloads), Counting(W)) /\ AllLines(W, payloads) \in Seq(Seq(W))
<1> DEFINE L == Seq(W)  M == Seq(L)  f == Normalizing(W)  g == LinesOfPayload(W)
           each == [i \in DOMAIN payloads |-> [j \in DOMAIN payloads[i] |-> Normalize(payloads[i][j])]]
           lines == FlattenSeq(each)  R == {line \in Range(lines) : ShouldHandleLine(line)}
<1>1. /\ f \in [L -> L] /\ \A line \in L : f[line] = Normalize(line)
      /\ g \in [M -> M] /\ \A p \in M : g[p] = Each(f, p)
  BY Normalizes, Zenon
<1>2. each = Each(g, payloads)
  <2>1. ASSUME NEW i \in DOMAIN payloads
        PROVE  [j \in DOMAIN payloads[i] |-> Normalize(payloads[i][j])] = g[payloads[i]]
    <3> DEFINE p == payloads[i]
    <3>1. p \in M
      OBVIOUS
    <3>2. \A j \in DOMAIN p : p[j] \in L
      BY <3>1
    <3> HIDE DEF p, f, g, L, M
    <3>3. \A j \in DOMAIN p : Normalize(p[j]) = f[p[j]]
      BY <1>1, <3>2, Zenon
    <3>4. [j \in DOMAIN p |-> Normalize(p[j])] = Each(f, p)
      BY <3>3, Zenon DEF Each
    <3>5. [j \in DOMAIN p |-> Normalize(p[j])] = g[p]
      BY <1>1, <3>1, <3>4, Zenon
    <3> QED BY <3>5, Zenon DEF p
  <2> HIDE DEF g
  <2> QED BY <2>1, Zenon DEF Each
<1>3. Each(g, payloads) \in Seq(M)
  <2>1. payloads \in Seq(M)
    OBVIOUS
  <2> HIDE DEF M, g
  <2> QED BY <1>1, <2>1, EachConcat, Zenon
<1>4. lines = AllLines(W, payloads) /\ lines \in Seq(L)
  <2> HIDE DEF each, L
  <2>1. each \in Seq(Seq(L))
    BY <1>2, <1>3
  <2>2. FlattenSeq(each) \in Seq(L)
    BY <2>1, FlattenConcat
  <2> QED BY <1>2, <2>2, Zenon DEF AllLines
<1>5. LinesThatCount(payloads) = Sift(lines, R)
  BY Zenon DEF LinesThatCount
<1> HIDE DEF each, lines
<1>6. Sift(lines, R) = Sift(lines, Counting(W))
  <2>1. \A i \in 1..Len(lines) : lines[i] \in L /\ lines[i] \in Range(lines)
    <3> HIDE DEF L
    <3> QED BY <1>4 DEF Range
  <2>2. \A i \in 1..Len(lines) : lines[i] \in R <=> lines[i] \in Counting(W)
    BY <2>1, Zenon DEF Counting
  <2> HIDE DEF R
  <2> QED BY <1>4, <2>2, SiftAgrees
<1> QED BY <1>4, <1>5, <1>6, Zenon

\* The lines that count are those of the payloads before and after.
LEMMA CountsConcat ==
  ASSUME NEW W, NEW a \in Seq(Seq(Seq(W))), NEW b \in Seq(Seq(Seq(W)))
  PROVE  LinesThatCount(a \o b) = LinesThatCount(a) \o LinesThatCount(b) /\ LinesThatCount(a) \in Seq(Seq(W))
<1> DEFINE L == Seq(W)  M == Seq(L)  g == LinesOfPayload(W)  P == Counting(W)
           x == AllLines(W, a)  y == AllLines(W, b)  z == AllLines(W, a \o b)
<1>1. g \in [M -> M] /\ a \in Seq(M) /\ b \in Seq(M)
  BY Normalizes, Zenon
<1>2. a \o b \in Seq(M)
  <2> HIDE DEF M
  <2> QED BY <1>1
<1>3. z = x \o y
  <2>1. Each(g, a \o b) = Each(g, a) \o Each(g, b)
    <3> HIDE DEF M, g
    <3>1. EachJoined(g, a, b)
      BY <1>1, EachConcat, Zenon
    <3> QED BY <3>1, Zenon DEF EachJoined
  <2>2. Each(g, a) \in Seq(M) /\ Each(g, b) \in Seq(M)
    <3> HIDE DEF M, g
    <3> QED BY <1>1, EachConcat, Zenon
  <2> DEFINE c == Each(g, a)  d == Each(g, b)
  <2> HIDE DEF L, c, d
  <2>3. FlattenSeq(c \o d) = FlattenSeq(c) \o FlattenSeq(d)
    BY <2>2, FlattenConcat DEF c, d
  <2> QED BY <2>1, <2>3, Zenon DEF AllLines, c, d
<1>4. /\ LinesThatCount(a) = Sift(x, P) /\ x \in M
      /\ LinesThatCount(b) = Sift(y, P) /\ y \in M
      /\ LinesThatCount(a \o b) = Sift(z, P)
  BY <1>1, <1>2, CountsIs, Zenon
<1> HIDE DEF x, y, z, P, L
<1>5. Sift(x \o y, P) = Sift(x, P) \o Sift(y, P) /\ Sift(x, P) \in Seq(L)
  <2>1. x \in Seq(L) /\ y \in Seq(L)
    BY <1>4
  <2>2. Sift(x \o y, P) = Sift(x, P) \o Sift(y, P)
    BY <2>1, SiftConcat
  <2>3. Sift(x, P) \in Seq(L)
    BY <2>1, SiftType
  <2> QED BY <2>2, <2>3, Zenon
<1> QED BY <1>3, <1>4, <1>5, Zenon DEF L

LEMMA CountsPayload ==
  ASSUME NEW W, NEW r \in Seq(Seq(W))
  PROVE  LinesThatCount(<<r>>) = Sift(Each(Normalizing(W), r), Counting(W))
<1> DEFINE L == Seq(W)  M == Seq(L)  f == Normalizing(W)  g == LinesOfPayload(W)  P == Counting(W)
           one == <<r>>  v == Each(f, r)
<1>1. one \in Seq(M) /\ r \in M
  OBVIOUS
<1>2. f \in [L -> L] /\ \A t \in M : g[t] = Each(f, t)
  BY Normalizes, Zenon
<1>3. LinesThatCount(one) = Sift(AllLines(W, one), P)
  <2> HIDE DEF one
  <2> QED BY <1>1, CountsIs, Zenon
<1>4. Each(g, one) = <<v>>
  <2> HIDE DEF f, g, M
  <2>1. DOMAIN one = {1} /\ one[1] = r
    OBVIOUS
  <2>2. g[r] = v
    BY <1>1, <1>2, Zenon
  <2> HIDE DEF one, v
  <2>3. Each(g, one) = [i \in {1} |-> v]
    BY <2>1, <2>2, Zenon DEF Each
  <2>4. [i \in {1} |-> v] = <<v>>
    OBVIOUS
  <2> QED BY <2>3, <2>4, Zenon
<1>5. v \in Seq(L)
  <2> HIDE DEF f, L
  <2>1. r \in Seq(L)
    BY <1>1
  <2> QED BY <1>2, <2>1, EachConcat, Zenon
<1> HIDE DEF one, v, L
<1>6. FlattenSeq(<<v>>) = v
  BY <1>5, FlattenOne
<1> QED BY <1>3, <1>4, <1>6, Zenon DEF AllLines, one, v

\* One payload or two, the lines are the same.
LEMMA CountsJoined ==
  ASSUME NEW W, NEW p \in Seq(Seq(W)), NEW q \in Seq(Seq(W))
  PROVE  /\ LinesThatCount(<<p \o q>>) = LinesThatCount(<<p>>) \o LinesThatCount(<<q>>)
         /\ LinesThatCount(<<p, q>>) = LinesThatCount(<<p>>) \o LinesThatCount(<<q>>)
<1> DEFINE L == Seq(W)  M == Seq(L)  f == Normalizing(W)  g == LinesOfPayload(W)  P == Counting(W)
           x == Each(f, p)  y == Each(f, q)  z == Each(f, p \o q)
<1>1. p \o q \in M /\ p \in M /\ q \in M
  <2> HIDE DEF L
  <2> QED BY DEF L
<1>2. f \in [L -> L] /\ \A r \in M : g[r] = Each(f, r)
  BY Normalizes, Zenon
<1>3. z = x \o y /\ x \in Seq(L) /\ y \in Seq(L)
  <2> HIDE DEF f, L
  <2>1. p \in Seq(L) /\ q \in Seq(L) /\ f \in [L -> L]
    BY <1>1, <1>2
  <2>4. EachJoined(f, p, q)
    BY <2>1, EachConcat, Zenon
  <2>2. Each(f, p \o q) = Each(f, p) \o Each(f, q)
    BY <2>4, Zenon DEF EachJoined
  <2>3. Each(f, p) \in Seq(L) /\ Each(f, q) \in Seq(L)
    BY <2>1, EachConcat, Zenon
  <2> QED BY <2>2, <2>3, Zenon
<1>4. ASSUME NEW r \in M PROVE LinesThatCount(<<r>>) = Sift(Each(f, r), P)
  BY CountsPayload, Zenon
<1>5. /\ LinesThatCount(<<p>>) = Sift(x, P) /\ LinesThatCount(<<q>>) = Sift(y, P)
      /\ LinesThatCount(<<p \o q>>) = Sift(z, P)
  <2> HIDE DEF M, f, P
  <2> QED BY <1>1, <1>4, Zenon
<1>6. Sift(x \o y, P) = Sift(x, P) \o Sift(y, P)
  <2> HIDE DEF L, f, P, x, y
  <2> QED BY <1>3, SiftConcat
<1>7. LinesThatCount(<<p, q>>) = LinesThatCount(<<p>>) \o LinesThatCount(<<q>>)
  <2> DEFINE a == <<p>>  b == <<q>>
  <2>1. a \in Seq(M) /\ b \in Seq(M) /\ a \o b = <<p, q>>
    <3> HIDE DEF M
    <3>1. p \in M /\ q \in M
      BY <1>1
    <3>2. <<p>> \o <<q>> = <<p, q>>
      BY <3>1, TwoOnes
    <3>3. <<p>> \in Seq(M) /\ <<q>> \in Seq(M)
      BY <3>1
    <3> QED BY <3>2, <3>3
  <2> HIDE DEF a, b
  <2>2. LinesThatCount(a \o b) = LinesThatCount(a) \o LinesThatCount(b)
    BY <2>1, CountsConcat, Zenon
  <2> QED BY <2>1, <2>2, Zenon DEF a, b
<1> HIDE DEF x, y, z, P
<1>8. LinesThatCount(<<p \o q>>) = LinesThatCount(<<p>>) \o LinesThatCount(<<q>>)
  BY <1>3, <1>5, <1>6, Zenon
<1> QED BY <1>7, <1>8, Zenon

LEMMA CountsEmpty ==
  ASSUME NEW W
  PROVE  LinesThatCount(<<<< >>>>) = << >>
<1> DEFINE none == << >>
<1>1. none \in Seq(Seq(W)) /\ Each(Normalizing(W), none) = << >>
  BY DEF Each
<1> HIDE DEF none
<1>2. LinesThatCount(<<none>>) = Sift(Each(Normalizing(W), none), Counting(W))
  BY <1>1, CountsPayload, Zenon
<1> QED BY <1>1, <1>2, SiftEmpty, Zenon DEF none

LEMMA CountsLine ==
  ASSUME NEW W, NEW line \in Seq(W)
  PROVE  /\ LinesThatCount(<<<<line>>>>) = Sift(<<Normalize(line)>>, Counting(W))
         /\ ~ShouldHandleLine(Normalize(line)) => LinesThatCount(<<<<line>>>>) = << >>
<1> DEFINE one == <<line>>  f == Normalizing(W)
<1>1. one \in Seq(Seq(W)) /\ DOMAIN one = {1} /\ one[1] = line
  OBVIOUS
<1>2. f[line] = Normalize(line)
  BY Normalizes, Zenon
<1> DEFINE kept == Normalize(line)
<1> HIDE DEF one, kept, f
<1>3. Each(f, one) = [i \in {1} |-> kept]
  BY <1>1, <1>2, Zenon DEF Each, kept
<1>4. [i \in {1} |-> kept] = <<kept>>
  OBVIOUS
<1>5. LinesThatCount(<<one>>) = Sift(Each(f, one), Counting(W))
  BY <1>1, CountsPayload, Zenon DEF f
<1>6. LinesThatCount(<<one>>) = Sift(<<kept>>, Counting(W))
  BY <1>3, <1>4, <1>5, Zenon
<1>7. ~ShouldHandleLine(kept) => Sift(<<kept>>, Counting(W)) = << >>
  <2>1. ~ShouldHandleLine(kept) => kept \notin Counting(W)
    BY Zenon DEF Counting
  <2>2. kept \notin Counting(W) => Sift(<<kept>>, Counting(W)) = << >>
    BY SiftOne
  <2> QED BY <2>1, <2>2, Zenon
<1> QED BY <1>6, <1>7, Zenon DEF one, kept

LEMMA NormalizeIs ==
  ASSUME NEW W, NEW line \in Seq(W)
  PROVE  Normalize(line) = Sift(line, {word \in W : Digestible(word)})
<1> DEFINE P == {word \in Range(line) : Digestible(word)}  Q == {word \in W : Digestible(word)}
<1>1. \A i \in 1..Len(line) : line[i] \in W /\ line[i] \in Range(line)
  BY DEF Range
<1>2. \A i \in 1..Len(line) : line[i] \in P <=> line[i] \in Q
  BY <1>1, Zenon
<1> HIDE DEF P, Q
<1>3. Sift(line, P) = Sift(line, Q)
  BY <1>2, SiftAgrees
<1> QED BY <1>3, Zenon DEF Normalize, P, Q

\* A word that does not count is nothing in the line.
LEMMA WordIgnored ==
  ASSUME NEW W, NEW x \in Seq(W), NEW y \in Seq(W), NEW word \in W, ~Digestible(word)
  PROVE  Normalize(x \o <<word>> \o y) = Normalize(x \o y)
<1> DEFINE P == {w \in W : Digestible(w)}  one == <<word>>  u == x \o one  a == u \o y  b == x \o y
<1>1. one \in Seq(W) /\ word \notin P
  OBVIOUS
<1>2. Sift(one, P) = << >>
  <2> HIDE DEF P
  <2> QED BY <1>1, SiftOne, Zenon
<1> HIDE DEF one, P
<1>3. u \in Seq(W) /\ b \in Seq(W)
  BY <1>1
<1>4. Sift(u, P) = Sift(x, P) \o Sift(one, P) /\ Sift(b, P) = Sift(x, P) \o Sift(y, P) /\ Sift(x, P) \in Seq(W)
  <2>1. Sift(u, P) = Sift(x, P) \o Sift(one, P)
    BY <1>1, SiftConcat
  <2>2. Sift(b, P) = Sift(x, P) \o Sift(y, P)
    BY SiftConcat
  <2>3. Sift(x, P) \in Seq(W)
    BY SiftType
  <2> QED BY <2>1, <2>2, <2>3, Zenon
<1> HIDE DEF u, b
<1>5. a \in Seq(W) /\ Sift(a, P) = Sift(u, P) \o Sift(y, P)
  BY <1>3, SiftConcat
<1>6. Sift(x, P) \o << >> = Sift(x, P)
  BY <1>4, ConcatEmptySeq
<1>7. Sift(a, P) = Sift(b, P)
  BY <1>2, <1>4, <1>5, <1>6, Zenon
<1> HIDE DEF a
<1>8. Normalize(a) = Sift(a, P) /\ Normalize(b) = Sift(b, P)
  BY <1>3, <1>5, NormalizeIs, Zenon DEF P
<1> QED BY <1>7, <1>8, Zenon DEF a, b, u, one

CountAlike(a, b) == LinesThatCount(a) = LinesThatCount(b)

\* Payloads with the same lines that count may stand for each other among others.
LEMMA CountsAround ==
  ASSUME NEW W, NEW before \in Seq(Seq(Seq(W))), NEW behind \in Seq(Seq(Seq(W))),
         NEW a \in Seq(Seq(Seq(W))), NEW b \in Seq(Seq(Seq(W))), CountAlike(a, b)
  PROVE  CountAlike(before \o a \o behind, before \o b \o behind)
<1> DEFINE M == Seq(Seq(W))
<1> HIDE DEF M
<1>1. ASSUME NEW c \in Seq(M)
      PROVE  LinesThatCount(before \o c \o behind)
               = (LinesThatCount(before) \o LinesThatCount(c)) \o LinesThatCount(behind)
  <2> DEFINE u == before \o c
  <2>1. u \in Seq(M)
    BY DEF M
  <2>2. LinesThatCount(u) = LinesThatCount(before) \o LinesThatCount(c)
    BY CountsConcat, Zenon DEF M
  <2> HIDE DEF u
  <2>3. LinesThatCount(u \o behind) = LinesThatCount(u) \o LinesThatCount(behind)
    BY <2>1, CountsConcat, Zenon DEF M
  <2> QED BY <2>2, <2>3, Zenon DEF u
<1>2. a \in Seq(M) /\ b \in Seq(M)
  BY DEF M
<1> QED BY <1>1, <1>2, Zenon DEF CountAlike

LEMMA LinesAround ==
  ASSUME NEW W, NEW p \in Seq(Seq(W)), NEW q \in Seq(Seq(W)), NEW a \in Seq(Seq(W)), NEW b \in Seq(Seq(W)),
         CountAlike(<<a>>, <<b>>)
  PROVE  CountAlike(<<p \o a \o q>>, <<p \o b \o q>>)
<1> DEFINE M == Seq(Seq(W))
<1>1. ASSUME NEW c \in M
      PROVE  LinesThatCount(<<p \o c \o q>>)
               = (LinesThatCount(<<p>>) \o LinesThatCount(<<c>>)) \o LinesThatCount(<<q>>)
  <2> DEFINE u == p \o c
  <2>1. u \in M
    OBVIOUS
  <2>2. LinesThatCount(<<u>>) = LinesThatCount(<<p>>) \o LinesThatCount(<<c>>)
    BY CountsJoined, Zenon
  <2> HIDE DEF u
  <2>3. LinesThatCount(<<u \o q>>) = LinesThatCount(<<u>>) \o LinesThatCount(<<q>>)
    BY <2>1, CountsJoined, Zenon
  <2> QED BY <2>2, <2>3, Zenon DEF u
<1> QED BY <1>1, Zenon DEF CountAlike

\* Neither a word that is no part of the digest (an address, a link, ten characters
\* or more), nor a line too short to count once such words are gone, nor the place
\* where one payload ends and the next begins changes the lines that are digested:
\* senders that differ in nothing else have the same digest (normalize,
\* should_handle_line and the loop over payloads of predigest_with_spec).
THEOREM NoiseIgnored ==
  ASSUME NEW W, NEW before \in Seq(Seq(Seq(W))), NEW behind \in Seq(Seq(Seq(W))),
         NEW p \in Seq(Seq(W)), NEW q \in Seq(Seq(W)),
         NEW x \in Seq(W), NEW y \in Seq(W), NEW word \in W, ~Digestible(word),
         NEW noise \in Seq(W), ~ShouldHandleLine(Normalize(noise))
  PROVE  /\ LinesThatCount(before \o <<p \o <<x \o <<word>> \o y>> \o q>> \o behind)
               = LinesThatCount(before \o <<p \o <<x \o y>> \o q>> \o behind)
         /\ LinesThatCount(before \o <<p \o <<noise>> \o q>> \o behind)
               = LinesThatCount(before \o <<p \o q>> \o behind)
         /\ LinesThatCount(before \o <<p, q>> \o behind)
               = LinesThatCount(before \o <<p \o q>> \o behind)
<1> DEFINE L == Seq(W)  M == Seq(L)  long == x \o <<word>> \o y  short == x \o y  none == << >>
<1>1. long \in L /\ short \in L
  OBVIOUS
<1>2. Normalize(long) = Normalize(short)
  BY WordIgnored, Zenon
<1> HIDE DEF long, short, none
<1>3. CountAlike(<<<<long>>>>, <<<<short>>>>)
  BY <1>1, <1>2, CountsLine, Zenon DEF CountAlike
<1>4. CountAlike(<<<<noise>>>>, <<none>>)
  BY CountsLine, CountsEmpty, Zenon DEF none, CountAlike
<1>5. <<long>> \in M /\ <<short>> \in M /\ <<noise>> \in M /\ none \in M
  BY <1>1 DEF none
<1>6. CountAlike(<<p \o <<long>> \o q>>, <<p \o <<short>> \o q>>)
  BY <1>3, <1>5, LinesAround
<1>7. CountAlike(<<p \o <<noise>> \o q>>, <<p \o none \o q>>)
  BY <1>4, <1>5, LinesAround
<1>8. p \o none = p
  BY DEF none
<1>9. CountAlike(<<p, q>>, <<p \o q>>)
  BY CountsJoined, ZenonT(60) DEF CountAlike
<1> DEFINE a == p \o <<long>> \o q  b == p \o <<short>> \o q  c == p \o <<noise>> \o q  d == p \o q
<1>10. a \in M /\ b \in M /\ c \in M /\ d \in M
  <2> HIDE DEF L
  <2>1. p \in Seq(L) /\ q \in Seq(L) /\ noise \in L
    BY DEF L
  <2> QED BY <1>1, <2>1
<1> HIDE DEF a, b, c, d, M
<1>11. <<a>> \in Seq(M) /\ <<b>> \in Seq(M) /\ <<c>> \in Seq(M) /\ <<d>> \in Seq(M) /\ <<p, q>> \in Seq(M)
  <2>1. p \in M /\ q \in M
    BY DEF M
  <2> QED BY <1>10, <2>1
<1> DEFINE two == <<p, q>>  as == <<a>>  bs == <<b>>  cs == <<c>>  ds == <<d>>
<1>12. CountAlike(as, bs) /\ CountAlike(cs, ds) /\ CountAlike(two, ds)
  BY <1>6, <1>7, <1>8, <1>9, Zenon DEF a, b, c, d
<1> HIDE DEF two, as, bs, cs, ds
<1>16. as \in Seq(M) /\ bs \in Seq(M) /\ cs \in Seq(M) /\ ds \in Seq(M) /\ two \in Seq(M)
  BY <1>11 DEF two, as, bs, cs, ds
<1>13. CountAlike(before \o as \o behind, before \o bs \o behind)
  BY <1>12, <1>16, CountsAround DEF M
<1>14. CountAlike(before \o cs \o behind, before \o ds \o behind)
  BY <1>12, <1>16, CountsAround DEF M
<1>15. CountAlike(before \o two \o behind, before \o ds \o behind)
  BY <1>12, <1>16, CountsAround DEF M
<1> QED BY <1>13, <1>14, <1>15, Zenon DEF a, b, c, d, long, short, two, as, bs, cs, ds, CountAlike

(***************************************************************************)
(* Quoted-printable                                                        *)
(***************************************************************************)
SoftBreak == <<"soft">>
EndsSoft(line) == line # << >> /\ Last(line) = SoftBreak
QuotedPrintable == <<<<"encoding", "quoted-printable">>>>

Texts(W) == Seq(Seq(W))
JoinStep(W) == [p \in Texts(W) \X Seq(W) |-> Unbroken(p[1], p[2])]
Decodes(f, text) == f = [n \in 0..Len(text) |-> IF n = 0 THEN << >> ELSE Unbroken(f[n - 1], text[n])]

LEMMA UnbrokenIs ==
  ASSUME NEW W, NEW lines \in Texts(W), NEW line \in Seq(W)
  PROVE  /\ lines # << >> /\ EndsSoft(Last(lines)) =>
               Unbroken(lines, line) = Append(Front(lines), Front(Last(lines)) \o line)
         /\ ~(lines # << >> /\ EndsSoft(Last(lines))) => Unbroken(lines, line) = Append(lines, line)
         /\ Unbroken(lines, line) \in Texts(W)
<1> DEFINE L == Seq(W)  a == Append(Front(lines), Front(Last(lines)) \o line)  b == Append(lines, line)
           soft == lines # << >> /\ EndsSoft(Last(lines))
<1>1. /\ soft => Unbroken(lines, line) = a
      /\ ~soft => Unbroken(lines, line) = b
  BY Zenon DEF Unbroken, EndsSoft, SoftBreak
<1>2. b \in Texts(W)
  <2> HIDE DEF L
  <2>1. lines \in Seq(L) /\ line \in L
    BY DEF Texts, L
  <2>2. b \in Seq(L)
    BY <2>1
  <2> QED BY <2>2, Zenon DEF Texts, L
<1>3. soft => a \in Texts(W)
  <2> SUFFICES ASSUME soft PROVE a \in Texts(W)
    OBVIOUS
  <2>1. lines # << >> /\ Last(lines) # << >>
    BY Zenon DEF EndsSoft
  <2>2. Last(lines) \in L /\ Front(lines) \in Seq(L)
    <3> HIDE DEF L
    <3>1. lines \in Seq(L)
      BY DEF Texts, L
    <3> QED BY <2>1, <3>1, EndOf
  <2>3. Front(Last(lines)) \in L
    <3> DEFINE last == Last(lines)
    <3>1. last \in Seq(W) /\ last # << >>
      BY <2>1, <2>2
    <3> HIDE DEF last
    <3>2. Front(last) \in Seq(W)
      BY <3>1, EndOf
    <3> QED BY <3>2 DEF last
  <2> DEFINE f == Front(lines)  g == Front(Last(lines))
  <2> HIDE DEF f, g
  <2>4. g \o line \in L
    BY <2>3 DEF g
  <2>5. a \in Seq(L)
    <3> HIDE DEF L
    <3> QED BY <2>2, <2>4 DEF f, g
  <2> QED BY <2>5, Zenon DEF Texts
<1> HIDE DEF a, b, soft
<1>4. Unbroken(lines, line) \in Texts(W)
  BY <1>1, <1>2, <1>3, Zenon
<1> QED BY <1>1, <1>4, Zenon DEF a, b, soft

LEMMA JoinStepping ==
  ASSUME NEW W
  PROVE  /\ Stepping(JoinStep(W), Texts(W), Seq(W)) /\ << >> \in Texts(W)
         /\ \A lines \in Texts(W), line \in Seq(W) : JoinStep(W)[<<lines, line>>] = Unbroken(lines, line)
<1> DEFINE V == Texts(W)  L == Seq(W)
<1>1. \A lines \in V, line \in L : Unbroken(lines, line) \in V
  BY UnbrokenIs, Zenon
<1>2. << >> \in V
  BY DEF Texts
<1> HIDE DEF V, L
<1>3. \A p \in V \X L : p[1] \in V /\ p[2] \in L
  OBVIOUS
<1>4. \A lines \in V, line \in L :
        <<lines, line>> \in V \X L /\ <<lines, line>>[1] = lines /\ <<lines, line>>[2] = line
  OBVIOUS
<1>5. Stepping(JoinStep(W), V, L)
  BY <1>1, <1>3, Zenon DEF Stepping, JoinStep, V, L
<1>6. \A lines \in V, line \in L : JoinStep(W)[<<lines, line>>] = Unbroken(lines, line)
  BY <1>4, Zenon DEF JoinStep, V, L
<1> QED BY <1>2, <1>5, <1>6, Zenon DEF V, L

LEMMA DecodesFold ==
  ASSUME NEW W, NEW text \in Texts(W)
  PROVE  DecodeTransfer(text, QuotedPrintable) = FoldOf(JoinStep(W), << >>, text)
<1> DEFINE step == JoinStep(W)  V == Texts(W)  L == Seq(W)  v0 == << >>  c == CHOOSE f : Decodes(f, text)
<1>1. /\ Stepping(step, V, L) /\ v0 \in V
      /\ \A lines \in V, line \in L : step[<<lines, line>>] = Unbroken(lines, line)
  BY JoinStepping, Zenon
<1>2. text \in Seq(L)
  BY DEF Texts
<1>3. DecodeTransfer(text, QuotedPrintable) = c[Len(text)]
  BY Zenon DEF DecodeTransfer, QuotedPrintable, Decodes
<1> HIDE DEF step, V, v0, L, c
<1>4. PICK g \in [0..Len(text) -> V] : Recursive(g, step, v0, text)
  BY <1>1, <1>2, FoldDefined
<1>5. \A n \in 0..Len(text) : g[n] = FoldStep(g, step, v0, text, n)
  BY <1>4, Zenon DEF Recursive
<1>6. Decodes(g, text)
  <2>1. ASSUME NEW n \in 0..Len(text)
        PROVE  g[n] = IF n = 0 THEN v0 ELSE Unbroken(g[n - 1], text[n])
    <3>1. CASE n = 0
      BY <1>5, <3>1, Zenon DEF FoldStep
    <3>2. CASE n # 0
      <4>1. n - 1 \in 0..Len(text) /\ text[n] \in L
        BY <1>2, <3>2
      <4>2. g[n - 1] \in V
        BY <4>1
      <4> QED BY <1>1, <1>5, <3>2, <4>1, <4>2, Zenon DEF FoldStep
    <3> QED BY <3>1, <3>2
  <2>2. g = [n \in 0..Len(text) |-> g[n]]
    OBVIOUS
  <2> QED BY <2>1, <2>2, Zenon DEF Decodes, v0
<1>7. Decodes(c, text)
  BY <1>6, Zenon DEF c
<1>8. Folds(c, V, step, v0, text)
  <2>1. /\ 0 \in 0..Len(text)
        /\ \A n \in 0..(Len(text) - 1) :
             n + 1 \in 0..Len(text) /\ n + 1 # 0 /\ (n + 1) - 1 = n /\ text[n + 1] \in L
    BY <1>2
  <2>2. c[0] = v0 /\ \A n \in 0..(Len(text) - 1) : c[n + 1] = Unbroken(c[n], text[n + 1])
    BY <1>7, <2>1, Zenon DEF Decodes, v0
  <2> QED BY <1>1, <2>1, <2>2, Zenon DEF Folds
<1>9. c[Len(text)] = FoldOf(step, v0, text)
  BY <1>1, <1>2, <1>8, FoldIs
<1> QED BY <1>3, <1>9, Zenon DEF v0, step

\* Two lines with a soft line break between them become what one line would.
LEMMA BreakJoined ==
  ASSUME NEW W, SoftBreak \in W, NEW lines \in Texts(W), NEW x \in Seq(W), NEW y \in Seq(W)
  PROVE  Unbroken(Unbroken(lines, Append(x, SoftBreak)), y) = Unbroken(lines, x \o y)
<1> DEFINE L == Seq(W)  broken == Append(x, SoftBreak)  whole == x \o y  once == Unbroken(lines, broken)
<1>1. broken \in L /\ whole \in L
  <2> DEFINE b == SoftBreak
  <2>1. b \in W
    OBVIOUS
  <2> HIDE DEF b
  <2>2. Append(x, b) \in L /\ whole \in L
    BY <2>1
  <2> QED BY <2>2 DEF b
\* Any line that ends as broken does is continued.
<1>2. ASSUME NEW rest \in Seq(L), NEW z \in L, once = Append(rest, Append(z, SoftBreak))
      PROVE  Unbroken(once, y) = Append(rest, z \o y)
  <2> DEFINE b == SoftBreak  line == Append(z, b)
  <2>1. b \in W
    OBVIOUS
  <2> HIDE DEF b
  <2>2. line # << >> /\ Last(line) = b /\ Front(line) = z
    BY <2>1, LastAppended
  <2>3. line \in L
    BY <2>1
  <2> HIDE DEF line, L
  <2>4. once # << >> /\ Last(once) = line /\ Front(once) = rest
    <3>1. once = Append(rest, line)
      BY <1>2, Zenon DEF line, b
    <3>2. Append(rest, line) # << >> /\ Last(Append(rest, line)) = line /\ Front(Append(rest, line)) = rest
      BY <1>2, <2>3, LastAppended
    <3> HIDE DEF once
    <3> QED BY <3>1, <3>2, Zenon
  <2>5. EndsSoft(Last(once))
    <3> HIDE DEF once
    <3> QED BY <2>2, <2>4, Zenon DEF EndsSoft, b
  <2>6. once \in Texts(W)
    BY <1>1, UnbrokenIs, Zenon DEF L
  <2> HIDE DEF once
  <2>7. Unbroken(once, y) = Append(Front(once), Front(Last(once)) \o y)
    BY <2>4, <2>5, <2>6, UnbrokenIs, Zenon
  <2> QED BY <2>2, <2>4, <2>7, Zenon
<1>3. CASE lines # << >> /\ EndsSoft(Last(lines))
  <2> DEFINE f == Front(lines)  g == Front(Last(lines))  z == g \o x
  <2>1. f \in Seq(L) /\ g \in L
    <3>1. lines \in Seq(L)
      BY DEF Texts
    <3> DEFINE last == Last(lines)
    <3>2. f \in Seq(L) /\ last \in L
      <4> HIDE DEF L
      <4> QED BY <1>3, <3>1, EndOf
    <3>3. last # << >>
      BY <1>3, Zenon DEF EndsSoft
    <3> HIDE DEF last
    <3>4. Front(last) \in Seq(W)
      BY <3>2, <3>3, EndOf
    <3> QED BY <3>2, <3>4 DEF last
  <2>2. once = Append(f, g \o broken) /\ Unbroken(lines, whole) = Append(f, g \o whole)
    <3> HIDE DEF broken, whole
    <3> QED BY <1>1, <1>3, UnbrokenIs, Zenon
  <2> HIDE DEF f, g
  <2>3. z \in L /\ g \o whole = z \o y
    BY <2>1, ConcatAssociative, SMTT(40)
  <2>4. g \o broken = Append(z, SoftBreak)
    <3> DEFINE b == SoftBreak
    <3>1. b \in W
      OBVIOUS
    <3> HIDE DEF b
    <3>2. g \o Append(x, b) = Append(g \o x, b)
      BY <2>1, <3>1, ConcatAppend
    <3> QED BY <3>2 DEF b
  <2> HIDE DEF z, L, once, whole, broken
  <2>5. once = Append(f, Append(z, SoftBreak))
    BY <2>2, <2>4, Zenon
  <2>6. Unbroken(once, y) = Append(f, z \o y)
    BY <1>2, <2>1, <2>3, <2>5, Zenon
  <2> QED BY <2>2, <2>3, <2>6, Zenon DEF once, whole, broken
<1>4. CASE ~(lines # << >> /\ EndsSoft(Last(lines)))
  <2>1. once = Append(lines, broken) /\ Unbroken(lines, whole) = Append(lines, whole)
    <3> HIDE DEF broken, whole
    <3> QED BY <1>1, <1>4, UnbrokenIs, Zenon
  <2>2. lines \in Seq(L) /\ x \in L
    BY DEF Texts
  <2> HIDE DEF L, once
  <2>3. Unbroken(once, y) = Append(lines, x \o y)
    BY <1>2, <2>1, <2>2, Zenon
  <2> QED BY <2>1, <2>3, Zenon DEF once
<1> QED BY <1>3, <1>4

\* Quoted-printable says what it would without its soft line breaks, wherever they
\* are, and a text without one is left as it is, so that a mail that is sent in it has
\* the digest it would have plain (decode_quoted_printable).
THEOREM SoftBreaksJoined ==
  ASSUME NEW W, SoftBreak \in W, NEW a \in Texts(W), NEW b \in Texts(W),
         NEW x \in Seq(W), NEW y \in Seq(W)
  PROVE  /\ DecodeTransfer(a \o <<Append(x, SoftBreak), y>> \o b, QuotedPrintable)
               = DecodeTransfer(a \o <<x \o y>> \o b, QuotedPrintable)
         /\ (\A i \in 1..Len(a) : ~EndsSoft(a[i])) => DecodeTransfer(a, QuotedPrintable) = a
<1> DEFINE L == Seq(W)  V == Texts(W)  step == JoinStep(W)  v0 == << >>
           broken == Append(x, SoftBreak)  whole == x \o y  v == FoldOf(step, v0, a)
<1>1. /\ Stepping(step, V, L) /\ v0 \in V
      /\ \A lines \in V, line \in L : step[<<lines, line>>] = Unbroken(lines, line)
  BY JoinStepping, Zenon
<1>2. broken \in L /\ whole \in L
  <2> DEFINE s == SoftBreak
  <2>1. s \in W
    OBVIOUS
  <2> HIDE DEF s
  <2>2. Append(x, s) \in L /\ whole \in L
    BY <2>1
  <2> QED BY <2>2 DEF s
<1>3. a \in Seq(L) /\ b \in Seq(L) /\ y \in L
  BY DEF Texts
<1>4. ASSUME NEW mid \in Seq(L)
      PROVE  DecodeTransfer(a \o mid \o b, QuotedPrintable) = FoldOf(step, FoldOf(step, v, mid), b)
  <2> DEFINE u == a \o mid  t == u \o b
  <2> HIDE DEF L, v0, step, V
  <2>1. u \in Seq(L)
    BY <1>3
  <2>2. FoldOf(step, v0, u) = FoldOf(step, v, mid)
    BY <1>1, <1>3, FoldConcat
  <2> HIDE DEF u, v
  <2>3. t \in Seq(L)
    BY <1>3, <2>1
  <2>4. FoldOf(step, v0, t) = FoldOf(step, FoldOf(step, v0, u), b)
    BY <1>1, <1>3, <2>1, FoldConcat
  <2> HIDE DEF t
  <2>5. DecodeTransfer(t, QuotedPrintable) = FoldOf(step, v0, t)
    BY <2>3, DecodesFold, Zenon DEF Texts, L, step, v0
  <2> QED BY <2>2, <2>4, <2>5, Zenon DEF t, u
<1>5. v \in V
  <2> HIDE DEF V, step, v0, L
  <2> QED BY <1>1, <1>3, FoldType
<1> DEFINE once == Unbroken(v, broken)
<1> HIDE DEF v, broken, whole
<1>6. ASSUME NEW w \in V, NEW line \in L PROVE FoldOf(step, w, <<line>>) = Unbroken(w, line)
  <2>1. FoldOf(step, w, <<line>>) = step[<<w, line>>]
    <3> HIDE DEF V, step, L
    <3> QED BY <1>1, FoldOne
  <2> HIDE DEF step
  <2> QED BY <1>1, <2>1, Zenon
<1>7. once \in V
  BY <1>2, <1>5, UnbrokenIs, Zenon
<1> HIDE DEF V, step, v0, L
<1>8. FoldOf(step, v, <<broken, y>>) = Unbroken(once, y)
  <2> DEFINE one == <<broken>>  two == <<y>>
  <2>1. one \in Seq(L) /\ two \in Seq(L)
    BY <1>2, <1>3
  <2>2. one \o two = <<broken, y>>
    BY <1>2, <1>3, TwoOnes
  <2>3. FoldOf(step, v, one) = once /\ FoldOf(step, once, two) = Unbroken(once, y)
    <3> HIDE DEF once
    <3>1. FoldOf(step, v, one) = Unbroken(v, broken)
      BY <1>2, <1>5, <1>6, Zenon
    <3>2. FoldOf(step, once, two) = Unbroken(once, y)
      BY <1>3, <1>6, <1>7, Zenon
    <3> QED BY <3>1, <3>2, Zenon DEF once
  <2> HIDE DEF one, two, once
  <2>4. FoldOf(step, v, one \o two) = FoldOf(step, FoldOf(step, v, one), two)
    BY <1>1, <1>5, <2>1, FoldConcat
  <2> QED BY <2>2, <2>3, <2>4, Zenon
<1>9. FoldOf(step, v, <<whole>>) = Unbroken(v, whole)
  BY <1>2, <1>5, <1>6, Zenon
<1>10. Unbroken(once, y) = Unbroken(v, whole)
  <2>1. v \in Texts(W)
    BY <1>5 DEF V
  <2>2. Unbroken(Unbroken(v, Append(x, SoftBreak)), y) = Unbroken(v, x \o y)
    BY <2>1, BreakJoined
  <2> QED BY <2>2 DEF once, broken, whole
<1>11. <<broken, y>> \in Seq(L) /\ <<whole>> \in Seq(L)
  BY <1>2, <1>3
<1>12. DecodeTransfer(a \o <<broken, y>> \o b, QuotedPrintable) = DecodeTransfer(a \o <<whole>> \o b, QuotedPrintable)
  <2> DEFINE one == <<broken, y>>  two == <<whole>>
  <2> HIDE DEF one, two, once
  <2>1. FoldOf(step, v, one) = FoldOf(step, v, two)
    BY <1>8, <1>9, <1>10, Zenon DEF one, two
  <2>2. one \in Seq(L) /\ two \in Seq(L)
    BY <1>11 DEF one, two
  <2>3. DecodeTransfer(a \o one \o b, QuotedPrintable) = DecodeTransfer(a \o two \o b, QuotedPrintable)
    BY <1>4, <2>1, <2>2, Zenon
  <2> QED BY <2>3, Zenon DEF one, two
<1>13. ASSUME \A i \in 1..Len(a) : ~EndsSoft(a[i]) PROVE DecodeTransfer(a, QuotedPrintable) = a
  <2> DEFINE Q == {line \in L : ~EndsSoft(line)}
             T == {t \in Seq(Q) : t \in Seq(L) /\ FoldOf(step, v0, t) = t}
  <2>1. << >> \in T
    <3>1. << >> \in Seq(Q) /\ << >> \in Seq(L)
      OBVIOUS
    <3>2. FoldOf(step, v0, << >>) = v0
      BY <1>1, FoldEmpty
    <3> QED BY <3>1, <3>2, Zenon DEF v0
  <2>2. ASSUME NEW t \in Seq(Q), NEW e \in Q, t \in T PROVE Append(t, e) \in T
    <3>1. t \in Seq(L) /\ e \in L /\ FoldOf(step, v0, t) = t
      BY <2>2
    <3>2. Append(t, e) \in Seq(Q) /\ Append(t, e) \in Seq(L)
      BY <3>1
    <3>3. FoldOf(step, v0, Append(t, e)) = step[<<FoldOf(step, v0, t), e>>]
      BY <1>1, <3>1, FoldAppend
    <3>4. ~(t # << >> /\ EndsSoft(Last(t)))
      <4>1. t # << >> => Last(t) \in Q
        <5> HIDE DEF Q
        <5> QED BY <2>2, EndOf
      <4> QED BY <4>1
    <3>5. t \in V
      BY <3>1, Zenon DEF V, Texts, L
    <3>6. Unbroken(t, e) = Append(t, e)
      BY <3>1, <3>4, <3>5, UnbrokenIs, Zenon DEF V, L
    <3>7. FoldOf(step, v0, Append(t, e)) = Append(t, e)
      BY <1>1, <3>1, <3>3, <3>5, <3>6, Zenon
    <3> QED BY <3>2, <3>7, Zenon
  <2>3. a \in Seq(Q)
    <3>1. \A i \in 1..Len(a) : a[i] \in Q
      BY <1>3, <1>13
    <3>2. a = [i \in 1..Len(a) |-> a[i]] /\ Len(a) \in Nat
      BY <1>3
    <3> HIDE DEF Q
    <3> QED BY <3>1, <3>2
  <2>4. a \in T
    <3> HIDE DEF T, Q
    <3> QED BY <2>1, <2>2, <2>3, Growth
  <2>5. DecodeTransfer(a, QuotedPrintable) = FoldOf(step, v0, a)
    BY DecodesFold, Zenon DEF step, v0
  <2> QED BY <2>4, <2>5
<1>14. (\A i \in 1..Len(a) : ~EndsSoft(a[i])) => DecodeTransfer(a, QuotedPrintable) = a
  BY <1>13
<1>15. DecodeTransfer(a \o <<Append(x, SoftBreak), y>> \o b, QuotedPrintable)
         = DecodeTransfer(a \o <<x \o y>> \o b, QuotedPrintable)
  BY <1>12 DEF broken, whole
<1> QED BY <1>14, <1>15

(***************************************************************************)
(* The places that are digested                                            *)
(***************************************************************************)
\* The first and the last of three lines from the offset on, for n lines.
FirstAt(n, offset) == (offset * n) \div 100 + 1
LastAt(n, offset) == IF FirstAt(n, offset) + 2 <= n THEN FirstAt(n, offset) + 2 ELSE n

LEMMA PlacesAre ==
  ASSUME NEW n \in Nat, n > 4
  PROVE  /\ FirstAt(n, 20) \in Nat /\ FirstAt(n, 60) \in Nat /\ FirstAt(n, 20) >= 1 /\ FirstAt(n, 60) >= 1
         /\ FirstAt(n, 20) = n \div 5 + 1 /\ FirstAt(n, 60) = (3 * n) \div 5 + 1
         /\ LastAt(n, 20) = n \div 5 + 3
         /\ LastAt(n, 60) = IF n = 5 THEN 5 ELSE (3 * n) \div 5 + 3
         /\ LastAt(n, 20) <= n /\ LastAt(n, 60) <= n
<1> DEFINE q == n \div 5  k == (3 * n) \div 5
<1>1. q \in Nat /\ 5 * q <= n /\ n < 5 * q + 5
  OBVIOUS
<1>2. k \in Nat /\ 5 * k <= 3 * n /\ 3 * n < 5 * k + 5
  OBVIOUS
<1>3. (20 * n) \div 100 = q
  OBVIOUS
<1>4. (60 * n) \div 100 = k
  OBVIOUS
<1>5. FirstAt(n, 20) = q + 1 /\ FirstAt(n, 60) = k + 1
  BY <1>3, <1>4, Zenon DEF FirstAt
<1> HIDE DEF q, k
<1>6. q + 3 <= n /\ k < n
  BY <1>1, <1>2
<1>7. n = 5 => k = 3
  BY <1>2
<1>8. n # 5 => k + 3 <= n
  BY <1>2
<1>9. LastAt(n, 20) = q + 3
  BY <1>1, <1>5, <1>6 DEF LastAt
<1>10. LastAt(n, 60) = IF n = 5 THEN 5 ELSE k + 3
  BY <1>2, <1>5, <1>6, <1>7, <1>8 DEF LastAt
<1>11. FirstAt(n, 20) \in Nat /\ FirstAt(n, 60) \in Nat /\ FirstAt(n, 20) >= 1 /\ FirstAt(n, 60) >= 1
  BY <1>1, <1>2, <1>5
<1>12. LastAt(n, 20) <= n /\ LastAt(n, 60) <= n
  BY <1>1, <1>2, <1>6, <1>8, <1>9, <1>10
<1> QED BY <1>5, <1>9, <1>10, <1>11, <1>12 DEF q, k

LEMMA MinOfTwo ==
  ASSUME NEW a \in Int, NEW b \in Int
  PROVE  Min({a, b}) = IF a <= b THEN a ELSE b
<1> DEFINE c == IF a <= b THEN a ELSE b
<1>1. c \in {a, b} /\ \A y \in {a, b} : c <= y
  OBVIOUS
<1>2. \A x \in {a, b} : (\A y \in {a, b} : x <= y) => x = c
  OBVIOUS
<1> HIDE DEF c
<1>3. Min({a, b}) = c
  BY <1>1, <1>2, Zenon DEF Min
<1> QED BY <1>3 DEF c

LEMMA PieceIs ==
  ASSUME NEW L, NEW lines \in Seq(L), NEW offset, FirstAt(Len(lines), offset) \in Nat
  PROVE  Piece(lines, offset, 3) = SubSeq(lines, FirstAt(Len(lines), offset), LastAt(Len(lines), offset))
<1> DEFINE first == FirstAt(Len(lines), offset)  n == Len(lines)
<1>1. n \in Nat /\ first + 3 - 1 = first + 2 /\ first + 2 \in Int
  OBVIOUS
<1>2. Piece(lines, offset, 3) = SubSeq(lines, first, Min({first + 3 - 1, n}))
  BY Zenon DEF Piece, FirstAt
<1>3. Min({first + 2, n}) = LastAt(n, offset)
  <2> HIDE DEF first, n
  <2>1. Min({first + 2, n}) = IF first + 2 <= n THEN first + 2 ELSE n
    BY <1>1, MinOfTwo
  <2> QED BY <2>1, Zenon DEF LastAt, first, n
<1> HIDE DEF first, n
<1> QED BY <1>1, <1>2, <1>3, Zenon DEF first, n

LEMMA SelectedIs ==
  ASSUME NEW L, NEW lines \in Seq(L), Len(lines) > 4
  PROVE  Selected(lines, DigestSpec)
           = SubSeq(lines, FirstAt(Len(lines), 20), LastAt(Len(lines), 20))
             \o SubSeq(lines, FirstAt(Len(lines), 60), LastAt(Len(lines), 60))
<1> DEFINE n == Len(lines)  p == Piece(lines, 20, 3)  q == Piece(lines, 60, 3)
           each == [i \in DOMAIN DigestSpec |-> Piece(lines, DigestSpec[i][1], DigestSpec[i][2])]
<1>1. n \in Nat /\ ~(n <= 4)
  OBVIOUS
<1>2. Selected(lines, DigestSpec) = FlattenSeq(each)
  BY <1>1, Zenon DEF Selected
<1>3. /\ p = SubSeq(lines, FirstAt(n, 20), LastAt(n, 20))
      /\ q = SubSeq(lines, FirstAt(n, 60), LastAt(n, 60))
  <2>1. FirstAt(n, 20) \in Nat /\ FirstAt(n, 60) \in Nat
    BY <1>1, PlacesAre
  <2> HIDE DEF p, q
  <2>2. p = SubSeq(lines, FirstAt(n, 20), LastAt(n, 20))
    BY <2>1, PieceIs DEF p
  <2>3. q = SubSeq(lines, FirstAt(n, 60), LastAt(n, 60))
    BY <2>1, PieceIs DEF q
  <2> QED BY <2>2, <2>3
<1>4. p \in Seq(L) /\ q \in Seq(L)
  <2>1. \A a, b \in Int : 1 <= a /\ b <= n => SubSeq(lines, a, b) \in Seq(L)
    OBVIOUS
  <2>2. /\ FirstAt(n, 20) \in Nat /\ FirstAt(n, 60) \in Nat /\ FirstAt(n, 20) >= 1 /\ FirstAt(n, 60) >= 1
        /\ LastAt(n, 20) <= n /\ LastAt(n, 60) <= n
    BY <1>1, PlacesAre
  <2>3. LastAt(n, 20) \in Int /\ LastAt(n, 60) \in Int
    BY <1>1, <2>2 DEF LastAt
  <2> HIDE DEF p, q
  <2> QED BY <1>3, <2>1, <2>2, <2>3
<1>5. each = <<p, q>>
  <2> HIDE DEF p, q
  <2>1. DOMAIN DigestSpec = {1, 2} /\ DigestSpec[1] = <<20, 3>> /\ DigestSpec[2] = <<60, 3>>
    BY DEF DigestSpec
  <2>2. DigestSpec[1][1] = 20 /\ DigestSpec[1][2] = 3 /\ DigestSpec[2][1] = 60 /\ DigestSpec[2][2] = 3
    BY <2>1
  <2>3. DOMAIN each = {1, 2} /\ each[1] = p /\ each[2] = q /\ each = [i \in {1, 2} |-> each[i]]
    BY <2>1, <2>2, Zenon DEF p, q
  <2> HIDE DEF each
  <2>4. [i \in {1, 2} |-> each[i]] = <<each[1], each[2]>>
    OBVIOUS
  <2> QED BY <2>3, <2>4
<1> HIDE DEF each, p, q
<1>6. FlattenSeq(<<p, q>>) = p \o q
  <2>1. <<p>> \in Seq(Seq(L)) /\ <<q>> \in Seq(Seq(L)) /\ <<p>> \o <<q>> = <<p, q>>
    <3>1. <<p>> \o <<q>> = <<p, q>>
      BY <1>4, TwoOnes
    <3> QED BY <1>4, <3>1
  <2>2. FlattenSeq(<<p>>) = p /\ FlattenSeq(<<q>>) = q
    BY <1>4, FlattenOne
  <2> DEFINE a == <<p>>  b == <<q>>
  <2> HIDE DEF a, b
  <2>3. FlattenSeq(a \o b) = FlattenSeq(a) \o FlattenSeq(b)
    BY <2>1, FlattenConcat DEF a, b
  <2> QED BY <2>1, <2>2, <2>3, Zenon DEF a, b
<1> QED BY <1>2, <1>3, <1>5, <1>6, Zenon

\* Which places are digested of n lines that count.
Digested(n) == (n \div 5 + 1)..(n \div 5 + 3) \cup ((3 * n) \div 5 + 1)..((3 * n) \div 5 + 3)

\* Of more than four lines that count the digest takes three from a fifth of the mail
\* on and three from three fifths on, never less but for the mail of five lines, whose
\* second three would pass its end: no place is beyond the end, and mails with as many
\* lines have the same digest when they have the same lines at these places, whatever
\* the others say (the loop over DIGEST_SPEC in predigest_with_spec).
THEOREM PredigestPlaces ==
  ASSUME NEW L, NEW lines \in Seq(L), Len(lines) > 4
  PROVE  /\ Selected(lines, DigestSpec) \in Seq(L)
         /\ Len(Selected(lines, DigestSpec)) = IF Len(lines) = 5 THEN 5 ELSE 6
         /\ \A others \in Seq(L) :
              Len(others) = Len(lines) /\ (\A i \in Digested(Len(lines)) \cap 1..Len(lines) : others[i] = lines[i])
              => Selected(others, DigestSpec) = Selected(lines, DigestSpec)
<1> DEFINE n == Len(lines)  q == n \div 5  k == (3 * n) \div 5
           end == IF n = 5 THEN 5 ELSE k + 3
<1>1. n \in Nat /\ n > 4
  OBVIOUS
<1>2. /\ q \in Nat /\ k \in Nat /\ end \in Nat /\ q + 3 <= n /\ end <= n /\ (n = 5 => k = 3)
      /\ FirstAt(n, 20) = q + 1 /\ FirstAt(n, 60) = k + 1 /\ LastAt(n, 20) = q + 3 /\ LastAt(n, 60) = end
  <2>1. /\ FirstAt(n, 20) = q + 1 /\ FirstAt(n, 60) = k + 1 /\ LastAt(n, 20) = q + 3 /\ LastAt(n, 60) = end
        /\ LastAt(n, 20) <= n /\ LastAt(n, 60) <= n
    BY <1>1, PlacesAre
  <2>2. q \in Nat /\ k \in Nat /\ (n = 5 => k = 3)
    <3>1. q \in Nat
      OBVIOUS
    <3>2. k \in Nat /\ 5 * k <= 3 * n /\ 3 * n < 5 * k + 5
      OBVIOUS
    <3> HIDE DEF q, k
    <3>3. n = 5 => k = 3
      BY <3>2
    <3> QED BY <3>1, <3>2, <3>3, Zenon
  <2>4. q + 3 <= n /\ end <= n
    BY <2>1
  <2> HIDE DEF q, k
  <2>3. end \in Nat
    BY <2>2
  <2> HIDE DEF end
  <2> QED BY <2>1, <2>2, <2>3, <2>4
<1>3. ASSUME NEW u \in Seq(L), Len(u) = n
      PROVE  Selected(u, DigestSpec) = SubSeq(u, q + 1, q + 3) \o SubSeq(u, k + 1, end)
  <2>1. Selected(u, DigestSpec) = SubSeq(u, FirstAt(Len(u), 20), LastAt(Len(u), 20))
                                  \o SubSeq(u, FirstAt(Len(u), 60), LastAt(Len(u), 60))
    <3>1. Len(u) > 4
      BY <1>1, <1>3
    <3> QED BY <3>1, SelectedIs
  <2> HIDE DEF n, q, k, end
  <2> QED BY <1>2, <1>3, <2>1, Zenon
<1>4. Digested(n) \cap 1..n = (q + 1)..(q + 3) \cup (k + 1)..end
  <2>1. Digested(n) = (q + 1)..(q + 3) \cup (k + 1)..(k + 3)
    BY Zenon DEF Digested
  <2>2. n # 5 => end = k + 3
    OBVIOUS
  <2>3. n = 5 => end = 5
    OBVIOUS
  <2> HIDE DEF n, q, k, end
  <2> QED BY <1>1, <1>2, <2>1, <2>2, <2>3
<1>5. end - k = IF n = 5 THEN 2 ELSE 3
  <2> HIDE DEF k
  <2> QED BY <1>2
<1> HIDE DEF n, q, k, end
<1>6. ASSUME NEW u \in Seq(L), Len(u) = n
      PROVE  /\ SubSeq(u, q + 1, q + 3) \in Seq(L) /\ Len(SubSeq(u, q + 1, q + 3)) = 3
             /\ \A i \in 1..3 : SubSeq(u, q + 1, q + 3)[i] = u[q + i]
             /\ SubSeq(u, k + 1, end) \in Seq(L) /\ Len(SubSeq(u, k + 1, end)) = end - k
             /\ \A i \in 1..(end - k) : SubSeq(u, k + 1, end)[i] = u[k + i]
  <2>1. end - k >= 0 /\ end - k \in Int
    BY <1>2, <1>5
  <2>2. SubSeq(u, q + 1, q + 3) \in Seq(L) /\ SubSeq(u, k + 1, end) \in Seq(L)
    BY <1>2, <1>6
  <2>3. Len(SubSeq(u, q + 1, q + 3)) = 3
    BY <1>2, <1>6
  <2>4. Len(SubSeq(u, k + 1, end)) = end - k
    BY <1>2, <1>6, <2>1
  <2>5. \A i \in 1..3 : SubSeq(u, q + 1, q + 3)[i] = u[q + i]
    BY <1>2, <1>6
  <2>6. \A i \in 1..(end - k) : SubSeq(u, k + 1, end)[i] = u[k + i]
    BY <1>2, <1>6, <2>1
  <2> QED BY <2>2, <2>3, <2>4, <2>5, <2>6
<1>7. /\ Selected(lines, DigestSpec) \in Seq(L)
      /\ Len(Selected(lines, DigestSpec)) = IF n = 5 THEN 5 ELSE 6
  <2> DEFINE a == SubSeq(lines, q + 1, q + 3)  b == SubSeq(lines, k + 1, end)
  <2>1. Len(lines) = n
    BY DEF n
  <2>2. Selected(lines, DigestSpec) = a \o b
    BY <1>3, <2>1
  <2>3. a \in Seq(L) /\ b \in Seq(L) /\ Len(a) = 3 /\ Len(b) = end - k
    BY <1>6, <2>1
  <2> HIDE DEF a, b
  <2>4. a \o b \in Seq(L) /\ Len(a \o b) = 3 + (end - k)
    <3>1. a \o b \in Seq(L) /\ Len(a \o b) = Len(a) + Len(b)
      BY <2>3, ConcatProperties
    <3> QED BY <2>3, <3>1, Zenon
  <2>5. 3 + (end - k) = IF n = 5 THEN 5 ELSE 6
    <3> DEFINE d == end - k
    <3>1. d = IF n = 5 THEN 2 ELSE 3
      BY <1>5
    <3> HIDE DEF d
    <3>2. 3 + d = IF n = 5 THEN 5 ELSE 6
      BY <3>1
    <3> QED BY <3>2 DEF d
  <2> QED BY <2>2, <2>4, <2>5, Zenon
<1>8. ASSUME NEW others \in Seq(L), Len(others) = n, \A i \in Digested(n) \cap 1..n : others[i] = lines[i]
      PROVE  Selected(others, DigestSpec) = Selected(lines, DigestSpec)
  <2> DEFINE a == SubSeq(lines, q + 1, q + 3)  b == SubSeq(lines, k + 1, end)
             c == SubSeq(others, q + 1, q + 3)  d == SubSeq(others, k + 1, end)
  <2>1. Len(lines) = n
    BY DEF n
  <2>2. ASSUME NEW i \in 1..3 PROVE others[q + i] = lines[q + i]
    <3>1. q + i \in (q + 1)..(q + 3)
      BY <1>2
    <3>2. q + i \in Digested(n) \cap 1..n
      BY <1>4, <3>1, Zenon
    <3> QED BY <1>8, <3>2, Zenon
  <2>3. ASSUME NEW i \in 1..(end - k) PROVE others[k + i] = lines[k + i]
    <3>1. k + i \in (k + 1)..end
      BY <1>2
    <3>2. k + i \in Digested(n) \cap 1..n
      BY <1>4, <3>1, Zenon
    <3> QED BY <1>8, <3>2, Zenon
  <2>4. /\ a \in Seq(L) /\ Len(a) = 3 /\ \A i \in 1..3 : a[i] = lines[q + i]
        /\ b \in Seq(L) /\ Len(b) = end - k /\ \A i \in 1..(end - k) : b[i] = lines[k + i]
    BY <1>6, <2>1
  <2>5. /\ c \in Seq(L) /\ Len(c) = 3 /\ \A i \in 1..3 : c[i] = others[q + i]
        /\ d \in Seq(L) /\ Len(d) = end - k /\ \A i \in 1..(end - k) : d[i] = others[k + i]
    BY <1>6, <1>8
  <2> HIDE DEF a, b, c, d
  <2>6. a = c
    <3>1. \A i \in 1..Len(a) : a[i] = c[i]
      BY <2>2, <2>4, <2>5
    <3> QED BY <2>4, <2>5, <3>1, SeqEqual
  <2>7. b = d
    <3>1. \A i \in 1..Len(b) : b[i] = d[i]
      BY <2>3, <2>4, <2>5, ZenonT(60)
    <3> QED BY <2>4, <2>5, <3>1, SeqEqual
  <2>8. Selected(lines, DigestSpec) = a \o b /\ Selected(others, DigestSpec) = c \o d
    BY <1>3, <1>8, <2>1 DEF a, b, c, d
  <2> QED BY <2>6, <2>7, <2>8, Zenon
<1> QED BY <1>7, <1>8 DEF n
=============================================================================
