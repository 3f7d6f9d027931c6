----------------------------- MODULE ClientsProofs -----------------------------
(* Proofs about the runs of the client: what becomes of the local whitelist,    *)
(* when a signed request counts, and what a confirmed one is worth.             *)
EXTENDS Clients, FiniteSetTheorems, TLAPS

USE DEF runVars, fileVars, netVars, serverVars

Places == {"command", "call", "waiting", "loaded", "writing", "done"}
Editing == {"loaded", "writing"}
-----------------------------------------------------------------------------
(* The local whitelist.                                                        *)

\* One command at most has the file in hand; what it loaded, or has emptied and is
\* about to fill, is the list all edits so far add up to.
Tracked ==
    /\ pc \in [Clients -> Places]
    /\ DOMAIN local = Clients
    /\ spoiled \in BOOLEAN
    /\ ~spoiled =>
         /\ \A c, e \in Holders : c = e
         /\ Holders = {} => listFile = intended
         /\ \A c \in Clients : pc[c] = "loaded" => local[c] = listFile /\ listFile = intended
         /\ \A c \in Clients : pc[c] = "writing" => local[c] = intended

LEMMA TrackedInit == CInit => Tracked
<1>1. CInit => /\ pc = [c \in Clients |-> "command"] /\ local = [c \in Clients |-> {}]
              /\ listFile = {} /\ intended = {} /\ spoiled = FALSE
  BY Zenon DEF CInit
<1> QED BY <1>1 DEF Tracked, Holders, Places

\* A step that does not touch the file, nor who has it in hand.
LEMMA Untouched ==
  ASSUME Tracked, pc' \in [Clients -> Places], UNCHANGED <<fileVars, local>>,
         \A c \in Clients : pc'[c] = pc[c] \/ {pc[c], pc'[c]} \cap Editing = {}
  PROVE  Tracked'
<1>1. \A c \in Clients : pc'[c] \in Editing \/ pc[c] \in Editing => pc'[c] = pc[c]
  OBVIOUS
<1>2. Holders' = Holders
  BY <1>1 DEF Holders, Editing
<1> QED BY <1>1, <1>2 DEF Tracked, Editing

LEMMA BeginTracked ==
  ASSUME Tracked, NEW c \in Clients, Begin(c)
  PROVE  Tracked'
<1>1. pc' \in [Clients -> Places] /\ DOMAIN local' = Clients /\ spoiled' \in BOOLEAN
  BY DEF Begin, Tracked, Places
<1>2. \A e \in Clients \ {c} : pc'[e] = pc[e] /\ local'[e] = local[e]
  BY DEF Begin, Tracked
<1>3. CASE Command(c).op \in LocalEdits
  <2>1. pc'[c] = "loaded" /\ local'[c] = listFile /\ UNCHANGED <<listFile, intended>>
    BY <1>3 DEF Begin, Tracked
  <2>2. spoiled' \/ (~spoiled /\ Holders = {})
    BY <1>3 DEF Begin, Tracked
  <2>3. ASSUME ~spoiled, Holders = {} PROVE Holders' = {c}
    BY <1>2, <2>1, <2>3 DEF Holders
  <2>4. ASSUME ~spoiled, Holders = {}
        PROVE  \A e \in Clients \ {c} : pc'[e] \notin {"loaded", "writing"}
    BY <1>2, <2>4 DEF Holders
  <2> QED BY <1>1, <2>1, <2>2, <2>3, <2>4 DEF Tracked
<1>4. CASE Command(c).op \notin LocalEdits
  <2>1. pc[c] = "command" /\ pc'[c] = "call" /\ UNCHANGED <<listFile, intended>>
    BY <1>4 DEF Begin, Tracked
  <2>2. Holders' = Holders
    BY <1>2, <2>1 DEF Holders
  <2>3. spoiled' \/ ~spoiled
    BY DEF Begin, Tracked
  <2>4. ~spoiled' => ~spoiled
    BY DEF Begin, Tracked
  <2> QED BY <1>1, <1>2, <2>1, <2>2, <2>4 DEF Tracked
<1> QED BY <1>3, <1>4

LEMMA TruncateTracked ==
  ASSUME Tracked, NEW c \in Clients, Truncate(c)
  PROVE  Tracked'
<1>1. /\ pc' \in [Clients -> Places] /\ spoiled' \in BOOLEAN
      /\ pc[c] = "loaded" /\ pc'[c] = "writing" /\ UNCHANGED <<local, intended>>
      /\ \A e \in Clients \ {c} : pc'[e] = pc[e]
  BY DEF Truncate, Tracked, Places
<1>2. Holders' = Holders
  BY <1>1 DEF Holders
<1>3. ~spoiled' => ~spoiled /\ Holders = {c}
  BY DEF Truncate, Tracked
<1>4. ASSUME ~spoiled' PROVE \A e \in Clients \ {c} : pc'[e] \notin {"loaded", "writing"}
  BY <1>1, <1>3, <1>4 DEF Holders
<1> QED BY <1>1, <1>2, <1>3, <1>4 DEF Tracked

LEMMA FillTracked ==
  ASSUME Tracked, NEW c \in Clients, Fill(c)
  PROVE  Tracked'
<1>1. /\ pc' \in [Clients -> Places] /\ UNCHANGED <<local, spoiled>>
      /\ pc[c] = "writing" /\ pc'[c] = "command"
      /\ \A e \in Clients \ {c} : pc'[e] = pc[e]
      /\ listFile' = Edited(c, local[c]) /\ intended' = Edited(c, intended)
  BY DEF Fill, Finish, EditedList, Tracked, Places
<1>2. ASSUME ~spoiled PROVE Holders' = {} /\ listFile' = intended'
  BY <1>1, <1>2 DEF Tracked, Holders
<1>3. Holders' = {} => \A e \in Clients : pc'[e] \notin {"loaded", "writing"}
  BY DEF Holders
<1> QED BY <1>1, <1>2, <1>3 DEF Tracked

LEMMA WriteFailsTracked ==
  ASSUME Tracked, NEW c \in Clients, WriteFails(c)
  PROVE  Tracked'
<1>1. /\ pc' \in [Clients -> Places] /\ UNCHANGED <<local, listFile, intended>>
      /\ pc[c] \in {"loaded", "writing"} /\ pc'[c] = "done"
      /\ \A e \in Clients \ {c} : pc'[e] = pc[e]
  BY DEF WriteFails, Tracked, Places
<1>4. spoiled' \in BOOLEAN /\ (~spoiled' => ~spoiled /\ pc[c] # "writing")
  BY DEF WriteFails
<1>2. ASSUME ~spoiled' PROVE Holders' = {} /\ listFile = intended
  BY <1>1, <1>2, <1>4 DEF Tracked, Holders
<1>3. Holders' = {} => \A e \in Clients : pc'[e] \notin {"loaded", "writing"}
  BY DEF Holders
<1> QED BY <1>1, <1>2, <1>3, <1>4 DEF Tracked

\* The steps of a run that leave the file alone.
LEMMA CallsTracked ==
  ASSUME Tracked, NEW c \in Clients,
         CommandEnds(c) \/ RunEnds(c) \/ Mock(c) \/ Send(c) \/ Receive(c) \/ TimedOut(c)
  PROVE  Tracked'
<1>1. UNCHANGED <<fileVars, local>>
  BY DEF CommandEnds, RunEnds, Mock, Send, Receive, TimedOut, Settle, Finish
<1>2. \/ UNCHANGED pc
      \/ /\ pc[c] \notin Editing
         /\ \E l \in Places \ Editing : pc' = [pc EXCEPT ![c] = l]
  BY DEF CommandEnds, RunEnds, Mock, Send, Receive, TimedOut, Settle, Finish, Calling, Places,
         Editing
<1>3. pc' \in [Clients -> Places]
  BY <1>2 DEF Tracked
<1>4. \A e \in Clients : pc'[e] = pc[e] \/ {pc[e], pc'[e]} \cap Editing = {}
  BY <1>2 DEF Tracked
<1> QED BY <1>1, <1>3, <1>4, Untouched

LEMMA TrackedStep == Tracked /\ [CNext]_cvars => Tracked'
<1> SUFFICES ASSUME Tracked, [CNext]_cvars PROVE Tracked'
  OBVIOUS
<1>1. CASE \E c \in Clients : Run(c)
  BY <1>1, BeginTracked, TruncateTracked, FillTracked, WriteFailsTracked, CallsTracked DEF Run
<1>2. CASE Server \/ ClockTick \/ UNCHANGED cvars
  <2>1. UNCHANGED <<pc, local, fileVars>>
    BY <1>2 DEF Server, Verify, Serve, ClockTick, cvars
  <2> QED BY <2>1 DEF Tracked, Holders
<1> QED BY <1>1, <1>2 DEF CNext

\* An edit of the local whitelist is lost only to a command that overlapped it or
\* to a write that broke off, however many runs edit the file (bin/ruzor.rs:666,
\* save_local_whitelist).
THEOREM LocalEditsSafe == CSpec => []LocalEditsKept
<1>1. Tracked => LocalEditsKept
  BY DEF Tracked, LocalEditsKept
<1> QED BY <1>1, TrackedInit, TrackedStep, PTL DEF CSpec
-----------------------------------------------------------------------------
(* The requests.                                                               *)

\* Of a request only left ever changes.
Same(p, q) ==
    /\ q.by = p.by /\ q.number = p.number /\ q.thread = p.thread /\ q.op = p.op
    /\ q.user = p.user /\ q.time = p.time
    /\ q.server = p.server /\ q.digest = p.digest /\ q.wlThen = p.wlThen

Shaped(p) ==
    p = [by |-> p.by, number |-> p.number, port |-> p.port, thread |-> p.thread, op |-> p.op,
         server |-> p.server, digest |-> p.digest, user |-> p.user, time |-> p.time,
         wlThen |-> p.wlThen, left |-> p.left]

Numbered ==
    /\ clock \in Nat
    /\ line \in Lines
    /\ IsFiniteSet(sent)
    /\ \A p \in sent : /\ Shaped(p) /\ p.number \in Nat /\ p.number <= Cardinality(sent)
                       /\ p.time \in Int /\ p.by \in Clients /\ p.user = line[p.by].user
    /\ \A p, q \in sent : p.number = q.number => p = q
    /\ \A k \in served \cup credited : k.number \in Nat /\ k.number <= Cardinality(sent)

LEMMA NumberedInit == CInit => Numbered
<1>1. CInit => /\ clock = 1 /\ sent = {} /\ credited = {} /\ served = {} /\ line \in Lines
  BY Zenon DEF CInit
<1> QED BY <1>1, FS_EmptySet DEF Numbered

\* The request a call sends is new, and numbered next.
LEMMA SendAdds ==
  ASSUME Numbered, NEW c \in Clients, Send(c)
  PROVE  \E p : /\ p \notin sent /\ sent' = sent \cup {p}
               /\ Shaped(p) /\ p.by = c /\ p.number = Cardinality(sent) + 1
               /\ p.user = line[c].user /\ p.time = clock + line[c].skew
               /\ p.time \in Int /\ p.thread \in ThreadChoices
               /\ p.op = Command(c).op /\ p.server = ServerAt(c, turn[c])
               /\ p.digest = DigestAt(c, turn[c])
               /\ p.wlThen = counts[p.server][p.digest].wl
               /\ socket' = [socket EXCEPT ![c] = [port |-> p.port, number |-> p.number]]
<1> DEFINE server == ServerAt(c, turn[c])
           digest == DigestAt(c, turn[c])
           wl == counts[server][digest].wl
<1> HIDE DEF server, digest, wl
<1>1. PICK port, thread :
        /\ thread \in ThreadChoices
        /\ socket' = [socket EXCEPT ![c] = [port |-> port, number |-> Cardinality(sent) + 1]]
        /\ sent' = sent \cup {[by |-> c, number |-> Cardinality(sent) + 1, port |-> port,
                               thread |-> thread, op |-> Command(c).op, server |-> server,
                               digest |-> digest, user |-> line[c].user,
                               time |-> clock + line[c].skew, wlThen |-> wl, left |-> Copies]}
  BY Zenon DEF Send, server, digest, wl
<1> DEFINE p == [by |-> c, number |-> Cardinality(sent) + 1, port |-> port,
                 thread |-> thread, op |-> Command(c).op, server |-> server,
                 digest |-> digest, user |-> line[c].user,
                 time |-> clock + line[c].skew, wlThen |-> wl, left |-> Copies]
<1>2. /\ Shaped(p) /\ p.by = c /\ p.number = Cardinality(sent) + 1 /\ p.port = port
      /\ p.thread = thread /\ p.user = line[c].user /\ p.time = clock + line[c].skew
      /\ p.op = Command(c).op /\ p.server = server /\ p.digest = digest /\ p.wlThen = wl
  BY DEF Shaped
<1>3. clock + line[c].skew \in Int
  BY ClientsAssumption DEF Numbered
<1>4. p \notin sent
  BY <1>2, FS_CardinalityType DEF Numbered
<1> HIDE DEF p
<1>5. sent' = sent \cup {p}
  BY <1>1 DEF p
<1>6. socket' = [socket EXCEPT ![c] = [port |-> p.port, number |-> p.number]]
  BY <1>1, <1>2
<1>7. p.thread \in ThreadChoices /\ p.time \in Int
  BY <1>1, <1>2, <1>3
<1>8. /\ p.server = ServerAt(c, turn[c]) /\ p.digest = DigestAt(c, turn[c])
      /\ p.wlThen = counts[p.server][p.digest].wl
  BY <1>2 DEF server, digest, wl
<1> QED BY <1>2, <1>4, <1>5, <1>6, <1>7, <1>8

\* What a server does with a request: it verifies it, or counts and answers it.
Handle(p) == Verify(p) \/ \E s \in served : Serve(p, s)

LEMMA ServerHandles == Server <=> \E p \in sent : Handle(p)
BY DEF Server, Handle

LEMMA HandleQuiet ==
  ASSUME NEW p \in sent, Handle(p)
  PROVE  UNCHANGED <<clock, line, runVars, fileVars>>
BY DEF Handle, Verify, Serve

\* A delivery keeps the requests, up to what is left of them.
LEMMA HandleKeeps ==
  ASSUME Numbered, NEW p \in sent, Handle(p)
  PROVE  /\ IsFiniteSet(sent') /\ Cardinality(sent') = Cardinality(sent)
         /\ \A q \in sent' : Shaped(q) /\ \E o \in sent : Same(o, q)
         /\ \A o \in sent : \E q \in sent' : Same(o, q)
         /\ \A q, o \in sent' : q.number = o.number => q = o
<1>1. CASE sent' = sent
  BY <1>1 DEF Numbered, Same
<1>2. CASE Verify(p)
  <2> DEFINE n == [p EXCEPT !.left = @ - 1]
  <2>1. sent' = (sent \ {p}) \cup {n}
    BY <1>2 DEF Verify
  <2>2. Shaped(p)
    BY DEF Numbered
  <2>3. Shaped(n) /\ Same(p, n)
    BY <2>2 DEF Shaped, Same
  <2> HIDE DEF n
  <2>4. n \notin sent \ {p}
    BY <2>3 DEF Numbered, Same
  <2>5. /\ IsFiniteSet(sent \ {p}) /\ Cardinality(sent \ {p}) = Cardinality(sent) - 1
    BY FS_RemoveElement DEF Numbered
  <2>6. IsFiniteSet(sent') /\ Cardinality(sent') = Cardinality(sent)
    <3>1. IsFiniteSet(sent') /\ Cardinality(sent') = Cardinality(sent \ {p}) + 1
      BY <2>1, <2>4, <2>5, FS_AddElement
    <3>2. Cardinality(sent) \in Nat
      BY FS_CardinalityType DEF Numbered
    <3> QED BY <2>5, <3>1, <3>2
  <2>7. \A q \in sent' : Shaped(q) /\ \E o \in sent : Same(o, q)
    BY <2>1, <2>3 DEF Numbered, Same
  <2>8. \A o \in sent : \E q \in sent' : Same(o, q)
    BY <2>1, <2>3 DEF Same
  <2>9. \A q, o \in sent' : q.number = o.number => q = o
    BY <2>1, <2>3, <2>4 DEF Numbered, Same
  <2> QED BY <2>6, <2>7, <2>8, <2>9
<1>3. (\E s \in served : Serve(p, s)) => sent' = sent
  BY DEF Serve
<1> QED BY <1>1, <1>2, <1>3 DEF Handle

\* What a delivery counts: only what has been verified.
LEMMA HandleCounts ==
  ASSUME NEW p \in sent, Handle(p)
  PROVE  \/ credited' = credited
         \/ \E s \in served :
              /\ s.number = p.number /\ s.code = 200
              /\ credited' = credited \cup {[number |-> p.number, copy |-> s.copy, at |-> clock]}
<1>1. CASE Verify(p)
  BY <1>1 DEF Verify
<1>2. ASSUME NEW s \in served, Serve(p, s)
      PROVE  \/ credited' = credited
             \/ /\ s.number = p.number /\ s.code = 200
                /\ credited' = credited \cup {[number |-> p.number, copy |-> s.copy, at |-> clock]}
  BY Zenon, <1>2 DEF Serve
<1> QED BY <1>1, <1>2 DEF Handle

LEMMA HandleCredits ==
  ASSUME NEW p \in sent, Handle(p)
  PROVE  credited \subseteq credited'
<1>1. \/ credited' = credited
      \/ \E k : credited' = credited \cup {k}
  BY HandleCounts
<1> QED BY <1>1

\* What waits for a database has been verified, now or before.
LEMMA HandleVerifies ==
  ASSUME NEW p \in sent, Handle(p), NEW s \in served'
  PROVE  s \in served \/ (s.number = p.number /\ s.code = Code(p))
<1>1. CASE Verify(p)
  <2> DEFINE t == [number |-> p.number, copy |-> p.left, code |-> Code(p)]
  <2>1. served' = served \cup {t}
    BY Zenon, <1>1 DEF Verify
  <2>2. t.number = p.number /\ t.code = Code(p)
    OBVIOUS
  <2> HIDE DEF t
  <2> QED BY <2>1, <2>2
<1>2. CASE \E t \in served : Serve(p, t)
  BY <1>2 DEF Serve
<1> QED BY <1>1, <1>2 DEF Handle

\* The other steps leave requests and credits alone.
LEMMA OthersQuiet ==
  ASSUME NEW c \in Clients, Run(c), ~Send(c)
  PROVE  UNCHANGED <<sent, answers, served, credited, clock, line>>
BY DEF Run, Begin, CommandEnds, RunEnds, Truncate, Fill, WriteFails, Mock, Receive, TimedOut,
       Settle, Finish

LEMMA NumberedStep == Numbered /\ [CNext]_cvars => Numbered'
<1> SUFFICES ASSUME Numbered, [CNext]_cvars PROVE Numbered'
  OBVIOUS
<1>1. ASSUME NEW c \in Clients, Send(c) PROVE Numbered'
  <2>1. PICK p : /\ p \notin sent /\ sent' = sent \cup {p} /\ Shaped(p) /\ p.by = c
                 /\ p.number = Cardinality(sent) + 1 /\ p.time \in Int /\ p.user = line[c].user
    BY <1>1, SendAdds
  <2>2. IsFiniteSet(sent') /\ Cardinality(sent') = Cardinality(sent) + 1
    BY <2>1, FS_AddElement DEF Numbered
  <2>3. Cardinality(sent) \in Nat
    BY FS_CardinalityType DEF Numbered
  <2>4. UNCHANGED <<clock, line, served, credited>>
    BY <1>1 DEF Send
  <2>5. \A q \in sent' : /\ Shaped(q) /\ q.number \in Nat /\ q.number <= Cardinality(sent')
                         /\ q.time \in Int /\ q.by \in Clients /\ q.user = line'[q.by].user
    BY <2>1, <2>2, <2>3, <2>4 DEF Numbered
  <2>6. \A q, o \in sent' : q.number = o.number => q = o
    BY <2>1, <2>3 DEF Numbered
  <2>7. \A k \in served' \cup credited' : k.number \in Nat /\ k.number <= Cardinality(sent')
    BY <2>2, <2>3, <2>4 DEF Numbered
  <2>8. clock' \in Nat /\ line' \in Lines
    BY <2>4 DEF Numbered
  <2> QED BY <2>2, <2>5, <2>6, <2>7, <2>8 DEF Numbered
<1>2. ASSUME NEW p \in sent, Handle(p) PROVE Numbered'
  <2>1. UNCHANGED <<clock, line>>
    BY <1>2, HandleQuiet
  <2>2. \A k \in credited' : k.number \in Nat /\ k.number <= Cardinality(sent)
    BY <1>2, HandleCounts DEF Numbered
  <2>3. \A k \in served' : k.number \in Nat /\ k.number <= Cardinality(sent)
    BY <1>2, HandleVerifies DEF Numbered
  <2> QED BY <1>2, <2>1, <2>2, <2>3, HandleKeeps DEF Numbered, Same
<1>3. CASE UNCHANGED <<sent, answers, served, credited, line>> /\ clock' \in Nat
  BY <1>3 DEF Numbered
<1>4. ClockTick \/ UNCHANGED cvars =>
        UNCHANGED <<sent, answers, served, credited, line>> /\ clock' \in Nat
  BY DEF ClockTick, cvars, Numbered
<1> QED BY <1>1, <1>2, <1>3, <1>4, OthersQuiet, ServerHandles DEF CNext, Numbered
-----------------------------------------------------------------------------
(* Signatures.                                                                 *)

\* The window around the request of an account has begun, and was not over when
\* the request was sent.
Open(p, at) == p.time - Window <= at /\ line[p.by].skew + Window >= 0

\* Requests bear the time of their clients; those that wait for a database, or
\* are counted, were in their window when they were verified.
Timely ==
    /\ \A p \in sent : p.time <= clock + line[p.by].skew
    /\ \A p \in sent, s \in served :
         s.number = p.number /\ s.code = 200 /\ p.user = "account" => Open(p, clock)
    /\ \A p \in sent, k \in credited :
         k.number = p.number /\ p.user = "account" => Open(p, k.at)

\* Whoever verifies a request of an account has looked at its time.
LEMMA VerifiedInTime ==
  ASSUME NEW p, p.user = "account", Code(p) = 200, clock \in Nat, p.time \in Int,
         line[p.by].skew \in Int, p.time <= clock + line[p.by].skew
  PROVE  Open(p, clock)
<1>1. Signed(p)
  BY DEF Code
<1>2. TimeAccepted(p.time)
  BY <1>1 DEF Signed
<1>3. Window \in Nat
  BY ClientsAssumption
<1> DEFINE skew == line[p.by].skew
<1>4. skew \in Int /\ p.time <= clock + skew
  OBVIOUS
<1>5. Open(p, clock) <=> p.time - Window <= clock /\ skew + Window >= 0
  BY DEF Open
<1> HIDE DEF skew
<1>6. clock - p.time <= Window /\ p.time - clock <= Window
  BY <1>2 DEF TimeAccepted
<1> QED BY <1>3, <1>4, <1>5, <1>6

LEMMA SkewType == ASSUME Numbered, NEW c \in Clients PROVE line[c].skew \in Int
BY ClientsAssumption DEF Numbered

LEMMA TimelyStep == Numbered /\ Timely /\ [CNext]_cvars => Timely'
<1> SUFFICES ASSUME Numbered, Timely, [CNext]_cvars PROVE Timely'
  OBVIOUS
<1>1. ASSUME NEW c \in Clients, Send(c) PROVE Timely'
  <2>1. PICK p : /\ sent' = sent \cup {p} /\ p.number = Cardinality(sent) + 1
                 /\ p.by = c /\ p.time = clock + line[c].skew /\ p.time \in Int
    BY <1>1, SendAdds
  <2>2. \A k \in served \cup credited : k.number # p.number
    BY <2>1, FS_CardinalityType DEF Numbered
  <2>3. UNCHANGED <<served, credited, clock, line>>
    BY <1>1 DEF Send
  <2>4. \A q, at : Open(q, at)' <=> Open(q, at)
    BY <2>3 DEF Open
  <2>5. \A q \in sent' : q.time <= clock + line[q.by].skew
    BY <2>1 DEF Timely
  <2> HIDE DEF Open
  <2> QED BY <2>1, <2>2, <2>3, <2>4, <2>5 DEF Timely
<1>2. ASSUME NEW p \in sent, Handle(p) PROVE Timely'
  <2>1. UNCHANGED <<clock, line>>
    BY <1>2, HandleQuiet
  <2>2. \A q, at : Open(q, at)' <=> Open(q, at)
    BY <2>1 DEF Open
  <2>3. \A q, o, at : Same(o, q) /\ Open(o, at) => Open(q, at)
    BY DEF Open, Same
  <2>4. \A q \in sent' : q.time <= clock + line[q.by].skew
    BY <1>2, HandleKeeps DEF Timely, Same
  <2>5. ASSUME NEW q \in sent', NEW s \in served', s.number = q.number, s.code = 200,
               q.user = "account"
        PROVE  Open(q, clock)
    <3>1. PICK o \in sent : Same(o, q)
      BY <1>2, HandleKeeps
    <3>2. o.number = q.number /\ o.user = q.user
      BY <3>1 DEF Same
    <3>3. CASE s \in served
      BY <2>3, <2>5, <3>1, <3>2, <3>3 DEF Timely
    <3>4. CASE s.number = p.number /\ s.code = Code(p)
      <4>1. o = p
        BY <2>5, <3>2, <3>4 DEF Numbered
      <4>2. p.time \in Int /\ p.by \in Clients /\ p.time <= clock + line[p.by].skew /\ clock \in Nat
        BY DEF Numbered, Timely
      <4>3. Open(p, clock)
        BY <2>5, <3>2, <3>4, <4>1, <4>2, SkewType, VerifiedInTime
      <4> QED BY <2>3, <3>1, <4>1, <4>3
    <3> QED BY <1>2, <3>3, <3>4, HandleVerifies
  <2>6. ASSUME NEW q \in sent', NEW k \in credited', k.number = q.number, q.user = "account"
        PROVE  Open(q, k.at)
    <3>1. PICK o \in sent : Same(o, q)
      BY <1>2, HandleKeeps
    <3>2. o.number = q.number /\ o.user = q.user
      BY <3>1 DEF Same
    <3>3. CASE k \in credited
      BY <2>3, <2>6, <3>1, <3>2, <3>3 DEF Timely
    <3>4. ASSUME NEW s \in served, s.number = p.number, s.code = 200,
                 k = [number |-> p.number, copy |-> s.copy, at |-> clock]
          PROVE  Open(q, k.at)
      <4>1. k.number = p.number /\ k.at = clock
        BY <3>4
      <4>2. o = p
        BY <2>6, <3>2, <4>1 DEF Numbered
      <4>3. Open(p, clock)
        BY <2>6, <3>2, <3>4, <4>2 DEF Timely
      <4> QED BY <2>3, <3>1, <4>1, <4>2, <4>3
    <3>5. \/ k \in credited
          \/ \E s \in served : /\ s.number = p.number /\ s.code = 200
                               /\ k = [number |-> p.number, copy |-> s.copy, at |-> clock]
      BY <1>2, HandleCounts
    <3> QED BY <3>3, <3>4, <3>5
  <2> HIDE DEF Open
  <2> QED BY <2>1, <2>2, <2>4, <2>5, <2>6 DEF Timely
<1>3. ASSUME UNCHANGED <<sent, served, credited, line>>, clock' \in Nat, clock <= clock'
      PROVE  Timely'
  <2>1. ASSUME NEW p \in sent
        PROVE  p.time \in Int /\ clock \in Nat /\ line[p.by].skew \in Int
    BY SkewType DEF Numbered
  <2>2. \A p \in sent : Open(p, clock) => Open(p, clock')
    BY <1>3, <2>1, ClientsAssumption DEF Open
  <2>3. \A p \in sent : p.time <= clock' + line[p.by].skew
    BY <1>3, <2>1 DEF Timely
  <2>4. \A p, at : Open(p, at)' <=> Open(p, at')
    BY <1>3 DEF Open
  <2> HIDE DEF Open
  <2> QED BY <1>3, <2>2, <2>3, <2>4 DEF Timely
<1>4. ClockTick \/ UNCHANGED cvars =>
        UNCHANGED <<sent, served, credited, line>> /\ clock' \in Nat /\ clock <= clock'
  BY DEF ClockTick, cvars, Numbered
<1>5. clock \in Nat
  BY DEF Numbered
<1> QED BY <1>1, <1>2, <1>3, <1>4, <1>5, OthersQuiet, ServerHandles DEF CNext

\* Any number of clients, servers and deliveries, and any time between the
\* verification of a request and its turn at the database: a request of an account
\* is never counted before the window around its time has begun, nor ever if its
\* client's clock is behind by more than the window (account.rs:62; server.rs:719,
\* with_database).
THEOREM WindowSafe == CSpec => []CountedInWindow
<1>1. CInit => Timely
  <2>1. CInit => sent = {}
    BY Zenon DEF CInit
  <2> QED BY <2>1 DEF Timely
<1>2. Timely => CountedInWindow
  BY DEF Timely, CountedInWindow, Open
<1> QED BY <1>1, <1>2, NumberedInit, NumberedStep, TimelyStep, PTL DEF CSpec
-----------------------------------------------------------------------------
(* What an exit code of 0 is worth.                                            *)

Updating == {"report", "whitelist"}
Credited(p) == \E k \in credited : k.number = p.number

\* An answer of 200 carries the thread of a request that has been counted.
Answered ==
    /\ \A a \in answers : a.code = 200 =>
         \E q \in sent : q.thread = a.thread /\ (q.op \in Updating => Credited(q))
    /\ \A p \in sent : p.thread \in Nat /\ p.thread >= OkMin

CallTypes ==
    /\ exitCode \in [Clients -> {0, 1}]
    /\ allOk \in [Clients -> BOOLEAN]
    /\ DOMAIN socket = Clients
    /\ \A c \in Clients : pc[c] = "waiting" => \E p \in sent : p.number = socket[c].number

\* All is well so far with this run.
Clean(c) == exitCode[c] = 0 /\ (pc[c] \in {"call", "waiting"} => allOk[c])
UnderWay(c, p) == pc[c] = "waiting" /\ p.number = socket[c].number
Confirmed(c) ==
    \A p \in CallsBy(c, Updating) : UnderWay(c, p) \/ (Alone(p) => Credited(p))

Honest == \A c \in Clients : Clean(c) => Confirmed(c)

LEMMA HonestInit == CInit => Answered /\ CallTypes /\ Honest
<1>1. CInit => /\ sent = {} /\ answers = {}
              /\ pc = [c \in Clients |-> "command"]
              /\ exitCode = [c \in Clients |-> 0] /\ allOk = [c \in Clients |-> TRUE]
              /\ DOMAIN socket = Clients
  BY Zenon DEF CInit
<1> QED BY <1>1 DEF Answered, CallTypes, Honest, Confirmed, CallsBy

\* Only a refusal carries another thread than its request; an answer of 200 to an
\* update is sent with the count.
LEMMA HandleAnswers ==
  ASSUME NEW p \in sent, Handle(p)
  PROVE  \A a \in answers' :
           \/ a \in answers
           \/ a.code = 200 => a.thread = p.thread /\ (p.op \in Updating => Credited(p)')
<1>1. ASSUME NEW s \in served, Serve(p, s), NEW a \in answers', a \notin answers, a.code = 200
      PROVE  a.thread = p.thread /\ (p.op \in Updating => Credited(p)')
  <2> DEFINE r == CASE p.op = "pong" -> Threshold + 1
                    [] p.op \in {"check", "info"} -> counts[p.server][p.digest].r
                    [] OTHER -> 0
             wl == IF p.op \in {"check", "info"} THEN counts[p.server][p.digest].wl ELSE 0
             k == [number |-> p.number, copy |-> s.copy, at |-> clock]
  <2>1. \E thread \in {p.thread} \cup (IF s.code # 200 THEN ErrorIds ELSE {}) :
          answers' = answers \cup {[port |-> p.port, thread |-> thread, code |-> s.code,
                                    r |-> r, wl |-> wl]}
    BY Zenon, <1>1 DEF Serve
  <2> HIDE DEF r, wl
  <2>2. s.code = 200 /\ a.thread = p.thread
    BY <1>1, <2>1
  <2>3. p.op \in Updating => credited' = credited \cup {k}
    BY Zenon, <1>1, <2>2 DEF Serve, Updating
  <2>4. k.number = p.number
    OBVIOUS
  <2> HIDE DEF k
  <2> QED BY <2>2, <2>3, <2>4 DEF Credited
<1>2. Verify(p) => answers' = answers
  BY DEF Verify
<1> QED BY <1>1, <1>2 DEF Handle

LEMMA AnsweredStep == Numbered /\ Answered /\ [CNext]_cvars => Answered'
<1> SUFFICES ASSUME Numbered, Answered, [CNext]_cvars PROVE Answered'
  OBVIOUS
<1>1. ASSUME NEW c \in Clients, Send(c) PROVE Answered'
  <2>1. PICK p : sent' = sent \cup {p} /\ p.thread \in ThreadChoices
    BY <1>1, SendAdds
  <2>2. p.thread \in Nat /\ p.thread >= OkMin
    BY <2>1, FS_CardinalityType, ClientsAssumption DEF Answered, Numbered, ThreadChoices
  <2>3. UNCHANGED <<answers, credited>>
    BY <1>1 DEF Send
  <2> QED BY <2>1, <2>2, <2>3 DEF Answered, Credited
<1>2. ASSUME NEW p \in sent, Handle(p) PROVE Answered'
  <2>1. \A q \in sent' : q.thread \in Nat /\ q.thread >= OkMin
    BY <1>2, HandleKeeps DEF Answered, Same
  <2>2. credited \subseteq credited'
    BY <1>2, HandleCredits
  <2>3. ASSUME NEW o \in sent, o.op \in Updating => Credited(o)'
        PROVE  \E q \in sent' : q.thread = o.thread /\ (q.op \in Updating => Credited(q)')
    BY <1>2, <2>3, HandleKeeps DEF Same, Credited
  <2>6. ASSUME NEW a \in answers', a.code = 200
        PROVE  \E q \in sent' : q.thread = a.thread /\ (q.op \in Updating => Credited(q)')
    <3>1. CASE a \in answers
      <4>1. PICK o \in sent : o.thread = a.thread /\ (o.op \in Updating => Credited(o))
        BY <2>6, <3>1 DEF Answered
      <4> QED BY <4>1, <2>2, <2>3 DEF Credited
    <3>2. CASE a.thread = p.thread /\ (p.op \in Updating => Credited(p)')
      BY <2>3, <3>2
    <3> QED BY <1>2, <2>6, <3>1, <3>2, HandleAnswers
  <2> QED BY <2>1, <2>6 DEF Answered, Credited
<1>3. CASE UNCHANGED <<sent, answers, credited>>
  BY <1>3 DEF Answered, Credited
<1>4. ClockTick \/ UNCHANGED cvars => UNCHANGED <<sent, answers, credited>>
  BY DEF ClockTick, cvars
<1> QED BY <1>1, <1>2, <1>3, <1>4, OthersQuiet, ServerHandles DEF CNext

\* A step that leaves the requests, the credits and the sockets alone, and after
\* which the run of c is only clean if it was.
LEMMA QuietHonest ==
  ASSUME Honest, NEW c \in Clients, UNCHANGED <<sent, credited, socket>>,
         pc[c] # "waiting", pc'[c] # "waiting", Clean(c)' => Clean(c),
         \A e \in Clients \ {c} :
           pc'[e] = pc[e] /\ exitCode'[e] = exitCode[e] /\ allOk'[e] = allOk[e]
  PROVE  Honest'
<1> SUFFICES ASSUME NEW e \in Clients, Clean(e)' PROVE Confirmed(e)'
  BY DEF Honest
<1>1. Clean(e)
  BY DEF Clean
<1>2. Confirmed(e)
  BY <1>1 DEF Honest
<1>3. \A p : UnderWay(e, p) => UnderWay(e, p)'
  BY DEF UnderWay
<1> QED BY <1>2, <1>3 DEF Confirmed, CallsBy, Alone, Credited

\* The steps of a run between its calls.
LEMMA BetweenCallsHonest ==
  ASSUME Honest, Tracked, CallTypes, NEW c \in Clients,
         Begin(c) \/ CommandEnds(c) \/ RunEnds(c) \/ Truncate(c) \/ Fill(c) \/ WriteFails(c) \/ Mock(c)
  PROVE  Honest' /\ CallTypes'
<1>1. UNCHANGED <<sent, credited, socket>>
  BY DEF Begin, CommandEnds, RunEnds, Truncate, Fill, WriteFails, Mock, Finish
<1>2. pc' \in [Clients -> Places] /\ pc \in [Clients -> Places]
  BY BeginTracked, TruncateTracked, FillTracked, WriteFailsTracked, CallsTracked DEF Tracked
<1>3. /\ exitCode' \in [Clients -> {0, 1}] /\ allOk' \in [Clients -> BOOLEAN]
      /\ pc[c] # "waiting" /\ pc'[c] # "waiting" /\ (Clean(c)' => Clean(c))
      /\ \A e \in Clients \ {c} :
           pc'[e] = pc[e] /\ exitCode'[e] = exitCode[e] /\ allOk'[e] = allOk[e]
  <2>1. CASE Begin(c)
    BY <1>2, <2>1 DEF Begin, CallTypes, Clean
  <2>2. CASE CommandEnds(c)
    <3>1. CommandOk(c) => allOk[c]
      BY DEF CommandOk
    <3> QED BY <1>2, <2>2, <3>1 DEF CommandEnds, Finish, CallTypes, Clean
  <2>3. CASE RunEnds(c) \/ Mock(c)
    BY <1>2, <2>3 DEF RunEnds, Mock, Calling, CallTypes, Clean
  <2>4. CASE Truncate(c) \/ Fill(c) \/ WriteFails(c)
    BY <1>2, <2>4 DEF Truncate, Fill, WriteFails, Finish, CallTypes, Clean
  <2> QED BY <2>1, <2>2, <2>3, <2>4
<1>4. Honest'
  BY <1>1, <1>3, QuietHonest
<1> QED BY <1>1, <1>3, <1>4 DEF CallTypes

LEMMA SendHonest ==
  ASSUME Honest, Tracked, CallTypes, Numbered, NEW c \in Clients, Send(c)
  PROVE  Honest' /\ CallTypes'
<1>1. PICK p : /\ sent' = sent \cup {p} /\ p.by = c
               /\ socket' = [socket EXCEPT ![c] = [port |-> p.port, number |-> p.number]]
  BY SendAdds
<1>2. /\ pc[c] = "call" /\ pc' = [pc EXCEPT ![c] = "waiting"]
      /\ UNCHANGED <<exitCode, allOk, credited>>
  BY DEF Send, Calling
<1>3. socket'[c].number = p.number /\ pc'[c] = "waiting"
  BY <1>1, <1>2 DEF CallTypes, Tracked
<1>4. \A e \in Clients \ {c} : pc'[e] = pc[e] /\ socket'[e] = socket[e]
  BY <1>1, <1>2 DEF CallTypes, Tracked
<1>5. CallTypes'
  BY <1>1, <1>2, <1>3, <1>4 DEF CallTypes
<1>6. ASSUME NEW e \in Clients, Clean(e)', NEW q \in CallsBy(e, Updating)', Alone(q)'
      PROVE  UnderWay(e, q)' \/ Credited(q)'
  <2>1. Clean(e)
    BY <1>2, <1>3, <1>4, <1>6 DEF Clean
  <2>2. CASE q \in sent
    <3>1. Alone(q)
      BY <1>1, <1>6 DEF Alone
    <3>2. UnderWay(e, q) \/ Credited(q)
      BY <1>6, <2>1, <2>2, <3>1 DEF Honest, Confirmed, CallsBy
    <3> QED BY <1>2, <1>4, <3>2 DEF UnderWay, Credited
  <2>3. CASE q = p
    BY <1>1, <1>3, <1>6, <2>3 DEF CallsBy, UnderWay
  <2> QED BY <1>1, <1>6, <2>2, <2>3 DEF CallsBy
<1>7. Honest'
  BY <1>6 DEF Honest, Confirmed
<1> QED BY <1>5, <1>7

\* A call comes back; the answer a, if it is not an error, is one of its own thread.
LEMMA BackHonest ==
  ASSUME Honest, Tracked, CallTypes, Numbered, NEW c \in Clients, NEW a, Settle(c, a),
         pc[c] = "waiting",
         a.code = 200 => \A p \in CallsBy(c, Updating) :
                           p.number = socket[c].number /\ Alone(p) => Credited(p)
  PROVE  Honest' /\ CallTypes'
<1>1. /\ UNCHANGED <<sent, credited, socket, exitCode>>
      /\ pc' = [pc EXCEPT ![c] = "call"]
      /\ allOk' = [allOk EXCEPT ![c] = @ /\ a.code = 200]
  BY DEF Settle
<1>2. pc'[c] = "call" /\ \A e \in Clients \ {c} : pc'[e] = pc[e]
  BY <1>1 DEF Tracked
<1>3. allOk' \in [Clients -> BOOLEAN] /\ (allOk'[c] => allOk[c] /\ a.code = 200)
      /\ \A e \in Clients \ {c} : allOk'[e] = allOk[e]
  BY Zenon, <1>1 DEF CallTypes
<1>4. CallTypes'
  BY <1>1, <1>2, <1>3 DEF CallTypes
<1>5. ASSUME NEW e \in Clients, Clean(e)', NEW q \in CallsBy(e, Updating)', Alone(q)'
      PROVE  UnderWay(e, q)' \/ Credited(q)'
  <2>1. Clean(e) /\ q \in CallsBy(e, Updating) /\ Alone(q)
    BY <1>1, <1>2, <1>3, <1>5 DEF Clean, CallsBy, Alone
  <2>2. UnderWay(e, q) \/ Credited(q)
    BY <2>1 DEF Honest, Confirmed
  <2>3. CASE e = c
    <3>1. a.code = 200
      BY <1>2, <1>3, <1>5, <2>3 DEF Clean
    <3>2. Credited(q)
      BY <2>1, <2>2, <2>3, <3>1 DEF UnderWay
    <3> QED BY <1>1, <3>2 DEF Credited
  <2>4. CASE e # c
    BY <1>1, <1>2, <2>2, <2>4 DEF UnderWay, Credited
  <2> QED BY <2>3, <2>4
<1>6. Honest'
  BY <1>5 DEF Honest, Confirmed
<1> QED BY <1>4, <1>6

LEMMA ReceiveHonest ==
  ASSUME Honest, Tracked, CallTypes, Numbered, Answered, NEW c \in Clients, Receive(c)
  PROVE  Honest' /\ CallTypes'
<1>1. PICK a \in answers :
        Settle(c, IF ThreadAccepted(Request(c).thread, a.thread)
                  THEN [code |-> a.code, r |-> a.r, wl |-> a.wl] ELSE NoAnswer)
  BY DEF Receive
<1> DEFINE b == IF ThreadAccepted(Request(c).thread, a.thread)
                THEN [code |-> a.code, r |-> a.r, wl |-> a.wl] ELSE NoAnswer
<1>2. pc[c] = "waiting"
  BY DEF Receive
<1>3. b.code = 200 => a.code = 200 /\ ThreadAccepted(Request(c).thread, a.thread)
  BY DEF NoAnswer
<1>4. ASSUME b.code = 200, NEW p \in CallsBy(c, Updating), p.number = socket[c].number, Alone(p)
      PROVE  Credited(p)
  <2>1. p \in sent /\ p.op \in Updating
    BY <1>4 DEF CallsBy
  <2>2. \A q \in sent : q.number = socket[c].number => q = p
    BY <1>4, <2>1 DEF Numbered
  <2>3. Request(c) = p
    BY <1>4, <2>1, <2>2 DEF Request
  <2>4. PICK q \in sent : q.thread = a.thread /\ (q.op \in Updating => Credited(q))
    BY <1>3, <1>4 DEF Answered
  <2>5. q.thread = p.thread
    BY <1>3, <1>4, <2>3, <2>4, ClientsAssumption DEF ThreadAccepted, Answered
  <2>6. q = p
    BY <1>4, <2>1, <2>5 DEF Alone, Numbered
  <2> QED BY <2>1, <2>4, <2>6
<1>5. Settle(c, b)
  BY <1>1
<1> HIDE DEF b
<1> QED BY <1>2, <1>4, <1>5, BackHonest

LEMMA TimedOutHonest ==
  ASSUME Honest, Tracked, CallTypes, Numbered, NEW c \in Clients, TimedOut(c)
  PROVE  Honest' /\ CallTypes'
<1>1. NoAnswer.code # 200
  BY DEF NoAnswer
<1> QED BY <1>1, BackHonest DEF TimedOut

LEMMA HandleHonest ==
  ASSUME Honest, CallTypes, Numbered, NEW p \in sent, Handle(p)
  PROVE  Honest' /\ CallTypes'
<1>1. UNCHANGED <<pc, exitCode, allOk, socket>>
  BY HandleQuiet
<1>2. credited \subseteq credited'
  BY HandleCredits
<1>3. CallTypes'
  BY <1>1, HandleKeeps DEF CallTypes, Same
<1>4. ASSUME NEW e \in Clients, Clean(e)', NEW q \in CallsBy(e, Updating)', Alone(q)'
      PROVE  UnderWay(e, q)' \/ Credited(q)'
  <2>1. PICK o \in sent : Same(o, q)
    BY <1>4, HandleKeeps DEF CallsBy
  <2>2. Alone(o)
    BY <1>4, <2>1, HandleKeeps DEF Alone, Same
  <2>3. Clean(e) /\ o \in CallsBy(e, Updating)
    BY <1>1, <1>4, <2>1 DEF Clean, CallsBy, Same
  <2>4. UnderWay(e, o) \/ Credited(o)
    BY <2>2, <2>3 DEF Honest, Confirmed
  <2> QED BY <1>1, <1>2, <2>1, <2>4 DEF UnderWay, Credited, Same
<1>5. Honest'
  BY <1>4 DEF Honest, Confirmed
<1> QED BY <1>3, <1>5

LEMMA HonestStep ==
  Tracked /\ Numbered /\ Answered /\ CallTypes /\ Honest /\ [CNext]_cvars => CallTypes' /\ Honest'
<1> SUFFICES ASSUME Tracked, Numbered, Answered, CallTypes, Honest, [CNext]_cvars
             PROVE  CallTypes' /\ Honest'
  OBVIOUS
<1>1. CASE \E c \in Clients : Run(c)
  BY <1>1, BetweenCallsHonest, SendHonest, ReceiveHonest, TimedOutHonest DEF Run
<1>2. CASE Server
  BY <1>2, ServerHandles, HandleHonest
<1>3. CASE ClockTick \/ UNCHANGED cvars
  <2>1. UNCHANGED <<pc, exitCode, allOk, socket, sent, credited>>
    BY <1>3 DEF ClockTick, cvars
  <2> QED BY <2>1 DEF CallTypes, Honest, Clean, Confirmed, CallsBy, UnderWay, Alone, Credited
<1> QED BY <1>1, <1>2, <1>3 DEF CNext

\* Any number of runs, servers, ports and deliveries: a run that exits with 0 has
\* had every report and whitelisting counted by the server it went to, as long as
\* no other request drew the same thread id (client.rs:107, read_response).
THEOREM ExitZeroSafe == CSpec => []ExitZeroMeansCounted
<1>1. Tracked /\ Honest => ExitZeroMeansCounted
  BY DEF Honest, Clean, Confirmed, UnderWay, ExitZeroMeansCounted, Succeeded, Credited, Updating
<1> QED BY <1>1, TrackedInit, TrackedStep, NumberedInit, NumberedStep, HonestInit, AnsweredStep,
           HonestStep, PTL DEF CSpec
-----------------------------------------------------------------------------
(* What an exit code of 0 says of a check.                                     *)

Counter == [r : Nat, wl : Nat]

\* Requests go to servers of the list, and a run is within its line.
Placed ==
    /\ counts \in [Hosts -> [Digests -> Counter]]
    /\ \A p \in sent : p.server \in Hosts /\ p.digest \in Digests
    /\ nth \in [Clients -> Nat \ {0}] /\ turn \in [Clients -> Nat \ {0}]
    /\ \A c \in Clients : pc[c] \notin {"command", "done"} => nth[c] <= Len(line[c].commands)

LEMMA PlacedInit == CInit => Placed
<1>1. CInit => /\ counts = [s \in Hosts |-> [d \in Digests |-> [r |-> 0, wl |-> 0]]]
              /\ sent = {} /\ pc = [c \in Clients |-> "command"]
              /\ nth = [c \in Clients |-> 1] /\ turn = [c \in Clients |-> 1]
  BY Zenon DEF CInit
<1> QED BY <1>1 DEF Placed, Counter

\* The k-th of the calls of n inputs to l servers is for one of the inputs and one
\* of the servers.
LEMMA RowOf ==
  ASSUME NEW l \in Nat, NEW n \in Nat, NEW k \in Nat, l > 0, k >= 1, k <= n * l
  PROVE  ((k - 1) \div l) + 1 \in 1..n
OBVIOUS

LEMMA ColumnOf ==
  ASSUME NEW l \in Nat, NEW k \in Nat, l > 0, k >= 1
  PROVE  ((k - 1) % l) + 1 \in 1..l
OBVIOUS

LEMMA Product == ASSUME NEW n \in Nat PROVE n * 0 = 0
OBVIOUS

LEMMA ElementType == ASSUME NEW T, NEW s \in Seq(T), NEW i \in 1..Len(s) PROVE s[i] \in T
OBVIOUS

LEMMA CommandType ==
  ASSUME Numbered, Placed, NEW c \in Clients, nth[c] <= Len(line[c].commands)
  PROVE  Command(c).digests \in Seq(Digests) /\ Input(c) \in Seq(Digests)
<1> DEFINE Known == [op : STRING, digests : Seq(Digests)]
<1>1. line[c].commands \in Seq(Known)
  BY ClientsAssumption DEF Numbered
<1>2. \A x \in Known : x.digests \in Seq(Digests)
  OBVIOUS
<1> HIDE DEF Known
<1>3. nth[c] \in 1..Len(line[c].commands)
  BY <1>1 DEF Placed
<1>4. line[c].commands[nth[c]] \in Known
  BY <1>1, <1>3, ElementType
<1> QED BY <1>2, <1>4, ClientsAssumption DEF Command, Input

LEMMA TargetKnown ==
  ASSUME Numbered, Placed, NEW c \in Clients, Calling(c)
  PROVE  ServerAt(c, turn[c]) \in Hosts /\ DigestAt(c, turn[c]) \in Digests
<1> DEFINE l == Len(Servers[c])
           k == turn[c]
<1>1. /\ Servers[c] \in Seq(Hosts) /\ l \in Nat
      /\ Input(c) \in Seq(Digests) /\ Len(Input(c)) \in Nat
      /\ k \in Nat /\ k >= 1 /\ k <= CallsOf(c)
  <2>1. nth[c] <= Len(line[c].commands) /\ k \in Nat \ {0} /\ k <= CallsOf(c)
    BY DEF Calling, Placed
  <2>2. Input(c) \in Seq(Digests)
    BY <2>1, CommandType
  <2>3. Servers[c] \in Seq(Hosts)
    BY ClientsAssumption
  <2> HIDE DEF k
  <2> QED BY <2>1, <2>2, <2>3
<1>2. CASE Command(c).op = "ping"
  <2>1. l > 0
    BY <1>1, <1>2 DEF CallsOf
  <2>2. ((k - 1) % l) + 1 \in 1..l
    BY <1>1, <2>1, ColumnOf
  <2>3. ServerAt(c, k) \in Hosts
    BY <1>1, <2>2 DEF ServerAt
  <2>4. DigestAt(c, k) \in Digests
    BY <1>2, ClientsAssumption DEF DigestAt
  <2> QED BY <2>3, <2>4
<1>3. CASE Command(c).op \in Calls \ {"ping"}
  <2>1. k <= Len(Input(c)) * l
    BY <1>1, <1>3 DEF CallsOf
  <2>2. l > 0
    <3>1. l = 0 => Len(Input(c)) * l = 0
      BY <1>1, Product
    <3> QED BY <1>1, <2>1, <3>1
  <2>3. ((k - 1) % l) + 1 \in 1..l /\ ((k - 1) \div l) + 1 \in 1..Len(Input(c))
    BY <1>1, <2>1, <2>2, ColumnOf, RowOf
  <2>4. Command(c).op # "ping"
    BY <1>3
  <2> QED BY <1>1, <2>3, <2>4 DEF ServerAt, DigestAt
<1>4. CASE Command(c).op \notin Calls
  BY <1>1, <1>4 DEF CallsOf, Calls
<1> QED BY <1>2, <1>3, <1>4

\* Counters only grow.
Grown ==
    \A s \in Hosts, d \in Digests :
        counts[s][d].r <= counts'[s][d].r /\ counts[s][d].wl <= counts'[s][d].wl

LEMMA HandleGrows ==
  ASSUME Placed, NEW p \in sent, Handle(p)
  PROVE  counts' \in [Hosts -> [Digests -> Counter]] /\ Grown
<1>1. /\ counts \in [Hosts -> [Digests -> Counter]]
      /\ p.server \in Hosts /\ p.digest \in Digests
  BY DEF Placed
<1> DEFINE now == counts[p.server][p.digest]
<1>2. now \in Counter
  BY <1>1
<1>3. \/ counts' = counts
      \/ counts' = [counts EXCEPT ![p.server][p.digest] = Incremented(p.op, now)]
  BY DEF Handle, Verify, Serve
<1>4. \/ counts' = counts
      \/ \E v \in Counter : /\ now.r <= v.r /\ now.wl <= v.wl
                            /\ counts' = [counts EXCEPT ![p.server][p.digest] = v]
  <2>1. /\ Incremented(p.op, now) \in Counter
        /\ now.r <= Incremented(p.op, now).r /\ now.wl <= Incremented(p.op, now).wl
    BY <1>2 DEF Counter, Incremented
  <2> QED BY <1>3, <2>1
<1>5. CASE counts' = counts
  BY <1>1, <1>5 DEF Grown, Counter
<1>6. ASSUME NEW v \in Counter, now.r <= v.r, now.wl <= v.wl,
             counts' = [counts EXCEPT ![p.server][p.digest] = v]
      PROVE  counts' \in [Hosts -> [Digests -> Counter]] /\ Grown
  <2>1. counts' \in [Hosts -> [Digests -> Counter]]
    BY <1>1, <1>6
  <2>2. \A s \in Hosts, d \in Digests :
          \/ counts'[s][d] = counts[s][d]
          \/ counts[s][d] = now /\ counts'[s][d] = v
    BY <1>1, <1>6
  <2>3. \A x \in Counter : x.r <= x.r /\ x.wl <= x.wl
    BY DEF Counter
  <2> QED BY <1>1, <1>6, <2>1, <2>2, <2>3 DEF Grown
<1> QED BY <1>4, <1>5, <1>6

LEMMA PlacedStep ==
  Tracked /\ Numbered /\ Placed /\ [CNext]_cvars => Placed'
<1> SUFFICES ASSUME Tracked, Numbered, Placed, [CNext]_cvars PROVE Placed'
  OBVIOUS
<1>1. ASSUME NEW c \in Clients, Run(c), ~Send(c) PROVE Placed'
  <2>1. UNCHANGED <<sent, line, counts>>
    BY <1>1 DEF Run, Begin, CommandEnds, RunEnds, Truncate, Fill, WriteFails, Mock, Receive,
                TimedOut, Settle, Finish
  <2>2. nth' \in [Clients -> Nat \ {0}] /\ turn' \in [Clients -> Nat \ {0}]
    <3>1. UNCHANGED nth \/ nth' = [nth EXCEPT ![c] = @ + 1]
      BY <1>1 DEF Run, Begin, CommandEnds, RunEnds, Truncate, Fill, WriteFails, Mock, Receive,
                  TimedOut, Settle, Finish
    <3>2. UNCHANGED turn \/ turn' = [turn EXCEPT ![c] = @ + 1] \/ turn' = [turn EXCEPT ![c] = 1]
      BY <1>1 DEF Run, Begin, CommandEnds, RunEnds, Truncate, Fill, WriteFails, Mock, Receive,
                  TimedOut, Settle, Finish
    <3> QED BY <3>1, <3>2, SMTT(40) DEF Placed
  <2>3. \A e \in Clients : pc'[e] \notin {"command", "done"} => nth'[e] <= Len(line[e].commands)
    <3>1. CASE Begin(c)
      BY <3>1 DEF Begin, Placed, Tracked
    <3>2. CASE CommandEnds(c) \/ Fill(c)
      BY <3>2 DEF CommandEnds, Fill, Finish, Placed, Tracked
    <3>3. CASE RunEnds(c) \/ WriteFails(c)
      BY <3>3 DEF RunEnds, WriteFails, Placed, Tracked
    <3>4. CASE Truncate(c) \/ Mock(c)
      BY <3>4 DEF Truncate, Mock, Calling, Placed, Tracked
    <3>5. CASE Receive(c) \/ TimedOut(c)
      BY <3>5 DEF Receive, TimedOut, Settle, Placed, Tracked
    <3> QED BY <1>1, <3>1, <3>2, <3>3, <3>4, <3>5 DEF Run
  <2> QED BY <2>1, <2>2, <2>3 DEF Placed
<1>2. ASSUME NEW c \in Clients, Send(c) PROVE Placed'
  <2>1. Calling(c) /\ UNCHANGED <<nth, turn, line, counts>> /\ pc' = [pc EXCEPT ![c] = "waiting"]
    BY <1>2 DEF Send
  <2>2. PICK p : /\ sent' = sent \cup {p} /\ p.server = ServerAt(c, turn[c])
                 /\ p.digest = DigestAt(c, turn[c])
    BY <1>2, SendAdds
  <2>3. p.server \in Hosts /\ p.digest \in Digests
    BY <2>1, <2>2, TargetKnown
  <2>4. \A e \in Clients : pc'[e] \notin {"command", "done"} => nth'[e] <= Len(line[e].commands)
    BY <2>1 DEF Calling, Placed, Tracked
  <2> QED BY <2>1, <2>2, <2>3, <2>4 DEF Placed
<1>3. ASSUME NEW p \in sent, Handle(p) PROVE Placed'
  <2>1. UNCHANGED <<pc, nth, turn, line>>
    BY <1>3, HandleQuiet
  <2> QED BY <1>3, <2>1, HandleGrows, HandleKeeps, SMTT(40) DEF Placed, Same
<1>4. ASSUME ClockTick \/ UNCHANGED cvars PROVE Placed'
  <2>1. UNCHANGED <<pc, nth, turn, line, sent, counts>>
    BY <1>4 DEF ClockTick, cvars
  <2> QED BY <2>1 DEF Placed
<1> QED BY <1>1, <1>2, <1>3, <1>4, ServerHandles DEF CNext

\* An answer of 200 to a check carries the thread of a request for it, and counters
\* that the server had after the request was sent.
Kept(q, a) == q.op = "check" => q.wlThen <= a.wl /\ a.r <= counts[q.server][q.digest].r
Heard ==
    /\ \A p \in sent : p.wlThen \in Nat /\ p.wlThen <= counts[p.server][p.digest].wl
    /\ \A a \in answers :
         /\ a.r \in Nat /\ a.wl \in Nat
         /\ a.code = 200 => \E q \in sent : q.thread = a.thread /\ Kept(q, a)

\* What a delivery answers.
LEMMA HandleTells ==
  ASSUME Placed, NEW p \in sent, Handle(p)
  PROVE  \A a \in answers' :
           \/ a \in answers
           \/ /\ a.r \in Nat /\ a.wl \in Nat /\ (a.code = 200 => a.thread = p.thread)
              /\ p.op = "check" => /\ a.r = counts[p.server][p.digest].r
                                   /\ a.wl = counts[p.server][p.digest].wl
<1>1. ASSUME NEW s \in served, Serve(p, s), NEW a \in answers', a \notin answers
      PROVE  /\ a.r \in Nat /\ a.wl \in Nat /\ (a.code = 200 => a.thread = p.thread)
             /\ p.op = "check" => /\ a.r = counts[p.server][p.digest].r
                                  /\ a.wl = counts[p.server][p.digest].wl
  <2> DEFINE now == counts[p.server][p.digest]
             r == CASE p.op = "pong" -> Threshold + 1
                    [] p.op \in {"check", "info"} -> now.r
                    [] OTHER -> 0
             wl == IF p.op \in {"check", "info"} THEN now.wl ELSE 0
  <2>1. \E thread \in {p.thread} \cup (IF s.code # 200 THEN ErrorIds ELSE {}) :
          answers' = answers \cup {[port |-> p.port, thread |-> thread, code |-> s.code,
                                    r |-> r, wl |-> wl]}
    BY Zenon, <1>1 DEF Serve
  <2>2. now \in Counter
    BY DEF Placed
  <2>3. r \in Nat /\ wl \in Nat
    <3>1. Threshold + 1 \in Nat /\ now.r \in Nat /\ now.wl \in Nat /\ 0 \in Nat
      BY <2>2, ClientsAssumption DEF Counter
    <3> HIDE DEF now
    <3> QED BY <3>1
  <2>4. p.op = "check" => r = now.r /\ wl = now.wl
    OBVIOUS
  <2> HIDE DEF r, wl
  <2> QED BY <1>1, <2>1, <2>3, <2>4
<1>2. Verify(p) => answers' = answers
  BY DEF Verify
<1> QED BY <1>1, <1>2 DEF Handle

LEMMA HeardStep ==
  Tracked /\ Numbered /\ Placed /\ Heard /\ [CNext]_cvars => Heard'
<1> SUFFICES ASSUME Tracked, Numbered, Placed, Heard, [CNext]_cvars PROVE Heard'
  OBVIOUS
<1>1. ASSUME NEW c \in Clients, Send(c) PROVE Heard'
  <2>1. PICK p : sent' = sent \cup {p} /\ p.wlThen = counts[p.server][p.digest].wl
                 /\ p.server = ServerAt(c, turn[c]) /\ p.digest = DigestAt(c, turn[c])
    BY <1>1, SendAdds
  <2>2. Calling(c) /\ UNCHANGED <<answers, counts>>
    BY <1>1 DEF Send
  <2>3. counts[p.server][p.digest] \in Counter
    BY <2>1, <2>2, TargetKnown DEF Placed
  <2>4. p.wlThen \in Nat /\ p.wlThen <= counts[p.server][p.digest].wl
    BY <2>1, <2>3 DEF Counter
  <2> QED BY <2>1, <2>2, <2>4 DEF Heard, Kept
<1>2. ASSUME NEW p \in sent, Handle(p) PROVE Heard'
  <2>1. Grown /\ counts' \in [Hosts -> [Digests -> Counter]]
    BY <1>2, HandleGrows
  <2>2. \A q \in sent : /\ counts[q.server][q.digest] \in Counter
                        /\ counts'[q.server][q.digest] \in Counter
                        /\ counts[q.server][q.digest].r <= counts'[q.server][q.digest].r
                        /\ counts[q.server][q.digest].wl <= counts'[q.server][q.digest].wl
    BY <2>1 DEF Placed, Grown
  <2>3. \A q \in sent' : q.wlThen \in Nat /\ q.wlThen <= counts'[q.server][q.digest].wl
    <3> SUFFICES ASSUME NEW q \in sent'
                 PROVE  q.wlThen \in Nat /\ q.wlThen <= counts'[q.server][q.digest].wl
      OBVIOUS
    <3>1. PICK o \in sent : Same(o, q)
      BY <1>2, HandleKeeps
    <3>2. o.wlThen \in Nat /\ o.wlThen <= counts'[o.server][o.digest].wl
      BY <2>2 DEF Heard, Counter
    <3> QED BY <3>1, <3>2 DEF Same
  <2>4. ASSUME NEW o \in sent, NEW a, a.r \in Nat, a.wl \in Nat, Kept(o, a)
        PROVE  \E q \in sent' : q.thread = o.thread /\ Kept(q, a)'
    <3>1. PICK q \in sent' : Same(o, q)
      BY <1>2, HandleKeeps
    <3>2. Kept(q, a)'
      BY <2>2, <2>4, <3>1 DEF Kept, Same, Counter
    <3> QED BY <3>1, <3>2 DEF Same
  <2>5. ASSUME NEW a \in answers'
        PROVE  /\ a.r \in Nat /\ a.wl \in Nat
               /\ a.code = 200 => \E q \in sent' : q.thread = a.thread /\ Kept(q, a)'
    <3>1. CASE a \in answers
      BY <2>4, <3>1 DEF Heard
    <3>2. CASE /\ a.r \in Nat /\ a.wl \in Nat /\ (a.code = 200 => a.thread = p.thread)
               /\ p.op = "check" => /\ a.r = counts[p.server][p.digest].r
                                    /\ a.wl = counts[p.server][p.digest].wl
      <4>1. Kept(p, a)
        BY <3>2 DEF Kept, Heard
      <4> QED BY <2>4, <3>2, <4>1
    <3> QED BY <1>2, <3>1, <3>2, HandleTells
  <2> QED BY <2>3, <2>5 DEF Heard, Kept
<1>3. ASSUME UNCHANGED <<sent, answers, counts>> PROVE Heard'
  BY <1>3 DEF Heard, Kept
<1>4. ASSUME NEW c \in Clients, Run(c), ~Send(c) PROVE UNCHANGED <<sent, answers, counts>>
  BY <1>4 DEF Run, Begin, CommandEnds, RunEnds, Truncate, Fill, WriteFails, Mock, Receive,
              TimedOut, Settle, Finish
<1>5. ClockTick \/ UNCHANGED cvars => UNCHANGED <<sent, answers, counts>>
  BY DEF ClockTick, cvars
<1> QED BY <1>1, <1>2, <1>3, <1>4, <1>5, ServerHandles DEF CNext

\* Where a run is, and which request is its own.
Staged ==
    /\ foundHit \in [Clients -> BOOLEAN] /\ whitelisted \in [Clients -> BOOLEAN]
    /\ \A c \in Clients :
         /\ pc[c] \in Editing => Command(c).op \in LocalEdits
         /\ pc[c] = "done" /\ exitCode[c] = 0 => nth[c] > Len(line[c].commands)
         /\ pc[c] = "waiting" => \A p \in sent : p.number = socket[c].number =>
                                   p.by = c /\ p.op = Command(c).op

Asked(c) == CallsBy(c, {"check"})
AllAlone(c) == \A p \in Asked(c) : Alone(p)
InCheck(c) == pc[c] \in {"call", "waiting"} /\ Command(c).op = "check"
Checked(c, n) == \E i \in 1..n : line[c].commands[i].op = "check"
Hit(c) == \E p \in Asked(c) : counts[p.server][p.digest].r > Threshold

\* While all is well with a run, what it has noted of its check, and what the checks
\* behind it left, is what the servers told it.
Told(c) ==
    /\ \A p \in Asked(c) :
         UnderWay(c, p) \/ p.wlThen <= WlThreshold \/ (InCheck(c) /\ whitelisted[c])
    /\ InCheck(c) /\ foundHit[c] => Hit(c)
    /\ Checked(c, nth[c] - 1) => Hit(c)
    /\ Asked(c) # {} => InCheck(c) \/ Checked(c, nth[c] - 1)
Candid == \A c \in Clients : Clean(c) /\ AllAlone(c) => Told(c)

LEMMA CandidInit == CInit => Heard /\ Staged /\ Candid
<1>1. CInit => /\ sent = {} /\ answers = {}
              /\ pc = [c \in Clients |-> "command"] /\ nth = [c \in Clients |-> 1]
              /\ foundHit = [c \in Clients |-> FALSE] /\ whitelisted = [c \in Clients |-> FALSE]
  BY Zenon DEF CInit
<1>2. CInit => \A c \in Clients : nth[c] - 1 = 0 /\ Asked(c) = {}
  BY <1>1 DEF Asked, CallsBy
<1>3. CInit => Heard /\ Staged
  BY <1>1 DEF Heard, Staged, Editing
<1>4. ASSUME CInit, NEW c \in Clients PROVE Told(c)
  <2>1. ~Checked(c, nth[c] - 1)
    BY <1>2, <1>4 DEF Checked
  <2> HIDE DEF Checked
  <2> QED BY <1>1, <1>2, <1>4, <2>1 DEF Told, InCheck
<1> QED BY <1>3, <1>4 DEF Candid

\* A step of another run, which asks nothing in the name of this one.
LEMMA Bystander ==
  ASSUME Candid, NEW e \in Clients, UNCHANGED <<line, counts>>, Asked(e)' = Asked(e),
         AllAlone(e)' => AllAlone(e), Clean(e)', AllAlone(e)',
         pc'[e] = pc[e], nth'[e] = nth[e], exitCode'[e] = exitCode[e], allOk'[e] = allOk[e],
         foundHit'[e] = foundHit[e], whitelisted'[e] = whitelisted[e], socket'[e] = socket[e]
  PROVE  Told(e)'
<1>1. Told(e)
  BY DEF Candid, Clean
<1>2. Hit(e)' = Hit(e) /\ InCheck(e)' = InCheck(e)
  BY DEF Hit, InCheck, Command
<1>3. Checked(e, nth[e] - 1)' = Checked(e, nth[e] - 1)
  BY DEF Checked
<1>4. \A p : UnderWay(e, p)' = UnderWay(e, p)
  BY DEF UnderWay
<1> HIDE DEF Hit, InCheck, Checked
<1> QED BY <1>1, <1>2, <1>3, <1>4 DEF Told

\* The steps of a run that send nothing.
LEMMA SilentStep ==
  ASSUME Candid, NEW c \in Clients, Run(c), ~Send(c), Clean(c)' /\ AllAlone(c)' => Told(c)',
         CallTypes, Staged, Placed, Tracked
  PROVE  Candid'
<1>1. UNCHANGED <<sent, line, counts>>
  BY DEF Run, Begin, CommandEnds, RunEnds, Truncate, Fill, WriteFails, Mock, Receive,
         TimedOut, Settle, Finish
<1>2. ASSUME NEW e \in Clients \ {c}
      PROVE  /\ pc'[e] = pc[e] /\ nth'[e] = nth[e] /\ exitCode'[e] = exitCode[e]
             /\ allOk'[e] = allOk[e] /\ foundHit'[e] = foundHit[e]
             /\ whitelisted'[e] = whitelisted[e] /\ socket'[e] = socket[e]
  <2>1. CASE Begin(c) \/ CommandEnds(c) \/ RunEnds(c)
    BY <2>1 DEF Begin, CommandEnds, RunEnds, Finish, CallTypes, Staged, Placed, Tracked
  <2>2. CASE Truncate(c) \/ Fill(c) \/ WriteFails(c) \/ Mock(c)
    BY <2>2 DEF Truncate, Fill, WriteFails, Mock, Finish, CallTypes, Staged, Placed, Tracked
  <2>3. CASE Receive(c) \/ TimedOut(c)
    <3>1. PICK a : Settle(c, a)
      BY <2>3 DEF Receive, TimedOut
    <3> QED BY <3>1 DEF Settle, CallTypes, Staged, Placed, Tracked
  <2> QED BY <2>1, <2>2, <2>3 DEF Run
<1>3. \A e \in Clients : Asked(e)' = Asked(e) /\ AllAlone(e)' = AllAlone(e)
  BY <1>1 DEF Asked, AllAlone, CallsBy, Alone
<1>4. ASSUME NEW e \in Clients, Clean(e)', AllAlone(e)' PROVE Told(e)'
  <2>1. CASE e = c
    BY <1>4, <2>1
  <2>2. CASE e # c
    BY <1>1, <1>2, <1>3, <1>4, <2>2, Bystander
  <2> QED BY <2>1, <2>2
<1> QED BY <1>4 DEF Candid

\* What a command leaves behind when it ends well, and how the next one begins.
LEMMA BetweenCallsTold ==
  ASSUME Candid, Staged, Placed, Tracked, CallTypes, NEW c \in Clients,
         Begin(c) \/ CommandEnds(c) \/ RunEnds(c) \/ Truncate(c) \/ Fill(c) \/ WriteFails(c) \/ Mock(c),
         Clean(c)', AllAlone(c)'
  PROVE  Told(c)'
<1>1. UNCHANGED <<sent, line, counts>> /\ pc[c] # "waiting"
  BY DEF Begin, CommandEnds, RunEnds, Truncate, Fill, WriteFails, Mock, Finish, Calling
<1>2. AllAlone(c) /\ Asked(c)' = Asked(c) /\ (Hit(c) => Hit(c)')
  BY <1>1 DEF AllAlone, Asked, CallsBy, Alone, Hit
<1>3. \A n : Checked(c, n)' <=> Checked(c, n)
  BY <1>1 DEF Checked
<1>4. /\ nth[c] \in Nat /\ nth[c] - 1 \in Int /\ nth[c] + 1 - 1 = nth[c]
      /\ Checked(c, nth[c]) <=> Checked(c, nth[c] - 1) \/ Command(c).op = "check"
  <2>1. nth[c] \in Nat \ {0}
    BY DEF Placed
  <2>2. 1..nth[c] = (1..(nth[c] - 1)) \cup {nth[c]}
    BY <2>1
  <2> QED BY <2>1, <2>2 DEF Checked, Command
<1>5. CASE Begin(c)
  <2>1. /\ pc[c] = "command" /\ pc'[c] \in {"call", "loaded"} /\ nth'[c] = nth[c]
        /\ foundHit'[c] = FALSE /\ whitelisted'[c] = FALSE /\ exitCode' = exitCode
        /\ pc'[c] = "call" <=> Command(c).op \notin LocalEdits
    BY <1>5 DEF Begin, Placed, Staged, Tracked
  <2>2. Told(c)
    BY <1>2, <2>1 DEF Candid, Clean
  <2>3. Checked(c, nth[c] - 1)' <=> Checked(c, nth[c] - 1)
    BY <1>3, <2>1
  <2>4. ~UnderWay(c, 0) /\ ~InCheck(c) /\ \A p : ~UnderWay(c, p)
    BY <2>1 DEF UnderWay, InCheck
  <2> HIDE DEF Checked, Hit, Asked
  <2> QED BY <1>2, <2>1, <2>2, <2>3, <2>4 DEF Told
<1>6. CASE CommandEnds(c)
  <2>1. /\ pc[c] = "call" /\ pc'[c] = "command" /\ nth'[c] = nth[c] + 1
        /\ exitCode[c] = 0 /\ CommandOk(c)
    <3>1. exitCode' = [exitCode EXCEPT ![c] = IF CommandOk(c) THEN @ ELSE 1] /\ exitCode'[c] = 0
      BY <1>6 DEF CommandEnds, Finish, Clean
    <3>2. exitCode[c] = 0 /\ CommandOk(c)
      BY <3>1 DEF CallTypes
    <3> QED BY <1>6, <3>2 DEF CommandEnds, Finish, Placed, Tracked
  <2>2. Command(c).op = "check" => foundHit[c] /\ ~whitelisted[c]
    BY <2>1 DEF CommandOk, Verdicts
  <2>3. allOk[c]
    BY <2>1 DEF CommandOk
  <2>4. Told(c)
    BY <1>2, <2>1, <2>3 DEF Candid, Clean
  <2>5. Checked(c, nth[c] - 1)' <=> Checked(c, nth[c])
    BY <1>3, <1>4, <2>1
  <2>6. ~InCheck(c)' /\ (InCheck(c) <=> Command(c).op = "check") /\ \A p : ~UnderWay(c, p)
    BY <2>1 DEF UnderWay, InCheck
  <2>7. \A p \in Asked(c) : p.wlThen <= WlThreshold
    BY <2>2, <2>4, <2>6 DEF Told
  <2>8. Checked(c, nth[c]) => Hit(c)
    BY <1>4, <2>2, <2>4, <2>6 DEF Told
  <2>9. Asked(c) # {} => Checked(c, nth[c])
    BY <1>4, <2>4, <2>6 DEF Told
  <2> HIDE DEF Checked, Hit, Asked
  <2> QED BY <1>2, <2>5, <2>6, <2>7, <2>8, <2>9 DEF Told
<1>7. CASE RunEnds(c) \/ Truncate(c)
  <2>1. /\ pc[c] \in {"command", "loaded"} /\ pc'[c] \in {"done", "writing"}
        /\ nth' = nth /\ exitCode' = exitCode
    BY <1>7 DEF RunEnds, Truncate, Tracked
  <2>2. Told(c)
    BY <1>2, <2>1 DEF Candid, Clean
  <2>3. Checked(c, nth[c] - 1)' <=> Checked(c, nth[c] - 1)
    BY <1>3, <2>1
  <2>4. ~InCheck(c) /\ ~InCheck(c)' /\ \A p : ~UnderWay(c, p)
    BY <2>1 DEF UnderWay, InCheck
  <2> HIDE DEF Checked, Hit, Asked
  <2> QED BY <1>2, <2>2, <2>3, <2>4 DEF Told
<1>8. CASE Fill(c)
  <2>1. /\ pc[c] = "writing" /\ pc'[c] = "command" /\ nth'[c] = nth[c] + 1
        /\ exitCode[c] = 0
    BY <1>8 DEF Fill, Finish, Placed, Tracked, CallTypes, Clean
  <2>2. Command(c).op # "check"
    BY <2>1 DEF Staged, Editing, LocalEdits
  <2>3. Told(c)
    BY <1>2, <2>1 DEF Candid, Clean
  <2>4. Checked(c, nth[c] - 1)' <=> Checked(c, nth[c] - 1)
    BY <1>3, <1>4, <2>1, <2>2
  <2>5. ~InCheck(c) /\ ~InCheck(c)' /\ \A p : ~UnderWay(c, p)
    BY <2>1 DEF UnderWay, InCheck
  <2> HIDE DEF Checked, Hit, Asked
  <2> QED BY <1>2, <2>3, <2>4, <2>5 DEF Told
<1>9. CASE WriteFails(c)
  <2>1. exitCode'[c] = 1
    BY <1>9 DEF WriteFails, CallTypes
  <2> QED BY <2>1 DEF Clean
<1>10. CASE Mock(c)
  <2>1. UNCHANGED <<pc, nth, exitCode, allOk, foundHit, whitelisted, socket>>
    BY <1>10 DEF Mock
  <2>2. Told(c) /\ InCheck(c)' = InCheck(c)
    BY <1>1, <1>2, <2>1 DEF Candid, Clean, InCheck, Command
  <2>3. Checked(c, nth[c] - 1)' <=> Checked(c, nth[c] - 1)
    BY <1>3, <2>1
  <2>4. \A p : UnderWay(c, p)' = UnderWay(c, p)
    BY <2>1 DEF UnderWay
  <2> HIDE DEF Checked, Hit, Asked, InCheck
  <2> QED BY <1>2, <2>1, <2>2, <2>3, <2>4 DEF Told
<1> QED BY <1>5, <1>6, <1>7, <1>8, <1>9, <1>10

\* A call comes back; an answer to a check that is not an error tells of the counters
\* since the request was sent.
LEMMA BackTold ==
  ASSUME Candid, Staged, Placed, Tracked, CallTypes, Numbered, Heard,
         NEW c \in Clients, NEW a, Settle(c, a), pc[c] = "waiting",
         a.code = 200 /\ AllAlone(c) /\ Command(c).op = "check" =>
           /\ a.r \in Nat /\ a.wl \in Nat
           /\ \E p \in Asked(c) : p.number = socket[c].number /\ Kept(p, a),
         Clean(c)', AllAlone(c)'
  PROVE  Told(c)'
<1>1. /\ UNCHANGED <<sent, line, counts, socket, exitCode, nth>>
      /\ pc' = [pc EXCEPT ![c] = "call"]
      /\ allOk' = [allOk EXCEPT ![c] = @ /\ a.code = 200]
      /\ whitelisted' = [whitelisted EXCEPT ![c] =
           @ \/ (a.code = 200 /\ Command(c).op \in Verdicts /\ a.wl > WlThreshold)]
      /\ foundHit' = [foundHit EXCEPT ![c] =
           @ \/ (a.code = 200 /\ Command(c).op \in Verdicts /\ a.wl <= WlThreshold /\ a.r > Threshold)]
  BY Zenon DEF Settle
<1>2. pc'[c] = "call" /\ exitCode[c] = 0
  BY <1>1 DEF Tracked, Clean
<1>3. allOk'[c] => allOk[c] /\ a.code = 200
  BY Zenon, <1>1 DEF CallTypes
<1>4. a.code = 200 /\ allOk[c]
  BY <1>2, <1>3 DEF Clean
<1>5. AllAlone(c) /\ Asked(c)' = Asked(c) /\ (Hit(c) => Hit(c)')
  BY <1>1 DEF AllAlone, Asked, CallsBy, Alone, Hit
<1>6. Told(c)
  BY <1>2, <1>4, <1>5 DEF Candid, Clean
<1>7. Checked(c, nth[c] - 1)' <=> Checked(c, nth[c] - 1)
  BY <1>1 DEF Checked
<1>8. \A p : ~UnderWay(c, p)'
  BY <1>2 DEF UnderWay
<1>9. InCheck(c)' <=> InCheck(c)
  BY <1>1, <1>2 DEF InCheck, Command
<1>10. \A p \in Asked(c) : p \in sent /\ p.op = "check"
  BY DEF Asked, CallsBy
<1>11. CASE Command(c).op = "check"
  <2>1. PICK q \in Asked(c) : q.number = socket[c].number /\ Kept(q, a)
    BY <1>4, <1>5, <1>11
  <2>2. q.wlThen <= a.wl /\ a.r <= counts[q.server][q.digest].r /\ a.r \in Nat /\ a.wl \in Nat
    BY <1>4, <1>5, <1>10, <1>11, <2>1 DEF Kept
  <2>3. q.wlThen \in Nat /\ counts[q.server][q.digest].r \in Nat
    BY <1>10 DEF Heard, Placed, Counter
  <2>4. InCheck(c) /\ Command(c).op \in Verdicts
    BY <1>11 DEF InCheck, Verdicts
  <2>5. /\ whitelisted'[c] <=> whitelisted[c] \/ a.wl > WlThreshold
        /\ foundHit'[c] <=> foundHit[c] \/ (a.wl <= WlThreshold /\ a.r > Threshold)
    BY Zenon, <1>1, <1>4, <2>4 DEF Staged
  <2>6. \A p \in Asked(c) : UnderWay(c, p) => p = q
    BY <1>10, <2>1 DEF UnderWay, Numbered
  <2>7. q.wlThen <= WlThreshold \/ a.wl > WlThreshold
    BY <2>2, <2>3, ClientsAssumption
  <2>8. \A p \in Asked(c) : p.wlThen <= WlThreshold \/ whitelisted'[c]
    BY <1>6, <2>5, <2>6, <2>7 DEF Told
  <2>9. a.r > Threshold => Hit(c)
    <3>1. a.r > Threshold => counts[q.server][q.digest].r > Threshold
      BY <2>2, <2>3, ClientsAssumption
    <3> QED BY <2>1, <3>1 DEF Hit
  <2>10. foundHit'[c] => Hit(c)
    BY <1>6, <2>4, <2>5, <2>9 DEF Told
  <2> HIDE DEF Checked, Hit, Asked, InCheck
  <2> QED BY <1>5, <1>6, <1>7, <1>9, <2>4, <2>8, <2>10 DEF Told
<1>12. CASE Command(c).op # "check"
  <2>1. ~InCheck(c)
    BY <1>12 DEF InCheck
  <2>2. \A p \in Asked(c) : ~UnderWay(c, p)
    BY <1>10, <1>12 DEF UnderWay, Staged
  <2> HIDE DEF Checked, Hit, Asked, InCheck
  <2> QED BY <1>5, <1>6, <1>7, <1>9, <2>1, <2>2 DEF Told
<1> QED BY <1>11, <1>12

LEMMA ReceiveTold ==
  ASSUME Candid, Staged, Placed, Tracked, CallTypes, Numbered, Heard, Answered,
         NEW c \in Clients, Receive(c), Clean(c)', AllAlone(c)'
  PROVE  Told(c)'
<1>1. PICK a \in answers :
        Settle(c, IF ThreadAccepted(Request(c).thread, a.thread)
                  THEN [code |-> a.code, r |-> a.r, wl |-> a.wl] ELSE NoAnswer)
  BY DEF Receive
<1> DEFINE b == IF ThreadAccepted(Request(c).thread, a.thread)
                THEN [code |-> a.code, r |-> a.r, wl |-> a.wl] ELSE NoAnswer
<1>2. pc[c] = "waiting"
  BY DEF Receive
<1>3. b.code = 200 => /\ a.code = 200 /\ ThreadAccepted(Request(c).thread, a.thread)
                      /\ b.r = a.r /\ b.wl = a.wl
  BY DEF NoAnswer
<1>4. ASSUME b.code = 200, AllAlone(c), Command(c).op = "check"
      PROVE  /\ b.r \in Nat /\ b.wl \in Nat
             /\ \E p \in Asked(c) : p.number = socket[c].number /\ Kept(p, b)
  <2>1. PICK p \in sent : p.number = socket[c].number
    BY <1>2 DEF CallTypes
  <2>2. p \in Asked(c) /\ Alone(p)
    BY <1>2, <1>4, <2>1 DEF Staged, Asked, CallsBy, AllAlone
  <2>3. \A q \in sent : q.number = socket[c].number => q = p
    BY <2>1 DEF Numbered
  <2>4. Request(c) = p
    BY <2>1, <2>3 DEF Request
  <2>5. a.r \in Nat /\ a.wl \in Nat /\ \E q \in sent : q.thread = a.thread /\ Kept(q, a)
    BY <1>3, <1>4 DEF Heard
  <2>6. PICK q \in sent : q.thread = a.thread /\ Kept(q, a)
    BY <2>5
  <2>7. q.thread = p.thread
    BY <1>3, <1>4, <2>1, <2>4, <2>6, ClientsAssumption DEF ThreadAccepted, Answered
  <2>8. q = p
    BY <2>1, <2>2, <2>7 DEF Alone, Numbered
  <2>9. Kept(p, b)
    BY <1>3, <1>4, <2>6, <2>8 DEF Kept
  <2> QED BY <1>3, <1>4, <2>1, <2>2, <2>5, <2>9
<1>5. Settle(c, b)
  BY <1>1
<1> HIDE DEF b
<1> QED BY <1>2, <1>4, <1>5, BackTold

LEMMA TimedOutTold ==
  ASSUME Candid, Staged, Placed, Tracked, CallTypes, Numbered, Heard,
         NEW c \in Clients, TimedOut(c), Clean(c)', AllAlone(c)'
  PROVE  Told(c)'
<1>1. NoAnswer.code # 200
  BY DEF NoAnswer
<1> QED BY <1>1, BackTold DEF TimedOut

\* A request that is on its way says nothing yet.
LEMMA SendCandid ==
  ASSUME Candid, Staged, Placed, Tracked, CallTypes, Numbered, NEW c \in Clients, Send(c)
  PROVE  Candid'
<1>1. PICK p : /\ sent' = sent \cup {p} /\ p.by = c /\ p.op = Command(c).op
               /\ socket' = [socket EXCEPT ![c] = [port |-> p.port, number |-> p.number]]
  BY SendAdds
<1>2. /\ pc[c] = "call" /\ pc' = [pc EXCEPT ![c] = "waiting"]
      /\ UNCHANGED <<line, nth, exitCode, allOk, foundHit, whitelisted, counts>>
  BY DEF Send, Calling
<1>3. /\ socket'[c].number = p.number /\ pc'[c] = "waiting"
      /\ \A e \in Clients \ {c} : pc'[e] = pc[e] /\ socket'[e] = socket[e]
  BY <1>1, <1>2 DEF CallTypes, Tracked
<1>4. ASSUME NEW e \in Clients
      PROVE  /\ Asked(e) \subseteq Asked(e)'
             /\ \A q \in Asked(e)' \ Asked(e) : q = p /\ e = c /\ p.op = "check"
             /\ AllAlone(e)' => AllAlone(e)
  BY <1>1 DEF Asked, AllAlone, CallsBy, Alone
<1>5. ASSUME NEW e \in Clients \ {c}, Clean(e)', AllAlone(e)' PROVE Told(e)'
  <2>1. Asked(e)' = Asked(e)
    BY <1>4
  <2> QED BY <1>2, <1>3, <1>4, <1>5, <2>1, Bystander
<1>6. ASSUME Clean(c)', AllAlone(c)' PROVE Told(c)'
  <2>1. Told(c)
    BY <1>2, <1>3, <1>4, <1>6 DEF Candid, Clean
  <2>2. InCheck(c)' <=> InCheck(c)
    BY <1>2, <1>3 DEF InCheck, Command
  <2>3. Checked(c, nth[c] - 1)' <=> Checked(c, nth[c] - 1)
    BY <1>2 DEF Checked
  <2>4. UnderWay(c, p)' /\ \A q : ~UnderWay(c, q)
    BY <1>2, <1>3 DEF UnderWay
  <2>5. Hit(c) => Hit(c)'
    BY <1>2, <1>4 DEF Hit
  <2>6. Asked(c)' # {} => Asked(c) # {} \/ InCheck(c)
    BY <1>1, <1>2, <1>4 DEF InCheck
  <2> HIDE DEF Checked, Hit, Asked, InCheck
  <2> QED BY <1>2, <1>4, <2>1, <2>2, <2>3, <2>4, <2>5, <2>6 DEF Told
<1> QED BY <1>5, <1>6 DEF Candid

LEMMA HandleCandid ==
  ASSUME Candid, Placed, Numbered, NEW p \in sent, Handle(p)
  PROVE  Candid'
<1>1. UNCHANGED <<pc, line, nth, exitCode, allOk, foundHit, whitelisted, socket>>
  BY HandleQuiet
<1> SUFFICES ASSUME NEW e \in Clients, Clean(e)', AllAlone(e)' PROVE Told(e)'
  BY DEF Candid
<1>2. \A q \in Asked(e)' : \E o \in Asked(e) : Same(o, q)
  BY HandleKeeps DEF Asked, CallsBy, Same
<1>3. \A o \in Asked(e) : \E q \in Asked(e)' : Same(o, q)
  BY HandleKeeps DEF Asked, CallsBy, Same
<1>4. AllAlone(e)
  <2> SUFFICES ASSUME NEW o \in Asked(e) PROVE Alone(o)
    BY DEF AllAlone
  <2>1. PICK q \in Asked(e)' : Same(o, q)
    BY <1>3
  <2>2. Alone(q)'
    BY DEF AllAlone
  <2> QED BY <2>1, <2>2, HandleKeeps DEF Alone, Same
<1>5. Told(e)
  BY <1>1, <1>4 DEF Candid, Clean
<1>6. InCheck(e)' = InCheck(e) /\ (Checked(e, nth[e] - 1)' <=> Checked(e, nth[e] - 1))
  BY <1>1 DEF InCheck, Checked, Command
<1>7. \A q : UnderWay(e, q)' <=> UnderWay(e, q)
  BY <1>1 DEF UnderWay
<1>8. Hit(e) => Hit(e)'
  <2> SUFFICES ASSUME NEW o \in Asked(e), counts[o.server][o.digest].r > Threshold PROVE Hit(e)'
    BY DEF Hit
  <2>1. PICK q \in Asked(e)' : Same(o, q)
    BY <1>3
  <2>2. o.server \in Hosts /\ o.digest \in Digests
    BY DEF Asked, CallsBy, Placed
  <2>3. counts[o.server][o.digest].r <= counts'[o.server][o.digest].r
    BY <2>2, HandleGrows DEF Grown
  <2>4. counts[o.server][o.digest].r \in Nat /\ counts'[o.server][o.digest].r \in Nat
    BY <2>2, HandleGrows DEF Placed, Counter
  <2>5. counts'[o.server][o.digest].r > Threshold
    BY <2>3, <2>4, ClientsAssumption
  <2> QED BY <2>1, <2>5 DEF Hit, Same
<1>9. \A q \in Asked(e)' : UnderWay(e, q) \/ q.wlThen <= WlThreshold \/ (InCheck(e) /\ whitelisted[e])
  BY <1>2, <1>5 DEF Told, UnderWay, Same
<1>10. Asked(e)' # {} => Asked(e) # {}
  BY <1>2
<1> HIDE DEF Checked, Hit, Asked, InCheck
<1> QED BY <1>1, <1>5, <1>6, <1>7, <1>8, <1>9, <1>10 DEF Told

LEMMA StagedStep ==
  Tracked /\ Numbered /\ Placed /\ CallTypes /\ Staged /\ [CNext]_cvars => Staged'
<1> SUFFICES ASSUME Tracked, Numbered, Placed, CallTypes, Staged, [CNext]_cvars PROVE Staged'
  OBVIOUS
<1> DEFINE Stage(e) ==
      /\ pc[e] \in Editing => Command(e).op \in LocalEdits
      /\ pc[e] = "done" /\ exitCode[e] = 0 => nth[e] > Len(line[e].commands)
      /\ pc[e] = "waiting" => \A p \in sent : p.number = socket[e].number =>
                                p.by = e /\ p.op = Command(e).op
<1>1. ASSUME NEW c \in Clients, Run(c), ~Send(c) PROVE Staged'
  <2>1. UNCHANGED <<sent, line, socket>>
    BY <1>1 DEF Run, Begin, CommandEnds, RunEnds, Truncate, Fill, WriteFails, Mock, Receive,
                TimedOut, Settle, Finish
  <2>2. foundHit' \in [Clients -> BOOLEAN] /\ whitelisted' \in [Clients -> BOOLEAN]
    <3>1. CASE Receive(c) \/ TimedOut(c)
      <4>1. PICK a : Settle(c, a)
        BY <3>1 DEF Receive, TimedOut
      <4>2. \E x \in BOOLEAN, y \in BOOLEAN : /\ whitelisted' = [whitelisted EXCEPT ![c] = @ \/ x]
                                              /\ foundHit' = [foundHit EXCEPT ![c] = @ \/ y]
        BY Zenon, <4>1 DEF Settle
      <4>3. \A x, y \in BOOLEAN : x \/ y \in BOOLEAN
        OBVIOUS
      <4> QED BY Zenon, <4>2, <4>3 DEF Staged
    <3>2. CASE Begin(c)
      BY <3>2 DEF Begin, Staged
    <3>3. CASE CommandEnds(c) \/ RunEnds(c) \/ Truncate(c) \/ Fill(c) \/ WriteFails(c) \/ Mock(c)
      BY <3>3 DEF CommandEnds, RunEnds, Truncate, Fill, WriteFails, Mock, Staged
    <3> QED BY <1>1, <3>1, <3>2, <3>3 DEF Run
  <2>3. /\ pc'[c] # "waiting" \/ UNCHANGED <<pc, nth>>
        /\ pc'[c] \in Editing => Command(c)'.op \in LocalEdits
        /\ pc'[c] = "done" /\ exitCode'[c] = 0 => nth'[c] > Len(line[c].commands)
        /\ \A e \in Clients \ {c} : pc'[e] = pc[e] /\ nth'[e] = nth[e] /\ exitCode'[e] = exitCode[e]
    <3>1. CASE Begin(c)
      BY <2>1, <3>1 DEF Begin, Command, Editing, Tracked
    <3>2. CASE CommandEnds(c) \/ Fill(c)
      BY <3>2 DEF CommandEnds, Fill, Finish, Editing, Tracked, CallTypes, Placed
    <3>3. CASE RunEnds(c)
      BY <3>3 DEF RunEnds, Editing, Tracked
    <3>4. CASE WriteFails(c)
      BY <3>4 DEF WriteFails, Editing, Tracked, CallTypes
    <3>5. CASE Truncate(c)
      BY <2>1, <3>5 DEF Truncate, Command, Editing, Tracked, Staged
    <3>6. CASE Mock(c)
      BY <2>1, <3>6 DEF Mock, Command, Calling, Editing, Tracked
    <3>7. CASE Receive(c) \/ TimedOut(c)
      <4>1. UNCHANGED <<nth, exitCode>> /\ pc' = [pc EXCEPT ![c] = "call"]
        BY <3>7 DEF Receive, TimedOut, Settle
      <4> QED BY <4>1 DEF Editing, Tracked
    <3> QED BY <1>1, <3>1, <3>2, <3>3, <3>4, <3>5, <3>6, <3>7 DEF Run
  <2>4. \A e \in Clients : Stage(e)
    BY DEF Staged
  <2>5. Stage(c)'
    BY <2>1, <2>3, <2>4 DEF Command
  <2>6. \A e \in Clients \ {c} : Stage(e)'
    BY <2>1, <2>3, <2>4 DEF Command
  <2> QED BY <2>2, <2>5, <2>6 DEF Staged
<1>2. ASSUME NEW c \in Clients, Send(c) PROVE Staged'
  <2>1. PICK p : /\ sent' = sent \cup {p} /\ p.by = c /\ p.op = Command(c).op
                 /\ p.number = Cardinality(sent) + 1
                 /\ socket' = [socket EXCEPT ![c] = [port |-> p.port, number |-> p.number]]
    BY <1>2, SendAdds
  <2>2. /\ pc[c] = "call" /\ pc' = [pc EXCEPT ![c] = "waiting"]
        /\ UNCHANGED <<line, nth, exitCode, foundHit, whitelisted>>
    BY <1>2 DEF Send, Calling
  <2>3. /\ socket'[c].number = p.number /\ pc'[c] = "waiting"
        /\ \A e \in Clients \ {c} : pc'[e] = pc[e] /\ socket'[e] = socket[e]
    BY <2>1, <2>2 DEF CallTypes, Tracked
  <2>4. \A q \in sent : q.number # p.number
    BY <2>1, FS_CardinalityType DEF Numbered
  <2>5. \A e \in Clients \ {c} : pc[e] = "waiting" => socket[e].number # p.number
    BY <2>4 DEF CallTypes
  <2>6. Stage(c)'
    BY <2>1, <2>2, <2>3, <2>4 DEF Command, Editing
  <2>7. \A e \in Clients \ {c} : Stage(e)'
    BY <2>1, <2>2, <2>3, <2>5 DEF Staged, Command
  <2> QED BY <2>2, <2>6, <2>7 DEF Staged
<1>3. ASSUME NEW p \in sent, Handle(p) PROVE Staged'
  <2>1. UNCHANGED <<pc, line, nth, exitCode, foundHit, whitelisted, socket>>
    BY <1>3, HandleQuiet
  <2> QED BY <1>3, <2>1, HandleKeeps DEF Staged, Same, Command
<1>4. ASSUME ClockTick \/ UNCHANGED cvars PROVE Staged'
  <2>1. UNCHANGED <<pc, line, nth, exitCode, foundHit, whitelisted, socket, sent>>
    BY <1>4 DEF ClockTick, cvars
  <2> QED BY <2>1 DEF Staged, Command
<1> QED BY <1>1, <1>2, <1>3, <1>4, ServerHandles DEF CNext

LEMMA CandidStep ==
  /\ Tracked /\ Numbered /\ Placed /\ CallTypes /\ Answered /\ Heard /\ Staged /\ Candid
  /\ [CNext]_cvars
  => Candid'
<1> SUFFICES ASSUME Tracked, Numbered, Placed, CallTypes, Answered, Heard, Staged, Candid,
                    [CNext]_cvars
             PROVE  Candid'
  OBVIOUS
<1>1. ASSUME NEW c \in Clients, Run(c), ~Send(c) PROVE Candid'
  <2>1. Clean(c)' /\ AllAlone(c)' => Told(c)'
    BY <1>1, BetweenCallsTold, ReceiveTold, TimedOutTold DEF Run
  <2> QED BY <1>1, <2>1, SilentStep
<1>2. ASSUME ClockTick \/ UNCHANGED cvars PROVE Candid'
  <2>1. UNCHANGED <<line, runVars, sent, counts>>
    BY <1>2 DEF ClockTick, cvars
  <2>2. \A e \in Clients : /\ Clean(e)' <=> Clean(e)
                           /\ AllAlone(e)' <=> AllAlone(e)
    BY <2>1 DEF Clean, AllAlone, Asked, CallsBy, Alone
  <2>3. \A e \in Clients : Told(e) => Told(e)'
    BY <2>1 DEF Told, Hit, Checked, InCheck, UnderWay, Command, Asked, CallsBy
  <2> QED BY <2>2, <2>3 DEF Candid
<1> QED BY <1>1, <1>2, SendCandid, HandleCandid, ServerHandles DEF CNext

LEMMA SpamTold ==
  Tracked /\ Numbered /\ Placed /\ Staged /\ Candid => ExitZeroMeansSpam
<1> SUFFICES ASSUME Numbered, Placed, Staged, Candid, NEW c \in Clients, Succeeded(c),
                    \A p \in CallsBy(c, {"check"}) : Alone(p)
             PROVE  LET asked == CallsBy(c, {"check"})
                    IN /\ \A p \in asked : p.wlThen <= WlThreshold
                       /\ asked # {} => \E p \in asked : counts[p.server][p.digest].r > Threshold
                       /\ \A i \in DOMAIN line[c].commands :
                            line[c].commands[i].op = "check" => asked # {}
  BY DEF ExitZeroMeansSpam
<1>1. Told(c) /\ pc[c] = "done" /\ nth[c] > Len(line[c].commands)
  BY DEF Candid, Clean, AllAlone, Asked, Succeeded, Staged
<1>2. ~InCheck(c) /\ \A p : ~UnderWay(c, p)
  BY <1>1 DEF InCheck, UnderWay
<1>3. Asked(c) # {} => Hit(c)
  BY <1>1, <1>2 DEF Told
<1>4. ASSUME NEW i \in DOMAIN line[c].commands, line[c].commands[i].op = "check"
      PROVE  Asked(c) # {}
  <2>1. line[c].commands \in Seq([op : STRING, digests : Seq(Digests)])
    BY ClientsAssumption DEF Numbered
  <2>2. i \in 1..Len(line[c].commands) /\ Len(line[c].commands) \in Nat /\ nth[c] \in Nat
    BY <2>1, <1>4 DEF Placed
  <2>3. i \in 1..(nth[c] - 1)
    BY <1>1, <2>2
  <2>4. Checked(c, nth[c] - 1)
    BY <1>4, <2>3 DEF Checked
  <2> QED BY <1>1, <2>4 DEF Told, Hit
<1> QED BY <1>1, <1>2, <1>3, <1>4 DEF Told, Hit, Asked

\* Whatever the network does to requests and answers, and however many runs there
\* are: an exit code of 0 after a report or a whitelisting says that the servers
\* counted it, and after a check that they hold the mail for spam (bin/ruzor.rs:610,
\* command_check_like; client.rs:107, read_response).
THEOREM VerdictSafe == CSpec => []ExitZeroTells
<1>1. ExitZeroMeansCounted /\ ExitZeroMeansSpam => ExitZeroTells
  BY DEF ExitZeroTells
<1> QED BY <1>1, ExitZeroSafe, SpamTold, TrackedInit, TrackedStep, NumberedInit, NumberedStep,
           PlacedInit, PlacedStep, HonestInit, AnsweredStep, HonestStep, CandidInit, HeardStep,
           StagedStep, CandidStep, PTL DEF CSpec
=============================================================================
