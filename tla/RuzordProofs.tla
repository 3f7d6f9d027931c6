----------------------------- MODULE RuzordProofs -----------------------------
(* The server, for every value of the constants: its type correctness, the     *)
(* safety properties of ServerProperties, and that it implements the ledger of *)
(* atomic increments, keeps what it has acknowledged and queues for forwarding *)
(* only what it has counted.  Then the ruzord process: such a server runs      *)
(* inside it, and what it answers before the forwarder is stopped reaches      *)
(* every remote server.                                                        *)
EXTENDS Ruzord, ServerLedger, SequenceFacts

USE DEF Codes, Updates

LEMMA BlankType == Blank \in Record /\ NoReply \in Reply
  BY RecordsAssumption, SMT DEF Blank, Record, Counts, Times, NoReply, Reply

LEMMA IncrementedType ==
  ASSUME NEW op, NEW rec \in Record, NEW now \in Nat
  PROVE  Incremented(op, rec, now) \in Record
<1>1. /\ Bump(rec.r_count) \in Counts /\ Bump(rec.wl_count) \in Counts
      /\ FirstTime(rec.r_entered, now) \in Times
      /\ FirstTime(rec.wl_entered, now) \in Times
      /\ now \in Times
  BY RecordsAssumption DEF Bump, FirstTime, Record, Counts, Times
<1>2. RIncrement(rec, now) \in Record
  BY <1>1 DEF RIncrement, Record
<1>3. WlIncrement(rec, now) \in Record
  BY <1>1 DEF WlIncrement, Record
<1> QED BY <1>2, <1>3 DEF Incremented

LEMMA ProxyRecordType ==
  ASSUME NEW c \in Record, NEW now \in Nat
  PROVE  ProxyRecord(c, now) \in Record
  BY SMT DEF ProxyRecord, ProxyTime, Record, Counts, Times

LEMMA ShownType ==
  ASSUME NEW op, NEW rec \in Record
  PROVE  Shown(op, rec) \in Record
  BY BlankType DEF Shown, Record
-----------------------------------------------------------------------------
(* The type invariant with the bounds of the indexes is inductive.             *)

IInv == TypeOK /\ Indexed

LEMMA InitInv == Init => IInv
<1> SUFFICES ASSUME Init PROVE IInv
  OBVIOUS
<1> USE ServerAssumption DEF Init
<1>1. SomeFiles \in AuthState
  BY DEF SomeFiles, AuthState, Edits
<1>2. msg \in [Reqs -> Packet]
  <2>1. << >> \in Seq(Digests)
    OBVIOUS
  <2> QED BY <2>1 DEF Packet, Ops, Names, Versions
<1>3. fqueue \in Seq(ForwardEntry)
  OBVIOUS
<1>4. TypeOK
  BY <1>1, <1>2, <1>3, BlankType
  DEF TypeOK, PCs, Idle, MPCs
<1>5. Indexed
  BY DEF Indexed
<1> QED BY <1>4, <1>5 DEF IInv

\* The steps of the main thread.
LEMMA MainInv == IInv /\ (Main \/ Exit) => IInv'
<1> SUFFICES ASSUME IInv, Main \/ Exit PROVE IInv'
  OBVIOUS
<1> USE DEF IInv
<1> USE DEF reqVars, dbVars, authVars, fwdVars, ctlVars
<1>1. CASE LoopTop
  BY <1>1 DEF LoopTop, TypeOK, Indexed, MPCs
<1>2. CASE LoadPasswd
  BY <1>2 DEF LoadPasswd, TypeOK, Indexed, MPCs, AuthState
<1>3. CASE LoadAccess
  BY <1>3 DEF LoadAccess, TypeOK, Indexed, MPCs, AuthState
<1>4. CASE SwapAuth
  BY <1>4 DEF SwapAuth, Install, KeepFlag, TypeOK, Indexed, MPCs
<1>5. CASE RecvTimeout
  BY <1>5 DEF RecvTimeout, TypeOK, Indexed, MPCs
<1>6. CASE SocketFails
  BY <1>6 DEF SocketFails, TypeOK, Indexed, MPCs
<1>7. ASSUME NEW r \in Reqs, Receive(r) PROVE IInv'
  <2>1. msg' \in [Reqs -> Packet]
    BY <1>7, ServerAssumption DEF Receive, TypeOK
  <2>2. pc' \in [Reqs -> PCs] /\ mpc' \in MPCs
    BY <1>7 DEF Receive, AfterReceive, TypeOK, PCs, Queued, MPCs
  <2>3. TypeOK'
    BY <1>7, <2>1, <2>2 DEF Receive, TypeOK
  <2>4. Indexed'
    BY <1>7 DEF Receive, TypeOK, Indexed
  <2> QED BY <2>3, <2>4
<1>8. ASSUME NEW r \in Reqs, Acquire(r) PROVE IInv'
  <2>1. pc' \in [Reqs -> PCs] /\ mpc' \in MPCs /\ active' \in Nat
    BY <1>8 DEF Acquire, TypeOK, PCs, Queued, MPCs
  <2>2. TypeOK'
    BY <1>8, <2>1 DEF Acquire, TypeOK
  <2>3. Indexed'
    BY <1>8 DEF Acquire, TypeOK, Indexed
  <2> QED BY <2>2, <2>3
<1>9. CASE Exit
  BY <1>9 DEF Exit, TypeOK, Indexed, MPCs
<1> QED BY <1>1, <1>2, <1>3, <1>4, <1>5, <1>6, <1>7, <1>8, <1>9 DEF Main

\* The environment.
LEMMA EnvironmentInv == IInv /\ (Control \/ ForwarderStep) => IInv'
<1> SUFFICES ASSUME IInv, Control \/ ForwarderStep PROVE IInv'
  OBVIOUS
<1> USE DEF IInv
<1> USE DEF reqVars, dbVars, authVars, fwdVars, ctlVars
<1>1. CASE SetShutdown
  BY <1>1 DEF SetShutdown, TypeOK, Indexed
<1>2. CASE SetReload
  BY <1>2 DEF SetReload, TypeOK, Indexed
<1>3. CASE EditPasswd
  <2>1. files.passwd + 1 \in Edits
    <3>1. files.passwd \in 0..MaxEdits /\ files.passwd < MaxEdits
      BY <1>3 DEF EditPasswd, TypeOK, AuthState, Edits
    <3>2. MaxEdits \in Nat
      BY ServerAssumption
    <3> QED BY <3>1, <3>2 DEF Edits
  <2>2. files' \in AuthState
    BY <1>3, <2>1 DEF EditPasswd, TypeOK, AuthState
  <2> QED BY <1>3, <2>2 DEF EditPasswd, TypeOK, Indexed
<1>4. CASE EditAccess
  <2>1. files.access + 1 \in Edits
    <3>1. files.access \in 0..MaxEdits /\ files.access < MaxEdits
      BY <1>4 DEF EditAccess, TypeOK, AuthState, Edits
    <3>2. MaxEdits \in Nat
      BY ServerAssumption
    <3> QED BY <3>1, <3>2 DEF Edits
  <2>2. files' \in AuthState
    BY <1>4, <2>1 DEF EditAccess, TypeOK, AuthState
  <2> QED BY <1>4, <2>2 DEF EditAccess, TypeOK, Indexed
<1>5. CASE ForwarderTakes
  <2>1. fqueue' \in Seq(ForwardEntry)
    BY <1>5, HeadTailProperties DEF ForwarderTakes, TypeOK
  <2> QED BY <1>5, <2>1 DEF ForwarderTakes, TypeOK, Indexed
<1>6. CASE ForwarderEnds
  <2>1. fqueue' \in Seq(ForwardEntry)
    BY <1>6 DEF ForwarderEnds
  <2> QED BY <1>6, <2>1 DEF ForwarderEnds, TypeOK, Indexed
<1> QED BY <1>1, <1>2, <1>3, <1>4, <1>5, <1>6 DEF Control, ForwarderStep
\* A worker at one of its steps has its length and its current digest.
LEMMA Lengths ==
  ASSUME IInv, NEW r \in Reqs
  PROVE  /\ Len(msg[r].digests) \in Nat
         /\ \A n \in 1..Len(msg[r].digests) : msg[r].digests[n] \in Digests
         /\ pc[r] \in Locked => Current(r) \in Digests
         /\ pc[r] \in Locked => store[Current(r)] \in Record
<1> USE DEF IInv
<1>1. msg[r].digests \in Seq(Digests)
  BY DEF TypeOK, Packet
<1>2. /\ Len(msg[r].digests) \in Nat
      /\ \A n \in 1..Len(msg[r].digests) : msg[r].digests[n] \in Digests
  BY <1>1, ElementOfSeq, LenProperties
<1>3. pc[r] \in Locked => done[r] + 1 \in 1..Len(msg[r].digests)
  BY <1>2 DEF TypeOK, Indexed, Locked
<1> QED BY <1>2, <1>3 DEF Current, TypeOK

\* What the two ways of leaving a step do to the request's own state.
LEMMA GoToType ==
  ASSUME TypeOK, NEW r \in Reqs, NEW l \in PCs, GoTo(r, l)
  PROVE  /\ pc' \in [Reqs -> PCs]
         /\ pc'[r] = l
         /\ \A s \in Reqs \ {r} : pc'[s] = pc[s]
  BY DEF GoTo, TypeOK

LEMMA SettleType ==
  ASSUME TypeOK, NEW r \in Reqs, NEW code \in Codes, NEW rec \in Record, Settle(r, code, rec)
  PROVE  /\ pc' \in [Reqs -> PCs]
         /\ reply' \in [Reqs -> Reply]
         /\ pc'[r] = "reply"
         /\ \A s \in Reqs \ {r} : pc'[s] = pc[s]
<1>1. "reply" \in PCs
  BY DEF PCs, Serving
<1>2. [code |-> code, rec |-> rec] \in Reply
  BY DEF Reply
<1> QED BY <1>1, <1>2, GoToType DEF Settle, TypeOK

\* What a write does to the database and to the index of the digest.
LEMMA PutType ==
  ASSUME TypeOK, NEW r \in Reqs, NEW rec \in Record, Put(r, rec)
  PROVE  store' \in [Digests -> Record]
  BY DEF Put, TypeOK

LEMMA WrittenType ==
  ASSUME TypeOK, NEW r \in Reqs, Written(r)
  PROVE  /\ done' \in [Reqs -> Nat]
         /\ done'[r] = done[r] + 1
         /\ \A s \in Reqs \ {r} : done'[s] = done[s]
<1>1. done \in [Reqs -> Nat] /\ done' = [done EXCEPT ![r] = done[r] + 1]
  BY DEF Written, TypeOK
<1>2. done[r] + 1 \in Nat
  BY <1>1
<1> QED BY <1>1, <1>2

LEMMA Places ==
  {"authenticate", "authorize", "lock", "read", "write", "proxy", "cachelock",
   "cachewrite", "forward", "reply", "done"} \subseteq PCs
  BY DEF PCs, Serving, Locked, Idle

\* The steps of a worker up to the database.
LEMMA RequestInv ==
  ASSUME IInv, NEW r \in Reqs, BeginRead(r) \/ Authenticate(r) \/ Authorize(r)
  PROVE  IInv'
<1> USE BlankType, Places DEF IInv
<1> USE DEF reqVars, dbVars, authVars, fwdVars, ctlVars
<1>1. CASE BeginRead(r)
  <2>1. /\ pc' \in [Reqs -> PCs]
        /\ pc'[r] = "authenticate"
        /\ \A s \in Reqs \ {r} : pc'[s] = pc[s]
    BY <1>1, GoToType DEF BeginRead
  <2>2. TypeOK'
    BY <1>1, <2>1 DEF BeginRead, TypeOK
  <2>3. Indexed'
    BY <1>1, <2>1 DEF BeginRead, Indexed
  <2> QED BY <2>2, <2>3
<1>2. CASE Authenticate(r)
  <2>1. /\ pc' \in [Reqs -> PCs] /\ reply' \in [Reqs -> Reply]
        /\ pc'[r] \in {"reply", "authorize"}
        /\ \A s \in Reqs \ {r} : pc'[s] = pc[s]
    <3>1. CASE \E code \in Codes : Settle(r, code, Blank)
      BY <3>1, SettleType
    <3>2. CASE GoTo(r, "authorize") /\ UNCHANGED reply
      BY <3>2, GoToType DEF TypeOK
    <3> QED BY <1>2, <3>1, <3>2 DEF Authenticate
  <2>2. TypeOK'
    BY <1>2, <2>1 DEF Authenticate, TypeOK
  <2>3. Indexed'
    BY <1>2, <2>1 DEF Authenticate, Indexed
  <2> QED BY <2>2, <2>3
<1>3. CASE Authorize(r)
  <2>1. [Blank EXCEPT !.r_count = MaxCount] \in Record
    BY RecordsAssumption DEF Record, Counts
  <2>2. /\ pc' \in [Reqs -> PCs] /\ reply' \in [Reqs -> Reply]
        /\ pc'[r] \in {"reply", "lock"}
        /\ pc'[r] = "lock" => msg[r].digests # << >>
        /\ \A s \in Reqs \ {r} : pc'[s] = pc[s]
    <3>1. CASE \E code \in Codes, rec \in Record : Settle(r, code, rec)
      BY <3>1, SettleType
    <3>2. CASE msg[r].digests # << >> /\ GoTo(r, "lock") /\ UNCHANGED reply
      BY <3>2, GoToType DEF TypeOK
    <3> QED BY <1>3, <2>1, <3>1, <3>2 DEF Authorize
  <2>3. TypeOK'
    BY <1>3, <2>2 DEF Authorize, TypeOK
  <2>4. msg[r].digests # << >> => Len(msg[r].digests) > 0
    <3>1. msg[r].digests \in Seq(Digests)
      BY DEF TypeOK, Packet
    <3> QED BY <3>1, EmptySeq
  <2>5. Indexed'
    BY <1>3, <2>2, <2>4 DEF Authorize, Indexed
  <2> QED BY <2>3, <2>5
<1> QED BY <1>1, <1>2, <1>3

\* The steps of a worker on the database.
LEMMA DatabaseInv ==
  ASSUME IInv, NEW r \in Reqs,
         DbLock(r) \/ DbRead(r) \/ DbWrite(r) \/ DbFault(r) \/ CacheWrite(r)
  PROVE  IInv'
<1> USE BlankType, Places DEF IInv
<1> USE DEF reqVars, dbVars, authVars, fwdVars, ctlVars, ReleaseMutex
<1>1. CASE DbLock(r)
  <2>1. /\ pc' \in [Reqs -> PCs] /\ reply' \in [Reqs -> Reply]
        /\ \/ pc'[r] = "reply"
           \/ pc[r] = "lock" /\ pc'[r] = "read"
           \/ pc[r] = "cachelock" /\ pc'[r] = "cachewrite"
        /\ \A s \in Reqs \ {r} : pc'[s] = pc[s]
    <3>1. CASE Settle(r, 500, Blank)
      BY <3>1, SettleType
    <3>2. CASE GoTo(r, IF pc[r] = "lock" THEN "read" ELSE "cachewrite") /\ UNCHANGED reply
      BY <3>2, <1>1, GoToType DEF TypeOK, DbLock
    <3> QED BY <1>1, <3>1, <3>2 DEF DbLock
  <2>2. TypeOK'
    BY <1>1, <2>1 DEF DbLock, TypeOK
  <2>3. Indexed'
    BY <1>1, <2>1 DEF DbLock, Indexed
  <2> QED BY <2>2, <2>3
<1>2. CASE DbRead(r)
  <2>1. Current(r) \in Digests /\ store[Current(r)] \in Record
    BY <1>2, Lengths DEF DbRead, Locked
  <2>2. Shown(msg[r].op, store[Current(r)]) \in Record
    BY <2>1, ShownType
  <2>3. /\ pc' \in [Reqs -> PCs] /\ reply' \in [Reqs -> Reply]
        /\ pc'[r] \in {"reply", "write", "proxy"}
        /\ pc'[r] = "proxy" => msg[r].op = "check" /\ NumSources > 0
        /\ \A s \in Reqs \ {r} : pc'[s] = pc[s]
    <3>1. CASE Settle(r, 200, Shown(msg[r].op, store[Current(r)]))
      BY <3>1, <2>2, SettleType
    <3>2. CASE GoTo(r, "write") /\ UNCHANGED reply
      BY <3>2, GoToType DEF TypeOK
    <3>3. CASE Missed(r) /\ GoTo(r, "proxy") /\ UNCHANGED reply
      BY <3>3, GoToType DEF TypeOK, Missed
    <3> QED BY <1>2, <3>1, <3>2, <3>3 DEF DbRead
  <2>4. tmp' \in [Reqs -> Record] /\ dbLock' \in Reqs \cup {NoReq}
    BY <1>2, <2>1 DEF DbRead, KeptAfterGet, TypeOK
  <2>5. TypeOK'
    BY <1>2, <2>3, <2>4 DEF DbRead, TypeOK
  <2>6. Indexed'
    <3>1. pc[r] = "read" /\ NumSources \in Nat
      BY <1>2, ServerAssumption DEF DbRead
    <3>2. /\ Len(msg[r].digests) \in Nat /\ at[r] = 1
          /\ done[r] \in Nat /\ done[r] < Len(msg[r].digests)
      BY <3>1, Lengths DEF Indexed, TypeOK
    <3>3. /\ pc'[r] = "proxy" => done[r] = 0
          /\ pc'[r] = "write" => msg[r].op \in Updates
      <4>1. CASE msg[r].op \in Updates
        BY <2>3, <4>1
      <4>2. CASE msg[r].op \notin Updates
        <5>1. pc'[r] \in {"reply", "proxy"}
          BY <1>2, <2>2, <4>2, GoToType, SettleType DEF DbRead
        <5> QED BY <5>1, <4>2, <3>1 DEF Indexed
      <4> QED BY <4>1, <4>2
    <3> QED BY <1>2, <2>3, <3>1, <3>2, <3>3 DEF DbRead, Indexed
  <2> QED BY <2>5, <2>6
<1>3. CASE DbWrite(r)
  <2>1. PICK now \in Clock : Put(r, Incremented(msg[r].op, tmp[r], now))
    BY <1>3 DEF DbWrite
  <2>2. Incremented(msg[r].op, tmp[r], now) \in Record
    BY IncrementedType, ServerAssumption DEF TypeOK
  <2>3. store' \in [Digests -> Record] /\ done' \in [Reqs -> Nat]
    BY <1>3, <2>1, <2>2, PutType, WrittenType DEF DbWrite
  <2>4. /\ pc' \in [Reqs -> PCs] /\ reply' \in [Reqs -> Reply]
        /\ \/ pc'[r] = "reply"
           \/ pc'[r] = "forward"
           \/ pc'[r] = "read" /\ ~LastDigest(r)
        /\ \A s \in Reqs \ {r} : pc'[s] = pc[s]
    <3>1. CASE Settle(r, 200, Blank)
      BY <3>1, SettleType
    <3>2. CASE GoTo(r, "forward") /\ UNCHANGED reply
      BY <3>2, GoToType DEF TypeOK
    <3>3. CASE ~LastDigest(r) /\ GoTo(r, "read") /\ UNCHANGED reply
      BY <3>3, GoToType DEF TypeOK
    <3> QED BY <1>3, <3>1, <3>2, <3>3 DEF DbWrite
  <2>5. TypeOK'
    BY <1>3, <2>3, <2>4 DEF DbWrite, TypeOK
  <2>6. Indexed'
    <3>1. /\ pc[r] = "write" /\ msg[r].op \in Updates
          /\ Len(msg[r].digests) \in Nat /\ at[r] = 1
          /\ done[r] \in Nat /\ done[r] < Len(msg[r].digests)
      BY <1>3, Lengths DEF DbWrite, Indexed, TypeOK
    <3>2. /\ done'[r] = done[r] + 1
          /\ \A s \in Reqs \ {r} : done'[s] = done[s]
      BY <1>3, WrittenType DEF DbWrite
    <3>3. UNCHANGED <<msg, at>>
      BY <1>3 DEF DbWrite
    <3> QED BY <2>4, <3>1, <3>2, <3>3 DEF Indexed, LastDigest
  <2> QED BY <2>5, <2>6
<1>4. CASE DbFault(r)
  <2>1. /\ pc' \in [Reqs -> PCs] /\ reply' \in [Reqs -> Reply]
        /\ pc'[r] = "reply"
        /\ \A s \in Reqs \ {r} : pc'[s] = pc[s]
    BY <1>4, SettleType DEF DbFault
  <2>2. /\ store' \in [Digests -> Record] /\ done' \in [Reqs -> Nat]
        /\ \A s \in Reqs \ {r} : done'[s] = done[s]
    <3>1. CASE UNCHANGED <<store, done>>
      BY <3>1 DEF TypeOK
    <3>2. ASSUME NEW now \in Clock, Written(r), Put(r, Incremented(msg[r].op, tmp[r], now))
          PROVE  /\ store' \in [Digests -> Record] /\ done' \in [Reqs -> Nat]
                 /\ \A s \in Reqs \ {r} : done'[s] = done[s]
      <4>1. Incremented(msg[r].op, tmp[r], now) \in Record
        BY IncrementedType, ServerAssumption DEF TypeOK
      <4> QED BY <3>2, <4>1, PutType, WrittenType
    <3>3. CASE Put(r, tmp[r]) /\ UNCHANGED done
      BY <3>3, PutType DEF TypeOK
    <3> QED BY <1>4, <3>1, <3>2, <3>3 DEF DbFault
  <2>3. /\ poisoned' \in BOOLEAN /\ dbLock' \in Reqs \cup {NoReq}
    BY <1>4 DEF DbFault, GuardDropped, TypeOK
  <2>4. TypeOK'
    BY <1>4, <2>1, <2>2, <2>3 DEF DbFault, TypeOK
  <2>5. Indexed'
    BY <1>4, <2>1, <2>2 DEF DbFault, Indexed
  <2> QED BY <2>4, <2>5
<1>5. CASE CacheWrite(r)
  <2>1. Shown("check", tmp[r]) \in Record
    BY ShownType DEF TypeOK
  <2>2. /\ pc' \in [Reqs -> PCs] /\ reply' \in [Reqs -> Reply]
        /\ pc'[r] = "reply"
        /\ \A s \in Reqs \ {r} : pc'[s] = pc[s]
    BY <1>5, <2>1, SettleType DEF CacheWrite
  <2>3. store' \in [Digests -> Record] /\ dbLock' \in Reqs \cup {NoReq}
    BY <1>5 DEF CacheWrite, Put, TypeOK
  <2>4. TypeOK'
    BY <1>5, <2>2, <2>3 DEF CacheWrite, TypeOK
  <2>5. Indexed'
    BY <1>5, <2>2 DEF CacheWrite, Indexed
  <2> QED BY <2>4, <2>5
<1> QED BY <1>1, <1>2, <1>3, <1>4, <1>5

\* The other steps of a worker.
LEMMA OutsideInv ==
  ASSUME IInv, NEW r \in Reqs, Proxy(r) \/ Forward(r) \/ Respond(r)
  PROVE  IInv'
<1> USE BlankType, Places DEF IInv
<1> USE DEF reqVars, dbVars, authVars, fwdVars, ctlVars
<1>1. CASE Proxy(r)
  <2>1. CASE ProxyHit(r)
    <3>1. PICK answer \in Upstream, now \in Clock :
            Positive(answer) /\ tmp' = [tmp EXCEPT ![r] = ProxyRecord(answer, now)]
      BY <2>1 DEF ProxyHit
    <3>2. ProxyRecord(answer, now) \in Record
      BY <3>1, ProxyRecordType, ServerAssumption DEF Positive
    <3>3. tmp' \in [Reqs -> Record]
      BY <3>1, <3>2 DEF TypeOK
    <3>4. /\ pc' \in [Reqs -> PCs]
          /\ pc'[r] = "cachelock"
          /\ \A s \in Reqs \ {r} : pc'[s] = pc[s]
      BY <2>1, GoToType DEF ProxyHit
    <3>5. TypeOK'
      BY <1>1, <2>1, <3>3, <3>4 DEF Proxy, ProxyHit, TypeOK
    <3>6. Indexed'
      BY <1>1, <2>1, <3>4 DEF Proxy, ProxyHit, Indexed
    <3> QED BY <3>5, <3>6
  <2>2. CASE ProxyMiss(r)
    <3>1. Shown("check", tmp[r]) \in Record
      BY ShownType DEF TypeOK
    <3>2. /\ pc' \in [Reqs -> PCs] /\ reply' \in [Reqs -> Reply]
          /\ \/ pc'[r] = "reply"
             \/ pc'[r] = "proxy" /\ at[r] < NumSources
          /\ \A s \in Reqs \ {r} : pc'[s] = pc[s]
      <4>1. CASE Settle(r, 200, Shown("check", tmp[r]))
        BY <4>1, <3>1, SettleType
      <4>2. CASE at[r] < NumSources /\ UNCHANGED <<pc, reply>>
        BY <4>2, <1>1 DEF TypeOK, Proxy
      <4> QED BY <2>2, <4>1, <4>2 DEF ProxyMiss
    <3>3. /\ at' \in [Reqs -> Nat] /\ at'[r] = at[r] + 1
          /\ \A s \in Reqs \ {r} : at'[s] = at[s]
      BY <2>2 DEF ProxyMiss, TypeOK
    <3>4. TypeOK'
      BY <1>1, <2>2, <3>2, <3>3 DEF Proxy, ProxyMiss, TypeOK
    <3>5. Indexed'
      <4>1. pc[r] = "proxy" /\ at[r] \in 1..NumSources /\ NumSources \in Nat
        BY <1>1, ServerAssumption DEF Proxy, Indexed
      <4>2. UNCHANGED <<msg, done>>
        BY <1>1 DEF Proxy
      <4> QED BY <3>2, <3>3, <4>1, <4>2 DEF Indexed
    <3> QED BY <3>4, <3>5
  <2> QED BY <1>1, <2>1, <2>2 DEF Proxy
<1>2. CASE Forward(r)
  <2>1. at[r] \in 1..Len(msg[r].digests) /\ Len(msg[r].digests) \in Nat
    BY <1>2, Lengths DEF Forward, Indexed
  <2>2. Entry(r, at[r]) \in ForwardEntry
    BY <2>1, Lengths DEF Entry, ForwardEntry
  <2>3. fqueue' \in Seq(ForwardEntry)
    BY <1>2, <2>2, AppendProperties DEF Forward, TypeOK
  <2>4. /\ pc' \in [Reqs -> PCs] /\ reply' \in [Reqs -> Reply]
        /\ \/ pc'[r] = "reply"
           \/ pc'[r] = "forward" /\ at[r] < Len(msg[r].digests)
        /\ \A s \in Reqs \ {r} : pc'[s] = pc[s]
    <3>1. CASE Settle(r, 200, Blank)
      BY <3>1, SettleType
    <3>2. CASE at[r] < Len(msg[r].digests) /\ UNCHANGED <<pc, reply>>
      BY <3>2, <1>2 DEF TypeOK, Forward
    <3> QED BY <1>2, <3>1, <3>2 DEF Forward
  <2>5. /\ at' \in [Reqs -> Nat] /\ at'[r] = at[r] + 1
        /\ \A s \in Reqs \ {r} : at'[s] = at[s]
    BY <1>2 DEF Forward, TypeOK
  <2>6. TypeOK'
    BY <1>2, <2>3, <2>4, <2>5 DEF Forward, TypeOK
  <2>7. Indexed'
    <3>1. UNCHANGED <<msg, done>>
      BY <1>2 DEF Forward
    <3> QED BY <2>1, <2>4, <2>5, <3>1 DEF Indexed
  <2> QED BY <2>6, <2>7
<1>3. CASE Respond(r)
  <2>1. /\ pc' \in [Reqs -> PCs]
        /\ pc'[r] = "done"
        /\ \A s \in Reqs \ {r} : pc'[s] = pc[s]
    BY <1>3, GoToType DEF Respond
  <2>2. mpc' \in MPCs /\ active' \in Nat
    BY <1>3 DEF Respond, Release, TypeOK, MPCs
  <2>3. TypeOK'
    BY <1>3, <2>1, <2>2 DEF Respond, TypeOK
  <2>4. Indexed'
    BY <1>3, <2>1 DEF Respond, Indexed
  <2> QED BY <2>3, <2>4
<1> QED BY <1>1, <1>2, <1>3

LEMMA StepInv == IInv /\ [Next]_vars => IInv'
<1> SUFFICES ASSUME IInv, [Next]_vars PROVE IInv'
  OBVIOUS
<1>1. CASE Main \/ Exit
  BY <1>1, MainInv
<1>2. ASSUME NEW r \in Reqs, Work(r) PROVE IInv'
  BY <1>2, RequestInv, DatabaseInv, OutsideInv DEF Work
<1>3. CASE Control \/ ForwarderStep
  BY <1>3, EnvironmentInv
<1>4. CASE Ended \/ UNCHANGED vars
  BY <1>4 DEF Ended, vars, reqVars, dbVars, authVars, fwdVars, ctlVars, IInv, TypeOK, Indexed
<1> QED BY <1>1, <1>2, <1>3, <1>4 DEF Next

\* Every variable keeps its domain and no worker leaves its list of digests or
\* sources, for any set of requests, packets and faults.
THEOREM TypeCorrect == Spec => [](TypeOK /\ Indexed)
<1>1. Spec => []IInv
  BY InitInv, StepInv, PTL DEF Spec
<1> QED BY <1>1, PTL DEF IInv
USE DEF reqVars, dbVars, authVars, fwdVars, ctlVars
-----------------------------------------------------------------------------
(* The mutex.                                                                  *)

\* A step of a worker moves that worker alone.
LEMMA OnlyItself ==
  ASSUME TypeOK, NEW r \in Reqs, Work(r)
  PROVE  \A s \in Reqs \ {r} : pc'[s] = pc[s]
<1>1. ASSUME NEW l, GoTo(r, l) PROVE \A s \in Reqs \ {r} : pc'[s] = pc[s]
  BY <1>1 DEF GoTo, TypeOK
<1>2. ASSUME NEW code, NEW rec, Settle(r, code, rec)
      PROVE  \A s \in Reqs \ {r} : pc'[s] = pc[s]
  BY <1>1, <1>2 DEF Settle
<1>3. CASE BeginRead(r) \/ Authenticate(r) \/ Authorize(r) \/ Respond(r)
  BY <1>1, <1>2, <1>3 DEF BeginRead, Authenticate, Authorize, Respond
<1>4. CASE DbLock(r) \/ DbRead(r) \/ DbWrite(r) \/ DbFault(r) \/ CacheWrite(r)
  BY <1>1, <1>2, <1>4 DEF DbLock, DbRead, DbWrite, DbFault, CacheWrite
<1>5. CASE Proxy(r) \/ Forward(r)
  BY <1>1, <1>2, <1>5 DEF Proxy, ProxyHit, ProxyMiss, Forward
<1> QED BY <1>3, <1>4, <1>5 DEF Work

\* What a step of a worker does to its own place and to the mutex.
LEMMA MutexStep ==
  ASSUME TypeOK, NEW r \in Reqs, Work(r)
  PROVE  \/ pc[r] \notin Locked /\ pc'[r] \notin Locked /\ dbLock' = dbLock
         \/ pc[r] \notin Locked /\ pc'[r] \in Locked /\ dbLock = NoReq /\ dbLock' = r
         \/ pc[r] \in Locked /\ pc'[r] \in Locked /\ dbLock' = dbLock
         \/ pc[r] \in Locked /\ pc'[r] \notin Locked /\ dbLock' = NoReq
<1>1. ASSUME NEW l, GoTo(r, l) PROVE pc'[r] = l
  BY <1>1 DEF GoTo, TypeOK
<1>2. ASSUME NEW code, NEW rec, Settle(r, code, rec) PROVE pc'[r] = "reply"
  BY <1>1, <1>2 DEF Settle
<1> USE DEF Locked, ReleaseMutex
<1>3. CASE BeginRead(r) \/ Authenticate(r) \/ Authorize(r) \/ Respond(r)
  BY <1>1, <1>2, <1>3 DEF BeginRead, Authenticate, Authorize, Respond
<1>4. CASE DbLock(r)
  BY <1>1, <1>2, <1>4 DEF DbLock, MutexFree
<1>5. CASE DbRead(r)
  BY <1>1, <1>2, <1>5 DEF DbRead, KeptAfterGet
<1>6. CASE DbWrite(r)
  BY <1>1, <1>2, <1>6 DEF DbWrite
<1>7. CASE DbFault(r) \/ CacheWrite(r)
  BY <1>1, <1>2, <1>7 DEF DbFault, GuardDropped, CacheWrite
<1>8. CASE Proxy(r) \/ Forward(r)
  BY <1>1, <1>2, <1>8 DEF Proxy, ProxyHit, ProxyMiss, Forward
<1> QED BY <1>3, <1>4, <1>5, <1>6, <1>7, <1>8 DEF Work

\* No other step touches the mutex or a worker in its section.
LEMMA MutexOthers ==
  ASSUME TypeOK, Main \/ Exit \/ Control \/ ForwarderStep \/ Ended \/ UNCHANGED vars
  PROVE  /\ dbLock' = dbLock
         /\ \A r \in Reqs : pc'[r] \in Locked <=> pc[r] \in Locked
<1> USE DEF Locked
<1>1. CASE \E r \in Reqs : Receive(r) \/ Acquire(r)
  BY <1>1 DEF Receive, Acquire, TypeOK
<1>2. CASE LoopTop \/ LoadPasswd \/ LoadAccess \/ SwapAuth \/ RecvTimeout \/ SocketFails \/ Exit
  BY <1>2 DEF LoopTop, LoadPasswd, LoadAccess, SwapAuth, RecvTimeout, SocketFails, Exit
<1>3. CASE Control \/ ForwarderStep \/ Ended \/ UNCHANGED vars
  BY <1>3 DEF Control, ForwarderStep, SetShutdown, SetReload, EditPasswd, EditAccess,
              ForwarderTakes, ForwarderEnds, Ended, vars
<1> QED BY <1>1, <1>2, <1>3 DEF Main

LEMMA MutexInductive ==
  ASSUME IInv, MutexHeldInSection, [Next]_vars
  PROVE  MutexHeldInSection'
<1> USE ServerAssumption DEF MutexHeldInSection, IInv
<1>1. ASSUME NEW r \in Reqs, Work(r) PROVE MutexHeldInSection'
  BY <1>1, OnlyItself, MutexStep
<1>2. CASE Main \/ Exit \/ Control \/ ForwarderStep \/ Ended \/ UNCHANGED vars
  BY <1>2, MutexOthers
<1> QED BY <1>1, <1>2 DEF Next

\* The mutex is held exactly by the worker between get and set, for every way
\* an operation of the engine may end.
THEOREM MutexSafe == Spec => []MutexHeldInSection
<1>1. Init => MutexHeldInSection
  BY ServerAssumption DEF Init, MutexHeldInSection, Locked
<1>2. Spec => []IInv
  BY InitInv, StepInv, PTL DEF Spec
<1> QED BY <1>1, <1>2, MutexInductive, PTL DEF Spec
-----------------------------------------------------------------------------
(* The poisoned mutex.                                                         *)

\* A poisoned mutex is free, so that nobody is between get and set any more.
PoisonedFree == poisoned => dbLock = NoReq

LEMMA PoisonStep ==
  ASSUME IInv, MutexHeldInSection, PoisonedFree, [Next]_vars
  PROVE  PoisonedFree' /\ (poisoned => poisoned' /\ UNCHANGED store)
<1> USE ServerAssumption DEF PoisonedFree, IInv, ReleaseMutex
<1>1. ASSUME NEW r \in Reqs, Work(r)
      PROVE  PoisonedFree' /\ (poisoned => poisoned' /\ UNCHANGED store)
  <2>1. poisoned => pc[r] \notin Locked
    BY DEF MutexHeldInSection
  <2>2. CASE BeginRead(r) \/ Authenticate(r) \/ Authorize(r) \/ Respond(r)
    BY <2>2 DEF BeginRead, Authenticate, Authorize, Respond
  <2>3. CASE DbLock(r)
    BY <2>3 DEF DbLock, Poisoned
  <2>4. CASE DbRead(r) \/ DbWrite(r) \/ CacheWrite(r)
    BY <2>1, <2>4 DEF DbRead, DbWrite, CacheWrite, Locked
  <2>5. CASE DbFault(r)
    BY <2>1, <2>5 DEF DbFault, GuardDropped
  <2>6. CASE Proxy(r) \/ Forward(r)
    BY <2>6 DEF Proxy, Forward
  <2> QED BY <1>1, <2>2, <2>3, <2>4, <2>5, <2>6 DEF Work
<1>2. CASE Main \/ Exit \/ Control \/ ForwarderStep \/ Ended \/ UNCHANGED vars
  BY <1>2 DEF Main, LoopTop, LoadPasswd, LoadAccess, SwapAuth, RecvTimeout, SocketFails,
              Receive, Acquire, Exit, Control, SetShutdown, SetReload, EditPasswd,
              EditAccess, ForwarderStep, ForwarderTakes, ForwarderEnds, Ended, vars
<1> QED BY <1>1, <1>2 DEF Next

\* Once the mutex is poisoned it stays so and the database never changes.
THEOREM PoisonSafe == Spec => PoisonIsFinal
<1>1. Init => PoisonedFree
  BY DEF Init, PoisonedFree
<1>2. Spec => []IInv
  BY InitInv, StepInv, PTL DEF Spec
<1>3. IInv /\ MutexHeldInSection /\ PoisonedFree /\ [Next]_vars
        => PoisonedFree' /\ [poisoned => poisoned' /\ UNCHANGED store]_vars
  BY PoisonStep
<1> QED BY <1>1, <1>2, <1>3, MutexSafe, PTL DEF Spec, PoisonIsFinal
-----------------------------------------------------------------------------
(* One request at a time.                                                      *)

\* Without worker threads the loop serves one request at a time, at "inline".
InlineAlone ==
    ~Threads => \A r \in Reqs :
        pc[r] \in Queued \cup Serving
            => mpc = "inline" /\ \A s \in Reqs \ {r} : pc[s] \in Idle

\* Only the answer moves the main thread, and every other step leaves the
\* worker at work.
LEMMA WorkerPlace ==
  ASSUME TypeOK, NEW r \in Reqs, Work(r)
  PROVE  /\ pc[r] \in Queued \cup Serving
         /\ \/ pc'[r] \in Serving /\ UNCHANGED <<authVars, ctlVars>>
            \/ Respond(r) /\ pc'[r] \in Idle
<1>1. ASSUME NEW l, GoTo(r, l) PROVE pc'[r] = l
  BY <1>1 DEF GoTo, TypeOK
<1>2. ASSUME NEW code, NEW rec, Settle(r, code, rec) PROVE pc'[r] = "reply"
  BY <1>1, <1>2 DEF Settle
<1> USE DEF Queued, Serving, Locked, Idle
<1>3. CASE BeginRead(r) \/ Authenticate(r) \/ Authorize(r)
  BY <1>1, <1>2, <1>3 DEF BeginRead, Authenticate, Authorize
<1>4. CASE DbLock(r) \/ DbRead(r) \/ DbWrite(r)
  BY <1>1, <1>2, <1>4 DEF DbLock, DbRead, DbWrite
<1>5. CASE DbFault(r) \/ CacheWrite(r)
  BY <1>1, <1>2, <1>5 DEF DbFault, CacheWrite
<1>6. CASE Proxy(r) \/ Forward(r)
  BY <1>1, <1>2, <1>6 DEF Proxy, ProxyHit, ProxyMiss, Forward
<1>7. CASE Respond(r)
  BY <1>1, <1>7 DEF Respond
<1> QED BY <1>3, <1>4, <1>5, <1>6, <1>7 DEF Work

LEMMA InlineInductive ==
  ASSUME IInv, InlineAlone, [Next]_vars
  PROVE  InlineAlone'
<1> SUFFICES ASSUME ~Threads PROVE InlineAlone'
  BY DEF InlineAlone
<1> USE DEF IInv, Limited
<1>0. Idle \cap (Queued \cup Serving) = {}
  BY DEF Idle, Queued, Serving, Locked
<1>1. ASSUME NEW r \in Reqs, Work(r) PROVE InlineAlone'
  <2>1. mpc = "inline" /\ \A s \in Reqs \ {r} : pc[s] \in Idle
    BY <1>1, WorkerPlace DEF InlineAlone
  <2>2. \A s \in Reqs \ {r} : pc'[s] \in Idle
    BY <1>1, <2>1, OnlyItself
  <2>3. pc'[r] \in Idle \/ mpc' = "inline"
    BY <1>1, <2>1, WorkerPlace
  <2> QED BY <1>0, <2>2, <2>3 DEF InlineAlone
<1>2. ASSUME NEW r \in Reqs, Receive(r) PROVE InlineAlone'
  <2>1. mpc = "recv" /\ mpc' = "inline"
    BY <1>2 DEF Receive, AfterReceive
  <2>2. \A s \in Reqs \ {r} : pc'[s] = pc[s] /\ pc[s] \in PCs
    BY <1>2 DEF Receive, TypeOK
  <2>3. \A s \in Reqs \ {r} : pc'[s] \in Idle
    BY <2>1, <2>2 DEF InlineAlone, PCs, Serving
  <2> QED BY <1>0, <2>1, <2>3 DEF InlineAlone
<1>3. ASSUME NEW r \in Reqs, Acquire(r) PROVE InlineAlone'
  BY <1>3 DEF Acquire, InlineAlone, Queued
<1>4. CASE LoopTop \/ LoadPasswd \/ LoadAccess \/ SwapAuth \/ RecvTimeout \/ SocketFails \/ Exit
  BY <1>4 DEF LoopTop, LoadPasswd, LoadAccess, SwapAuth, RecvTimeout, SocketFails, Exit, InlineAlone
<1>5. CASE Control \/ ForwarderStep \/ Ended \/ UNCHANGED vars
  BY <1>5 DEF Control, ForwarderStep, SetShutdown, SetReload, EditPasswd, EditAccess,
              ForwarderTakes, ForwarderEnds, Ended, vars, InlineAlone
<1> QED BY <1>1, <1>2, <1>3, <1>4, <1>5 DEF Next, Main

\* Without worker threads the server leaves no request unanswered behind.
THEOREM InlineGraceful == ~Threads => (Spec => []GracefulShutdown)
<1> SUFFICES ASSUME ~Threads PROVE Spec => []GracefulShutdown
  OBVIOUS
<1>1. Init => InlineAlone
  BY DEF Init, InlineAlone, Queued, Serving, Locked
<1>2. Spec => []IInv
  BY InitInv, StepInv, PTL DEF Spec
<1>3. Spec => []InlineAlone
  BY <1>1, <1>2, InlineInductive, PTL DEF Spec
<1>4. IInv /\ InlineAlone => GracefulShutdown
  BY DEF IInv, TypeOK, PCs, InlineAlone, GracefulShutdown, Alive
<1> QED BY <1>2, <1>3, <1>4, PTL
-----------------------------------------------------------------------------
(* Reloads.                                                                    *)

\* The versions in memory are ones the disk had, and a reload never goes back.
VersionsOrdered ==
    /\ AtLeast(files, auth) /\ AtLeast(files, pending) /\ AtLeast(files, wanted)
    /\ mpc = "access" => pending.passwd >= auth.passwd
    /\ mpc = "swap" => AtLeast(pending, auth)

ReloadInv == VersionsOrdered /\ ReloadNotLost

LEMMA Numbers ==
  ASSUME TypeOK
  PROVE  /\ auth.passwd \in Nat /\ auth.access \in Nat
         /\ pending.passwd \in Nat /\ pending.access \in Nat
         /\ files.passwd \in Nat /\ files.access \in Nat
         /\ wanted.passwd \in Nat /\ wanted.access \in Nat
  BY ServerAssumption DEF TypeOK, AuthState, Edits

\* A step that leaves the versions alone keeps the invariant when it keeps the
\* flag and moves the main thread neither into nor out of a reload.
LEMMA ReloadStutter ==
  ASSUME ReloadInv, UNCHANGED <<auth, pending, files, wanted, reload>>,
         mpc' = mpc \/ (/\ mpc \notin {"passwd", "access", "swap"}
                       /\ mpc' \notin {"passwd", "access", "swap"})
  PROVE  ReloadInv'
  BY DEF ReloadInv, VersionsOrdered, ReloadNotLost, AtLeast

LEMMA ReloadInductive ==
  ASSUME IInv, InlineAlone, ReloadInv, [Next]_vars
  PROVE  ReloadInv'
<1> USE DEF IInv
<1>1. CASE LoopTop
  BY <1>1 DEF LoopTop, ReloadInv, VersionsOrdered, ReloadNotLost, AtLeast
<1>2. CASE LoadPasswd
  <2>1. pending' = [passwd |-> files.passwd, access |-> pending.access]
    BY <1>2 DEF LoadPasswd, TypeOK, AuthState
  <2> QED BY <1>2, <2>1, Numbers DEF LoadPasswd, ReloadInv, VersionsOrdered, ReloadNotLost, AtLeast
<1>3. CASE LoadAccess
  <2>1. pending' = [passwd |-> pending.passwd, access |-> files.access]
    BY <1>3 DEF LoadAccess, TypeOK, AuthState
  <2> QED BY <1>3, <2>1, Numbers DEF LoadAccess, ReloadInv, VersionsOrdered, ReloadNotLost, AtLeast
<1>4. CASE SwapAuth
  BY <1>4, Numbers
  DEF SwapAuth, Install, KeepFlag, ReloadInv, VersionsOrdered, ReloadNotLost, AtLeast
<1>5. CASE RecvTimeout \/ SocketFails \/ Exit \/ SetShutdown \/ ForwarderStep \/ Ended
           \/ UNCHANGED vars
  BY <1>5, ReloadStutter
  DEF RecvTimeout, SocketFails, Exit, SetShutdown, ForwarderStep, ForwarderTakes,
      ForwarderEnds, Ended, vars
<1>6. ASSUME NEW r \in Reqs, Receive(r) \/ Acquire(r) PROVE ReloadInv'
  BY <1>6, ReloadStutter DEF Receive, AfterReceive, Acquire
<1>7. ASSUME NEW r \in Reqs, Work(r) PROVE ReloadInv'
  <2>1. CASE UNCHANGED <<authVars, ctlVars>>
    BY <2>1, ReloadStutter
  <2>2. CASE Respond(r) /\ Threads
    BY <2>2, ReloadStutter DEF Respond
  <2>3. CASE Respond(r) /\ ~Threads
    <3>1. mpc = "inline"
      BY <1>7, <2>3, WorkerPlace DEF InlineAlone
    <3> QED BY <2>3, <3>1, ReloadStutter DEF Respond
  <2> QED BY <1>7, <2>1, <2>2, <2>3, WorkerPlace
<1>8. CASE SetReload
  BY <1>8, Numbers DEF SetReload, ReloadInv, VersionsOrdered, ReloadNotLost, AtLeast
<1>9. CASE EditPasswd
  <2>1. files' = [passwd |-> files.passwd + 1, access |-> files.access]
    BY <1>9 DEF EditPasswd, TypeOK, AuthState
  <2> QED BY <1>9, <2>1, Numbers DEF EditPasswd, ReloadInv, VersionsOrdered, ReloadNotLost, AtLeast
<1>10. CASE EditAccess
  <2>1. files' = [passwd |-> files.passwd, access |-> files.access + 1]
    BY <1>10 DEF EditAccess, TypeOK, AuthState
  <2> QED BY <1>10, <2>1, Numbers DEF EditAccess, ReloadInv, VersionsOrdered, ReloadNotLost, AtLeast
<1> QED
  BY <1>1, <1>2, <1>3, <1>4, <1>5, <1>6, <1>7, <1>8, <1>9, <1>10
  DEF Next, Main, Control
\* A request to reload is never lost, and a reload never installs files older
\* than those in force.
THEOREM ReloadSafe == Spec => []ReloadNotLost
<1>1. Init => InlineAlone /\ ReloadInv
  BY ServerAssumption
  DEF Init, SomeFiles, InlineAlone, Queued, Serving, Locked, ReloadInv, VersionsOrdered,
      ReloadNotLost, AtLeast
<1>2. Spec => []IInv
  BY InitInv, StepInv, PTL DEF Spec
<1>3. Spec => []InlineAlone
  BY <1>1, <1>2, InlineInductive, PTL DEF Spec
<1>4. Spec => []ReloadInv
  BY <1>1, <1>2, <1>3, ReloadInductive, PTL DEF Spec
<1> QED BY <1>4, PTL DEF ReloadInv
-----------------------------------------------------------------------------
(* One auth state for each request.                                            *)

Signed(version, p) ==
    p.user # Anonymous =>
        /\ Accounts[version.passwd][p.user] # NoKey
        /\ p.key = Accounts[version.passwd][p.user]

\* What a worker has checked so far, and that nothing is decided before it is.
Judged(r) ==
    /\ pc[r] = "authorize" => judged[r] = auth /\ Signed(auth, msg[r])
    /\ pc[r] \in Serving \ {"authenticate", "authorize", "reply"}
        => Permits(judged[r], msg[r])
    /\ reply[r].code = 200 \/ done[r] > 0 => Permits(judged[r], msg[r])
    /\ pc[r] \in {"new", "accepted", "spawned", "authenticate", "authorize"}
        => reply[r].code = 0

AuthInv == \A r \in Reqs : Judged(r)

\* Judged only looks at the request's own state and, at "authorize", at auth.
LEMMA JudgedStutter ==
  ASSUME NEW s \in Reqs, Judged(s),
         pc'[s] = pc[s], reply'[s] = reply[s], done'[s] = done[s],
         msg'[s] = msg[s], judged'[s] = judged[s], pc[s] = "authorize" => auth' = auth
  PROVE  Judged(s)'
  BY DEF Judged, Permits, Signed

\* A worker changes no other request.
LEMMA OwnState ==
  ASSUME TypeOK, NEW r \in Reqs, Work(r), NEW s \in Reqs \ {r}
  PROVE  /\ pc'[s] = pc[s] /\ reply'[s] = reply[s] /\ done'[s] = done[s]
         /\ msg'[s] = msg[s] /\ judged'[s] = judged[s] /\ auth' = auth
<1>1. ASSUME NEW code, NEW rec, Settle(r, code, rec) PROVE reply'[s] = reply[s]
  BY <1>1 DEF Settle, TypeOK
<1>2. pc'[s] = pc[s]
  BY OnlyItself
<1>3. msg' = msg /\ auth' = auth
  BY DEF Work, BeginRead, Authenticate, Authorize, DbLock, DbRead, DbWrite, DbFault,
         Proxy, CacheWrite, Forward, Respond
<1>4. CASE BeginRead(r) \/ Authenticate(r) \/ Authorize(r) \/ Respond(r)
  BY <1>1, <1>2, <1>3, <1>4 DEF BeginRead, Authenticate, Authorize, Respond, TypeOK
<1>5. CASE DbLock(r) \/ DbRead(r) \/ CacheWrite(r) \/ Forward(r) \/ Proxy(r)
  BY <1>1, <1>2, <1>3, <1>5 DEF DbLock, DbRead, CacheWrite, Forward, Proxy, ProxyHit, ProxyMiss
<1>6. CASE DbWrite(r) \/ DbFault(r)
  <2>1. done'[s] = done[s]
    BY <1>6, WrittenType DEF DbWrite, DbFault
  <2> QED BY <1>1, <1>2, <1>3, <1>6, <2>1 DEF DbWrite, DbFault
<1> QED BY <1>4, <1>5, <1>6 DEF Work

LEMMA JudgedStep ==
  ASSUME IInv, AuthInv, NEW r \in Reqs, Work(r)
  PROVE  Judged(r)'
<1> USE DEF IInv
<1>1. Judged(r) /\ pc[r] \in PCs
  BY DEF AuthInv, TypeOK
<1>2. ASSUME NEW l, GoTo(r, l) PROVE pc'[r] = l
  BY <1>2 DEF GoTo, TypeOK
<1>3. ASSUME NEW code, NEW rec, Settle(r, code, rec)
      PROVE  pc'[r] = "reply" /\ reply'[r].code = code
  BY <1>3 DEF Settle, GoTo, TypeOK
<1>4. CASE BeginRead(r)
  <2>1. pc[r] = "spawned" /\ pc'[r] = "authenticate" /\ UNCHANGED <<reply, done, msg, judged>>
    BY <1>2, <1>4 DEF BeginRead
  <2> QED BY <1>1, <2>1 DEF Judged, Permits
<1>5. CASE Authenticate(r)
  <2>1. judged'[r] = auth /\ UNCHANGED <<msg, done, auth>> /\ pc[r] = "authenticate"
    BY <1>5 DEF Authenticate, TypeOK
  <2>2. done[r] = 0 /\ reply[r].code = 0
    BY <1>1, <2>1 DEF Indexed, Judged
  <2>3. \/ pc'[r] = "reply" /\ reply'[r].code # 200
        \/ pc'[r] = "authorize" /\ SignatureOk(r) /\ UNCHANGED reply
    BY <1>2, <1>3, <1>5 DEF Authenticate
  <2> QED BY <2>1, <2>2, <2>3 DEF Judged, SignatureOk, Signed
<1>6. CASE Authorize(r)
  <2>1. UNCHANGED <<msg, done, auth, judged>> /\ pc[r] = "authorize"
    BY <1>6 DEF Authorize
  <2>2. judged[r] = auth /\ Signed(auth, msg[r]) /\ done[r] = 0
    BY <1>1, <2>1 DEF Indexed, Judged
  <2>3. \/ pc'[r] = "reply" /\ reply'[r].code # 200
        \/ pc'[r] \in {"lock", "reply"} /\ Allowed(r)
    BY <1>2, <1>3, <1>6 DEF Authorize
  <2> QED BY <2>1, <2>2, <2>3 DEF Judged, Signed, Allowed, Permits
<1>7. CASE /\ pc[r] \in Serving \ {"authenticate", "authorize", "reply"}
           /\ pc'[r] \in Serving \ {"authenticate", "authorize"}
  <2>1. UNCHANGED <<msg, judged>>
    BY <1>7 DEF Work, BeginRead, Authenticate, Authorize, DbLock, DbRead, DbWrite,
                DbFault, Proxy, CacheWrite, Forward, Respond
  <2> QED BY <1>1, <1>7, <2>1 DEF Judged, Permits, Serving, Locked
<1>8. CASE DbLock(r) \/ DbRead(r) \/ DbWrite(r) \/ DbFault(r) \/ CacheWrite(r)
           \/ Proxy(r) \/ Forward(r)
  <2>1. pc[r] \in Serving \ {"authenticate", "authorize", "reply"}
    BY <1>8 DEF DbLock, DbRead, DbWrite, DbFault, CacheWrite, Proxy, Forward, Serving, Locked
  <2>2. pc'[r] \in Serving \ {"authenticate", "authorize"}
    <3>1. CASE DbLock(r) \/ DbRead(r) \/ DbWrite(r)
      BY <1>2, <1>3, <3>1 DEF DbLock, DbRead, DbWrite, Serving, Locked
    <3>2. CASE DbFault(r) \/ CacheWrite(r)
      BY <1>2, <1>3, <3>2 DEF DbFault, CacheWrite, Serving
    <3>3. CASE Proxy(r) \/ Forward(r)
      BY <1>2, <1>3, <3>3 DEF Proxy, ProxyHit, ProxyMiss, Forward, Serving
    <3> QED BY <1>8, <3>1, <3>2, <3>3
  <2> QED BY <1>7, <2>1, <2>2
<1>9. CASE Respond(r)
  <2>1. pc'[r] = "done" /\ UNCHANGED <<reply, done, msg, judged>>
    BY <1>2, <1>9 DEF Respond
  <2> QED BY <1>1, <2>1 DEF Judged, Permits, Serving, Locked
<1> QED BY <1>4, <1>5, <1>6, <1>8, <1>9 DEF Work

LEMMA AuthInductive ==
  ASSUME IInv, AuthInv, [Next]_vars
  PROVE  AuthInv'
<1> USE DEF IInv
<1>1. ASSUME NEW r \in Reqs, Work(r) PROVE AuthInv'
  BY <1>1, JudgedStep, OwnState, JudgedStutter DEF AuthInv
<1>2. ASSUME NEW r \in Reqs, Receive(r) PROVE AuthInv'
  <2>1. /\ pc[r] = "new" /\ pc'[r] \in {"accepted", "spawned"}
        /\ UNCHANGED <<reply, done, judged, auth>>
        /\ \A s \in Reqs \ {r} : pc'[s] = pc[s] /\ msg'[s] = msg[s]
    BY <1>2 DEF Receive, TypeOK
  <2>2. Judged(r)'
    BY <2>1 DEF AuthInv, Judged, Indexed, Serving, Locked
  <2> QED BY <2>1, <2>2, JudgedStutter DEF AuthInv
<1>3. ASSUME NEW r \in Reqs, Acquire(r) PROVE AuthInv'
  <2>1. /\ pc[r] = "accepted" /\ pc'[r] = "spawned"
        /\ UNCHANGED <<msg, reply, done, judged, auth>>
        /\ \A s \in Reqs \ {r} : pc'[s] = pc[s]
    BY <1>3 DEF Acquire, TypeOK
  <2>2. Judged(r)'
    BY <2>1 DEF AuthInv, Judged, Indexed, Serving, Locked
  <2> QED BY <2>1, <2>2, JudgedStutter DEF AuthInv
<1>4. CASE SwapAuth
  <2>1. UNCHANGED reqVars /\ \A s \in Reqs : pc[s] # "authorize"
    BY <1>4 DEF SwapAuth, Install, Readers, Serving
  <2> QED BY <2>1, JudgedStutter DEF AuthInv
<1>5. CASE LoopTop \/ LoadPasswd \/ LoadAccess \/ RecvTimeout \/ SocketFails \/ Exit
  BY <1>5, JudgedStutter DEF LoopTop, LoadPasswd, LoadAccess, RecvTimeout, SocketFails, Exit, AuthInv
<1>6. CASE Control \/ ForwarderStep \/ Ended \/ UNCHANGED vars
  BY <1>6, JudgedStutter
  DEF Control, ForwarderStep, SetShutdown, SetReload, EditPasswd, EditAccess,
      ForwarderTakes, ForwarderEnds, Ended, vars, AuthInv
<1> QED BY <1>1, <1>2, <1>3, <1>4, <1>5, <1>6 DEF Next, Main

\* Whatever is served was authenticated and authorized by one auth state, for
\* any accounts, any ACL and any interleaving with reloads.
THEOREM AuthSafe == Spec => []ServedUnderOneAuth
<1>1. Init => AuthInv
  BY DEF Init, AuthInv, Judged, Serving, Locked, NoReply
<1>2. Spec => []IInv
  BY InitInv, StepInv, PTL DEF Spec
<1>3. AuthInv => ServedUnderOneAuth
  BY DEF AuthInv, Judged, ServedUnderOneAuth
<1> QED BY <1>1, <1>2, <1>3, AuthInductive, PTL DEF Spec
-----------------------------------------------------------------------------
(* The permits.                                                                *)

PermitInv == PermitsCounted /\ IsFiniteSet(PermitHolders)

LEMMA PermitInductive ==
  ASSUME IInv, PermitInv, [Next]_vars, Limited
  PROVE  PermitInv'
<1> USE ServerAssumption DEF IInv, PermitInv, PermitsCounted, Limited
<1>1. active = Cardinality(PermitHolders) /\ active <= MaxThreads /\ active \in Nat
      /\ MaxThreads \in Nat
  BY DEF TypeOK
<1>2. ASSUME PermitHolders' = PermitHolders, active' = active PROVE PermitInv'
  BY <1>1, <1>2
<1>3. ASSUME NEW r \in Reqs, Work(r) PROVE PermitInv'
  <2>1. \A s \in Reqs \ {r} : pc'[s] = pc[s]
    BY <1>3, OnlyItself
  <2>2. r \in PermitHolders
    <3>1. pc[r] \in Serving \cup {"spawned"}
      BY <1>3 DEF Work, BeginRead, Authenticate, Authorize, DbLock, DbRead, DbWrite,
                  DbFault, Proxy, CacheWrite, Forward, Respond, Serving, Locked
    <3> QED BY <3>1 DEF PermitHolders
  <2>3. CASE pc'[r] \in Serving /\ UNCHANGED <<authVars, ctlVars>>
    <3>1. PermitHolders' = PermitHolders
      BY <2>1, <2>2, <2>3 DEF PermitHolders
    <3> QED BY <1>2, <2>3, <3>1
  <2>4. CASE Respond(r)
    <3>1. pc'[r] = "done"
      BY <2>4, GoToType, Places DEF Respond
    <3>2. PermitHolders' = PermitHolders \ {r}
      BY <2>1, <2>2, <3>1 DEF PermitHolders, Serving, Locked
    <3>3. /\ IsFiniteSet(PermitHolders \ {r})
          /\ Cardinality(PermitHolders \ {r}) = active - 1
      BY <1>1, <2>2, FS_RemoveElement
    <3>4. active > 0 /\ active' = active - 1
      <4>1. Cardinality(PermitHolders \ {r}) \in Nat
        BY <3>3, FS_CardinalityType
      <4> QED BY <1>1, <2>4, <3>3, <4>1 DEF Respond, Release
    <3> QED BY <1>1, <3>2, <3>3, <3>4
  <2> QED BY <1>3, <2>3, <2>4, WorkerPlace
<1>4. ASSUME NEW r \in Reqs, Acquire(r) PROVE PermitInv'
  <2>1. pc[r] = "accepted" /\ pc' = [pc EXCEPT ![r] = "spawned"]
    BY <1>4 DEF Acquire
  <2>2. r \notin PermitHolders /\ PermitHolders' = PermitHolders \cup {r}
    BY <2>1 DEF PermitHolders, Serving, Locked, TypeOK
  <2>3. /\ IsFiniteSet(PermitHolders \cup {r})
        /\ Cardinality(PermitHolders \cup {r}) = active + 1
    BY <1>1, <2>2, FS_AddElement
  <2>4. active < MaxThreads /\ active' = active + 1
    BY <1>4 DEF Acquire, PermitAvailable
  <2> QED BY <1>1, <2>2, <2>3, <2>4
<1>5. ASSUME NEW r \in Reqs, Receive(r) PROVE PermitInv'
  <2>1. pc[r] = "new" /\ pc' = [pc EXCEPT ![r] = "accepted"] /\ active' = active
    BY <1>5 DEF Receive
  <2>2. PermitHolders' = PermitHolders
    BY <2>1 DEF PermitHolders, Serving, Locked, TypeOK
  <2> QED BY <1>2, <2>1, <2>2
<1>6. CASE LoopTop \/ LoadPasswd \/ LoadAccess \/ SwapAuth \/ RecvTimeout \/ SocketFails \/ Exit
  BY <1>2, <1>6 DEF LoopTop, LoadPasswd, LoadAccess, SwapAuth, RecvTimeout, SocketFails, Exit,
                    PermitHolders
<1>7. CASE Control \/ ForwarderStep \/ Ended \/ UNCHANGED vars
  BY <1>2, <1>7
  DEF Control, ForwarderStep, SetShutdown, SetReload, EditPasswd, EditAccess,
      ForwarderTakes, ForwarderEnds, Ended, vars, PermitHolders
<1> QED BY <1>3, <1>4, <1>5, <1>6, <1>7 DEF Next, Main

\* The limiter counts its permits exactly and never exceeds max_threads,
\* whatever the number of requests.
THEOREM PermitSafe == Spec => []PermitsCounted
<1>1. CASE ~Limited
  <2>1. PermitsCounted
    BY <1>1 DEF PermitsCounted
  <2> QED BY <2>1, PTL
<1>2. CASE Limited
  <2>1. Init => PermitInv
    <3> SUFFICES ASSUME Init PROVE PermitInv
      OBVIOUS
    <3>1. PermitHolders = {} /\ active = 0
      BY DEF Init, PermitHolders, Serving, Locked
    <3> QED BY <3>1, FS_EmptySet, ServerAssumption DEF PermitInv, PermitsCounted
  <2>2. Spec => []IInv
    BY InitInv, StepInv, PTL DEF Spec
  <2>3. PermitInv /\ IInv /\ [Next]_vars => PermitInv'
    BY <1>2, PermitInductive
  <2>4. PermitInv => PermitsCounted
    BY DEF PermitInv
  <2> QED BY <2>1, <2>2, <2>3, <2>4, PTL DEF Spec
<1> QED BY <1>1, <1>2
-----------------------------------------------------------------------------
(* The records.                                                                *)

USE DEF reqVars, dbVars, authVars, fwdVars, ctlVars
-----------------------------------------------------------------------------
(* What is decided for a request, by its place, and what a worker between get  *)
(* and set has read.                                                           *)

Sound(r) ==
    /\ pc[r] \notin {"reply", "done"} => reply[r].code = 0
    /\ pc[r] \in {"reply", "done"} => reply[r].code # 0
    /\ pc[r] \in {"lock", "read"} => msg[r].op \in Updates \cup {"check", "info"}
    /\ pc[r] \in {"proxy", "cachelock", "cachewrite"} => NumSources > 0
    /\ pc[r] = "forward" => msg[r].op \in Updates /\ done[r] = Len(msg[r].digests)
    /\ reply[r].code = 200 /\ msg[r].op \in Updates => done[r] = Len(msg[r].digests)
    /\ pc[r] = "write" => tmp[r] = store[Current(r)]

SoundInv == \A r \in Reqs : Sound(r)

\* A worker leaves what it and another worker share alone, the records excepted.
LEMMA OwnMemory ==
  ASSUME TypeOK, NEW r \in Reqs, Work(r), NEW s \in Reqs \ {r}
  PROVE  tmp'[s] = tmp[s] /\ at'[s] = at[s]
<1>1. CASE BeginRead(r) \/ Authenticate(r) \/ Authorize(r) \/ Respond(r)
  BY <1>1 DEF BeginRead, Authenticate, Authorize, Respond
<1>2. CASE DbLock(r) \/ DbWrite(r) \/ DbFault(r) \/ CacheWrite(r)
  BY <1>2 DEF DbLock, DbWrite, DbFault, CacheWrite
<1>3. CASE DbRead(r) \/ Proxy(r) \/ Forward(r)
  BY <1>3 DEF DbRead, Proxy, ProxyHit, ProxyMiss, Forward, TypeOK
<1> QED BY <1>1, <1>2, <1>3 DEF Work

\* The records change only inside the section of the mutex.
LEMMA StoreStep ==
  ASSUME NEW r \in Reqs, Work(r), pc[r] \notin {"write", "cachewrite"}
  PROVE  store' = store
<1>1. CASE BeginRead(r) \/ Authenticate(r) \/ Authorize(r) \/ Respond(r) \/ DbLock(r)
  BY <1>1 DEF BeginRead, Authenticate, Authorize, Respond, DbLock
<1>2. CASE DbRead(r) \/ DbWrite(r) \/ DbFault(r) \/ CacheWrite(r)
  BY <1>2 DEF DbRead, DbWrite, DbFault, CacheWrite
<1>3. CASE Proxy(r) \/ Forward(r)
  BY <1>3 DEF Proxy, Forward
<1> QED BY <1>1, <1>2, <1>3 DEF Work

\* So a worker between get and set is not disturbed.
LEMMA SoundStutter ==
  ASSUME IInv, NEW s \in Reqs, Sound(s),
         pc'[s] = pc[s], reply'[s] = reply[s], done'[s] = done[s], msg'[s] = msg[s],
         tmp'[s] = tmp[s], pc[s] = "write" => store' = store
  PROVE  Sound(s)'
  BY DEF Sound, Current

LEMMA SoundStep ==
  ASSUME IInv, NEW r \in Reqs, Sound(r), Work(r)
  PROVE  Sound(r)'
<1> USE DEF IInv
<1>1. pc[r] \in PCs /\ Len(msg[r].digests) \in Nat /\ done[r] \in Nat /\ at[r] \in Nat
  BY Lengths DEF TypeOK
<1>2. ASSUME NEW l, GoTo(r, l) PROVE pc'[r] = l
  BY <1>2 DEF GoTo, TypeOK
<1>3. ASSUME NEW code, NEW rec, Settle(r, code, rec)
      PROVE  pc'[r] = "reply" /\ reply'[r].code = code
  BY <1>3 DEF Settle, GoTo, TypeOK
<1>4. CASE BeginRead(r)
  <2>1. pc[r] = "spawned" /\ pc'[r] = "authenticate" /\ UNCHANGED <<reply, done, msg>>
    BY <1>2, <1>4 DEF BeginRead
  <2> QED BY <2>1 DEF Sound
<1>5. CASE Authenticate(r)
  <2>1. UNCHANGED <<msg, done>> /\ pc[r] = "authenticate"
    BY <1>5 DEF Authenticate
  <2>2. \/ pc'[r] = "reply" /\ reply'[r].code \notin {0, 200}
        \/ pc'[r] = "authorize" /\ UNCHANGED reply
    BY <1>2, <1>3, <1>5 DEF Authenticate
  <2> QED BY <2>1, <2>2 DEF Sound
<1>6. CASE Authorize(r)
  <2>1. UNCHANGED <<msg, done>> /\ pc[r] = "authorize" /\ done[r] = 0
    BY <1>6 DEF Authorize, Indexed
  <2>2. msg[r].digests = << >> => Len(msg[r].digests) = 0
    OBVIOUS
  <2>3. \/ pc'[r] = "reply" /\ reply'[r].code \in {403, 501}
        \/ /\ pc'[r] = "reply" /\ reply'[r].code = 200
           /\ msg[r].op \in {"ping", "pong"} \/ msg[r].digests = << >>
        \/ /\ pc'[r] = "lock" /\ UNCHANGED reply
           /\ msg[r].op \in Updates \cup {"check", "info"}
    BY <1>2, <1>3, <1>6 DEF Authorize
  <2> QED BY <2>1, <2>2, <2>3 DEF Sound
<1>7. CASE DbLock(r)
  <2>1. UNCHANGED <<msg, done>> /\ pc[r] \in {"lock", "cachelock"}
    BY <1>7 DEF DbLock
  <2>2. \/ pc'[r] = "reply" /\ reply'[r].code = 500
        \/ pc'[r] = "read" /\ pc[r] = "lock" /\ UNCHANGED reply
        \/ pc'[r] = "cachewrite" /\ pc[r] = "cachelock" /\ UNCHANGED reply
    BY <1>2, <1>3, <1>7 DEF DbLock
  <2> QED BY <2>1, <2>2 DEF Sound
<1>8. CASE DbRead(r)
  <2>1. UNCHANGED <<msg, done, store>> /\ pc[r] = "read" /\ tmp'[r] = store[Current(r)]
    BY <1>8 DEF DbRead, TypeOK
  <2>2. \/ /\ pc'[r] = "reply" /\ reply'[r].code = 200 /\ msg[r].op \notin Updates
        \/ pc'[r] = "write" /\ UNCHANGED reply
        \/ pc'[r] = "proxy" /\ UNCHANGED reply /\ NumSources > 0
    BY <1>2, <1>3, <1>8 DEF DbRead, Missed
  <2>3. Current(r)' = Current(r)
    BY <2>1 DEF Current
  <2> QED BY <2>1, <2>2, <2>3 DEF Sound
<1>9. CASE DbWrite(r)
  <2>1. /\ msg' = msg /\ pc[r] = "write" /\ done'[r] = done[r] + 1
        /\ msg[r].op \in Updates /\ reply[r].code = 0
    BY <1>9, WrittenType DEF DbWrite, Indexed, Sound
  <2>2. \/ pc'[r] = "read" /\ UNCHANGED reply
        \/ LastDigest(r) /\ pc'[r] = "forward" /\ UNCHANGED reply
        \/ LastDigest(r) /\ pc'[r] = "reply" /\ reply'[r].code = 200
    BY <1>2, <1>3, <1>9 DEF DbWrite
  <2> QED BY <2>1, <2>2 DEF Sound, LastDigest
<1>10. CASE DbFault(r)
  <2>1. msg' = msg /\ pc'[r] = "reply" /\ reply'[r].code = 500
    BY <1>3, <1>10 DEF DbFault
  <2> QED BY <2>1 DEF Sound
<1>11. CASE Proxy(r)
  <2>1. UNCHANGED <<msg, done>> /\ pc[r] = "proxy" /\ msg[r].op = "check"
    BY <1>11 DEF Proxy, Indexed
  <2>2. \/ pc'[r] = "reply" /\ reply'[r].code = 200
        \/ pc'[r] = "cachelock" /\ UNCHANGED reply
        \/ UNCHANGED <<pc, reply>>
    BY <1>2, <1>3, <1>11 DEF Proxy, ProxyHit, ProxyMiss
  <2> QED BY <2>1, <2>2 DEF Sound
<1>12. CASE CacheWrite(r)
  <2>1. UNCHANGED <<msg, done>> /\ pc[r] = "cachewrite" /\ msg[r].op = "check"
    BY <1>12 DEF CacheWrite, Indexed
  <2>2. pc'[r] = "reply" /\ reply'[r].code = 200
    BY <1>3, <1>12 DEF CacheWrite
  <2> QED BY <2>1, <2>2 DEF Sound
<1>13. CASE Forward(r)
  <2>1. UNCHANGED <<msg, done>> /\ pc[r] = "forward"
    BY <1>13 DEF Forward
  <2>2. \/ pc'[r] = "reply" /\ reply'[r].code = 200
        \/ UNCHANGED <<pc, reply>>
    BY <1>3, <1>13 DEF Forward
  <2> QED BY <2>1, <2>2 DEF Sound
<1>14. CASE Respond(r)
  <2>1. pc[r] = "reply" /\ pc'[r] = "done" /\ UNCHANGED <<reply, done, msg>>
    BY <1>2, <1>14 DEF Respond
  <2> QED BY <2>1 DEF Sound
<1> QED BY <1>4, <1>5, <1>6, <1>7, <1>8, <1>9, <1>10, <1>11, <1>12, <1>13, <1>14 DEF Work

\* What every step outside the workers leaves alone.
LEMMA OtherSteps ==
  ASSUME TypeOK, Main \/ Exit \/ Control \/ ForwarderStep \/ Ended \/ UNCHANGED vars
  PROVE  /\ UNCHANGED <<reply, done, tmp, at, store>>
         /\ \/ UNCHANGED <<pc, msg>>
            \/ \E r \in Reqs :
                 /\ \A s \in Reqs \ {r} : pc'[s] = pc[s] /\ msg'[s] = msg[s]
                 /\ \/ pc[r] = "new" /\ pc'[r] \in {"accepted", "spawned"} /\ Receive(r)
                    \/ /\ pc[r] = "accepted" /\ pc'[r] = "spawned" /\ msg' = msg
                       /\ pc' = [pc EXCEPT ![r] = "spawned"]
<1>1. ASSUME NEW r \in Reqs, Receive(r)
      PROVE  /\ UNCHANGED <<reply, done, tmp, at, store>>
             /\ \A s \in Reqs \ {r} : pc'[s] = pc[s] /\ msg'[s] = msg[s]
             /\ pc[r] = "new" /\ pc'[r] \in {"accepted", "spawned"}
  BY <1>1 DEF Receive, TypeOK
<1>2. ASSUME NEW r \in Reqs, Acquire(r)
      PROVE  /\ UNCHANGED <<reply, done, tmp, at, store, msg>>
             /\ \A s \in Reqs \ {r} : pc'[s] = pc[s]
             /\ pc[r] = "accepted" /\ pc'[r] = "spawned"
             /\ pc' = [pc EXCEPT ![r] = "spawned"]
  BY <1>2 DEF Acquire, TypeOK
<1>3. CASE LoopTop \/ LoadPasswd \/ LoadAccess \/ SwapAuth \/ RecvTimeout \/ SocketFails \/ Exit
  BY <1>3 DEF LoopTop, LoadPasswd, LoadAccess, SwapAuth, RecvTimeout, SocketFails, Exit
<1>4. CASE Control \/ ForwarderStep \/ Ended \/ UNCHANGED vars
  BY <1>4 DEF Control, ForwarderStep, SetShutdown, SetReload, EditPasswd, EditAccess,
              ForwarderTakes, ForwarderEnds, Ended, vars
<1> QED BY <1>1, <1>2, <1>3, <1>4 DEF Main

LEMMA SoundInductive ==
  ASSUME IInv, MutexHeldInSection, SoundInv, [Next]_vars
  PROVE  SoundInv'
<1> USE DEF IInv
<1>1. ASSUME NEW r \in Reqs, Work(r) PROVE SoundInv'
  <2>1. ASSUME NEW s \in Reqs \ {r} PROVE Sound(s)'
    <3>1. pc[s] = "write" => pc[r] \notin Locked
      BY ServerAssumption, <2>1 DEF MutexHeldInSection, Locked
    <3>2. pc[s] = "write" => store' = store
      BY <1>1, <3>1, StoreStep DEF Locked
    <3> QED BY <1>1, <2>1, <3>2, OwnState, OwnMemory, SoundStutter DEF SoundInv
  <2> QED BY <1>1, <2>1, SoundStep DEF SoundInv
<1>2. CASE Main \/ Exit \/ Control \/ ForwarderStep \/ Ended \/ UNCHANGED vars
  <2>1. CASE UNCHANGED <<pc, msg>>
    BY <1>2, <2>1, OtherSteps, SoundStutter DEF SoundInv
  <2>2. ASSUME NEW r \in Reqs,
               \A s \in Reqs \ {r} : pc'[s] = pc[s] /\ msg'[s] = msg[s],
               pc[r] \in {"new", "accepted"}, pc'[r] \in {"accepted", "spawned"}
        PROVE  SoundInv'
    <3>1. UNCHANGED <<reply, done, tmp, at, store>>
      BY <1>2, OtherSteps
    <3>2. Sound(r)'
      BY <2>2, <3>1 DEF SoundInv, Sound
    <3>3. ASSUME NEW s \in Reqs \ {r} PROVE Sound(s)'
      BY <2>2, <3>1, <3>3, SoundStutter DEF SoundInv
    <3> QED BY <3>2, <3>3 DEF SoundInv
  <2> QED BY <1>2, <2>1, <2>2, OtherSteps
<1> QED BY <1>1, <1>2 DEF Next

LEMMA InitSound == Init => SoundInv
  BY DEF Init, SoundInv, Sound, NoReply

LEMMA SoundAlways == Spec => [](IInv /\ MutexHeldInSection /\ SoundInv)
<1>1. Spec => []IInv
  BY InitInv, StepInv, PTL DEF Spec
<1> QED BY <1>1, MutexSafe, InitSound, SoundInductive, PTL DEF Spec
-----------------------------------------------------------------------------
(* The forwarder's channel.                                                    *)

\* An entry is behind its request: the database holds all of its digests, and a
\* worker still queueing is at a later one.
Behind(e) ==
    /\ pc[e.by] \in {"forward", "reply", "done"}
    /\ done[e.by] = Len(msg[e.by].digests)
    /\ reply[e.by].code \in {0, 200}
    /\ pc[e.by] = "forward" => e.nth < at[e.by]

InTurn(queue) == \A j, k \in 1..Len(queue) :
    j < k /\ queue[j].by = queue[k].by => queue[j].nth < queue[k].nth

QueueInv ==
    /\ Len(fqueue) <= QueueCap
    /\ \A k \in 1..Len(fqueue) : Behind(fqueue[k])
    /\ InTurn(fqueue)

LEMMA BehindStep ==
  ASSUME IInv, [Next]_vars, NEW e \in ForwardEntry, Behind(e)
  PROVE  Behind(e)'
<1> USE DEF IInv
<1>1. e.by \in Reqs /\ e.nth \in Nat
  BY DEF ForwardEntry
<1>2. ASSUME NEW r \in Reqs, Work(r), r # e.by PROVE Behind(e)'
  BY <1>1, <1>2, OwnState, OwnMemory DEF Behind
<1>3. ASSUME Work(e.by) PROVE Behind(e)'
  <2>1. Forward(e.by) \/ Respond(e.by)
    BY <1>3 DEF Behind, Work, BeginRead, Authenticate, Authorize, DbLock, DbRead, DbWrite,
                DbFault, Proxy, CacheWrite, Locked
  <2>2. CASE Forward(e.by)
    <3>1. /\ UNCHANGED <<msg, done>> /\ pc[e.by] = "forward"
          /\ at'[e.by] = at[e.by] + 1 /\ at[e.by] \in Nat
      BY <1>1, <2>2 DEF Forward, TypeOK
    <3>2. \/ pc'[e.by] = "reply" /\ reply'[e.by].code = 200
          \/ UNCHANGED <<pc, reply>>
      BY <1>1, <2>2 DEF Forward, Settle, GoTo, TypeOK
    <3> QED BY <1>1, <3>1, <3>2 DEF Behind
  <2>3. CASE Respond(e.by)
    <3>1. UNCHANGED <<msg, done, reply>> /\ pc'[e.by] = "done"
      BY <1>1, <2>3 DEF Respond, GoTo, TypeOK
    <3> QED BY <3>1 DEF Behind
  <2> QED BY <2>1, <2>2, <2>3
<1>4. CASE Main \/ Exit \/ Control \/ ForwarderStep \/ Ended \/ UNCHANGED vars
  <2>1. UNCHANGED <<reply, done, at>> /\ pc'[e.by] = pc[e.by] /\ msg'[e.by] = msg[e.by]
    BY <1>1, <1>4, OtherSteps DEF Behind
  <2> QED BY <2>1 DEF Behind
<1> QED BY <1>1, <1>2, <1>3, <1>4 DEF Next

\* What a step does to the channel.
LEMMA QueueStep ==
  ASSUME [Next]_vars
  PROVE  \/ fqueue' = fqueue
         \/ fqueue # << >> /\ fqueue' = Tail(fqueue)
         \/ fqueue' = << >>
         \/ \E r \in Reqs : /\ Forward(r) /\ Len(fqueue) < QueueCap
                            /\ fqueue' = Append(fqueue, Entry(r, at[r]))
<1>1. ASSUME NEW r \in Reqs, Work(r), ~Forward(r) PROVE fqueue' = fqueue
  BY <1>1 DEF Work, BeginRead, Authenticate, Authorize, DbLock, DbRead, DbWrite,
              DbFault, Proxy, CacheWrite, Respond
<1>2. ASSUME NEW r \in Reqs, Forward(r)
      PROVE  \/ fqueue' = fqueue
             \/ Len(fqueue) < QueueCap /\ fqueue' = Append(fqueue, Entry(r, at[r]))
  BY <1>2 DEF Forward
<1>3. CASE Main \/ Exit \/ Control \/ Ended \/ UNCHANGED vars
  BY <1>3 DEF Main, LoopTop, LoadPasswd, LoadAccess, SwapAuth, RecvTimeout, SocketFails,
              Receive, Acquire, Exit, Control, SetShutdown, SetReload, EditPasswd,
              EditAccess, Ended, vars
<1>4. CASE ForwarderStep
  BY <1>4 DEF ForwarderStep, ForwarderTakes, ForwarderEnds
<1> QED BY <1>1, <1>2, <1>3, <1>4 DEF Next

LEMMA TailOfQueue ==
  ASSUME NEW S, NEW queue \in Seq(S), queue # << >>
  PROVE  /\ Len(Tail(queue)) = Len(queue) - 1 /\ Len(queue) \in Nat
         /\ \A k \in 1..Len(Tail(queue)) : Tail(queue)[k] = queue[k + 1]
  BY HeadTailProperties, LenProperties

LEMMA EndOfQueue ==
  ASSUME NEW S, NEW queue \in Seq(S), NEW e \in S
  PROVE  /\ Len(Append(queue, e)) = Len(queue) + 1 /\ Len(queue) \in Nat
         /\ \A k \in 1..Len(queue) : Append(queue, e)[k] = queue[k]
         /\ Append(queue, e)[Len(queue) + 1] = e
  BY AppendProperties, LenProperties

\* A channel that is in turn and behind stays so as the next state's channel.
LEMMA QueueBecomes ==
  ASSUME NEW queue, Len(queue) \in Nat, Len(queue) <= QueueCap, InTurn(queue),
         \A k \in 1..Len(queue) : \A e : e = queue[k] => Behind(e)',
         fqueue' = queue
  PROVE  QueueInv'
<1>1. Len(fqueue') <= QueueCap /\ InTurn(fqueue')
  BY Zenon
<1>2. ASSUME NEW k \in 1..Len(fqueue') PROVE Behind(fqueue[k])'
  <2>1. k \in 1..Len(queue) /\ fqueue'[k] = queue[k]
    BY <1>2, Zenon
  <2> QED BY <2>1 DEF Behind
<1> QED BY <1>1, <1>2 DEF QueueInv, InTurn

LEMMA QueueInductive ==
  ASSUME IInv, SoundInv, QueueInv, [Next]_vars
  PROVE  QueueInv'
<1> USE DEF IInv
<1>1. /\ fqueue \in Seq(ForwardEntry) /\ Len(fqueue) \in Nat /\ QueueCap \in Nat
      /\ \A k \in 1..Len(fqueue) : fqueue[k] \in ForwardEntry
      /\ Len(fqueue) <= QueueCap /\ InTurn(fqueue)
  BY ServerAssumption, ElementOfSeq, LenProperties DEF TypeOK, QueueInv
<1>2. ASSUME NEW k \in 1..Len(fqueue), NEW e, e = fqueue[k]
      PROVE  Behind(e)' /\ e \in ForwardEntry
  BY <1>1, <1>2, BehindStep DEF QueueInv
<1>3. CASE fqueue' = fqueue
  BY <1>1, <1>2, <1>3, QueueBecomes
<1>4. CASE fqueue' = << >>
  <2>1. /\ Len(<< >>) = 0 /\ \A k \in 1..Len(<< >>) : FALSE
    OBVIOUS
  <2>2. 0 <= QueueCap /\ InTurn(<< >>)
    BY <1>1, <2>1 DEF InTurn
  <2> QED BY <1>4, <2>1, <2>2, QueueBecomes
<1>5. CASE fqueue # << >> /\ fqueue' = Tail(fqueue)
  <2> DEFINE rest == Tail(fqueue)
  <2>1. /\ Len(rest) = Len(fqueue) - 1 /\ fqueue' = rest
        /\ \A k \in 1..Len(rest) : rest[k] = fqueue[k + 1]
    BY <1>1, <1>5, TailOfQueue
  <2>2. Len(rest) \in Nat
    BY <1>1, <1>5, LenProperties, HeadTailProperties
  <2> HIDE DEF rest
  <2>3. ASSUME NEW k \in 1..Len(rest) PROVE k + 1 \in 1..Len(fqueue) /\ rest[k] = fqueue[k + 1]
    BY <1>1, <2>1, <2>2
  <2>4. InTurn(rest)
    <3> SUFFICES ASSUME NEW j \in 1..Len(rest), NEW k \in 1..Len(rest), j < k,
                        rest[j].by = rest[k].by
                 PROVE  rest[j].nth < rest[k].nth
      BY DEF InTurn
    <3>1. j + 1 < k + 1
      BY <2>2
    <3> QED BY <1>1, <2>3, <3>1 DEF InTurn
  <2>5. \A k \in 1..Len(rest) : \A e : e = rest[k] => Behind(e)'
    BY <1>2, <2>3
  <2> QED BY <1>1, <2>1, <2>2, <2>4, <2>5, QueueBecomes
<1>6. ASSUME NEW r \in Reqs, Forward(r), Len(fqueue) < QueueCap,
             fqueue' = Append(fqueue, Entry(r, at[r]))
      PROVE  QueueInv'
  <2>1. PICK last \in ForwardEntry : last = Entry(r, at[r])
    <3>1. at[r] \in 1..Len(msg[r].digests) /\ Len(msg[r].digests) \in Nat
      BY <1>6, Lengths DEF Forward, Indexed
    <3>2. Entry(r, at[r]) \in ForwardEntry
      BY <3>1, Lengths DEF Entry, ForwardEntry
    <3> QED BY <3>2, Zenon
  <2>2. last.by = r /\ last.nth = at[r]
    BY <2>1 DEF Entry
  <2> DEFINE longer == Append(fqueue, last)
  <2>3. /\ Len(longer) = Len(fqueue) + 1
        /\ \A k \in 1..Len(fqueue) : longer[k] = fqueue[k]
        /\ longer[Len(fqueue) + 1] = last
        /\ fqueue' = longer
    BY <1>1, <1>6, <2>1, EndOfQueue
  <2> HIDE DEF longer
  <2>4. /\ Len(longer) \in Nat /\ Len(longer) <= QueueCap
        /\ \A k \in 1..Len(longer) : k \in 1..Len(fqueue) \/ k = Len(fqueue) + 1
    BY <1>1, <1>6, <2>3
  <2>5. /\ pc[r] = "forward" /\ reply[r].code = 0 /\ done[r] = Len(msg[r].digests)
        /\ at[r] \in Nat
    BY <1>6 DEF Forward, SoundInv, Sound, TypeOK
  <2>6. Behind(last)'
    <3>1. UNCHANGED <<msg, done>> /\ at'[r] = at[r] + 1
      BY <1>6 DEF Forward, TypeOK
    <3>2. \/ pc'[r] = "reply" /\ reply'[r].code = 200
          \/ UNCHANGED <<pc, reply>>
      BY <1>6 DEF Forward, Settle, GoTo, TypeOK
    <3> QED BY <2>2, <2>5, <3>1, <3>2 DEF Behind
  <2>7. ASSUME NEW j \in 1..Len(fqueue), fqueue[j].by = r PROVE fqueue[j].nth < last.nth
    BY <2>2, <2>5, <2>7 DEF QueueInv, Behind
  <2>8. InTurn(longer)
    <3> SUFFICES ASSUME NEW j \in 1..Len(longer), NEW k \in 1..Len(longer), j < k,
                        longer[j].by = longer[k].by
                 PROVE  longer[j].nth < longer[k].nth
      BY DEF InTurn
    <3>1. j \in 1..Len(fqueue)
      BY <1>1, <2>3, <2>4
    <3>2. CASE k \in 1..Len(fqueue)
      BY <1>1, <2>3, <3>1, <3>2 DEF InTurn
    <3>3. CASE k = Len(fqueue) + 1
      BY <2>2, <2>3, <2>7, <3>1, <3>3
    <3> QED BY <2>4, <3>2, <3>3
  <2>9. \A k \in 1..Len(longer) : \A e : e = longer[k] => Behind(e)'
    BY <1>2, <2>3, <2>4, <2>6
  <2> QED BY <2>3, <2>4, <2>8, <2>9, QueueBecomes
<1> QED BY <1>3, <1>4, <1>5, <1>6, QueueStep

\* What is queued for the remote servers has been counted, the digests of a
\* request are queued in their order and once, and the channel stays within its
\* capacity (queue_forward_request, after DigestDatabase::report).
THEOREM ForwardSafe == Spec => []ForwardedOnceWritten
<1>1. Init => QueueInv
  <2> SUFFICES ASSUME Init PROVE QueueInv
    OBVIOUS
  <2>1. fqueue = << >> /\ Len(<< >>) = 0
    BY DEF Init
  <2> QED BY <2>1, ServerAssumption DEF QueueInv, InTurn
<1>2. IInv /\ SoundInv /\ QueueInv /\ [Next]_vars => QueueInv'
  BY QueueInductive
<1>3. IInv /\ QueueInv => ForwardedOnceWritten
  <2> SUFFICES ASSUME IInv, QueueInv PROVE ForwardedOnceWritten
    OBVIOUS
  <2>1. Len(fqueue) \in Nat
    BY LenProperties DEF IInv, TypeOK
  <2>2. ASSUME NEW k \in 1..Len(fqueue), NEW j \in 1..(k - 1)
        PROVE  j \in 1..Len(fqueue) /\ j < k
    BY <2>1
  <2> QED BY <2>2 DEF QueueInv, Behind, InTurn, ForwardedOnceWritten
<1> QED BY <1>1, <1>2, <1>3, SoundAlways, PTL DEF Spec
-----------------------------------------------------------------------------
(* The ledger.  With proxy sources and worker threads it is not implemented: a *)
(* cached answer may overwrite what was counted since the check read.          *)

FromUpstream(rec) ==
    \E a \in Upstream \ {NoAnswer}, now \in Clock : HasMatch(a) /\ rec = ProxyRecord(a, now)

\* What a check that missed has read is still in the database while it asks the
\* sources and caches their answer.
StillMissing(r) ==
    /\ pc[r] = "proxy" => tmp[r] = store[Current(r)] /\ ~HasMatch(tmp[r])
    /\ pc[r] \in {"cachelock", "cachewrite"}
        => ~HasMatch(store[Current(r)]) /\ FromUpstream(tmp[r])

MissingInv == \A r \in Reqs : StillMissing(r)

Undisturbed == NumSources = 0 \/ ~Threads

LEMMA MissingStep ==
  ASSUME IInv, NEW r \in Reqs, StillMissing(r), Work(r)
  PROVE  StillMissing(r)'
<1> USE DEF IInv
<1>1. ASSUME NEW l, GoTo(r, l) PROVE pc'[r] = l
  BY <1>1 DEF GoTo, TypeOK
<1>2. ASSUME NEW code, NEW rec, Settle(r, code, rec) PROVE pc'[r] = "reply"
  BY <1>1, <1>2 DEF Settle
<1>3. CASE BeginRead(r) \/ Authenticate(r) \/ Authorize(r) \/ Respond(r)
  BY <1>1, <1>2, <1>3 DEF BeginRead, Authenticate, Authorize, Respond, StillMissing
<1>4. CASE DbWrite(r) \/ DbFault(r) \/ CacheWrite(r)
  BY <1>1, <1>2, <1>4 DEF DbWrite, DbFault, CacheWrite, StillMissing
<1>5. CASE DbLock(r)
  <2>1. UNCHANGED <<msg, done, tmp, store>>
    BY <1>5 DEF DbLock
  <2>2. \/ pc'[r] \in {"reply", "read"}
        \/ pc'[r] = "cachewrite" /\ pc[r] = "cachelock"
    BY <1>1, <1>2, <1>5 DEF DbLock
  <2> QED BY <2>1, <2>2 DEF StillMissing, Current
<1>6. CASE DbRead(r)
  <2>1. UNCHANGED <<msg, done, store>> /\ tmp'[r] = store[Current(r)]
    BY <1>6 DEF DbRead, TypeOK
  <2>2. \/ pc'[r] \in {"reply", "write"}
        \/ pc'[r] = "proxy" /\ ~HasMatch(store[Current(r)])
    BY <1>1, <1>2, <1>6 DEF DbRead, Missed
  <2>3. Current(r)' = Current(r)
    BY <2>1 DEF Current
  <2> QED BY <2>1, <2>2, <2>3 DEF StillMissing
<1>7. CASE Proxy(r)
  <2>1. UNCHANGED <<msg, done, store>> /\ pc[r] = "proxy"
    BY <1>7 DEF Proxy
  <2>2. Current(r)' = Current(r)
    BY <2>1 DEF Current
  <2>3. CASE ProxyMiss(r)
    <3>1. tmp' = tmp /\ pc'[r] \in {"reply", "proxy"}
      BY <1>2, <2>1, <2>3 DEF ProxyMiss
    <3> QED BY <2>1, <2>2, <3>1 DEF StillMissing
  <2>4. CASE ProxyHit(r)
    <3>1. pc'[r] = "cachelock"
      BY <1>1, <2>4 DEF ProxyHit
    <3>2. PICK answer \in Upstream, now \in Clock :
            Positive(answer) /\ tmp' = [tmp EXCEPT ![r] = ProxyRecord(answer, now)]
      BY <2>4 DEF ProxyHit
    <3>3. FromUpstream(ProxyRecord(answer, now))
      BY <3>2 DEF FromUpstream, Positive
    <3>4. tmp'[r] = ProxyRecord(answer, now)
      BY <3>2 DEF TypeOK
    <3>5. FromUpstream(tmp'[r])
      BY <3>3, <3>4, Zenon
    <3> QED BY <2>1, <2>2, <3>1, <3>5 DEF StillMissing
  <2> QED BY <1>7, <2>3, <2>4 DEF Proxy
<1>8. CASE Forward(r)
  <2>1. pc'[r] \in {"reply", "forward"}
    BY <1>2, <1>8 DEF Forward
  <2> QED BY <2>1 DEF StillMissing
<1> QED BY <1>3, <1>4, <1>5, <1>6, <1>7, <1>8 DEF Work

LEMMA MissingInductive ==
  ASSUME Undisturbed, IInv, InlineAlone, SoundInv, SoundInv', MissingInv, [Next]_vars
  PROVE  MissingInv'
<1> USE DEF IInv
<1>1. CASE NumSources = 0
  <2>1. \A r \in Reqs : pc'[r] \notin {"proxy", "cachelock", "cachewrite"}
    BY <1>1 DEF SoundInv, Sound
  <2> QED BY <2>1 DEF MissingInv, StillMissing
<1>2. ASSUME ~Threads, NEW r \in Reqs, Work(r) PROVE MissingInv'
  <2>1. \A s \in Reqs \ {r} : pc'[s] \in Idle
    BY <1>2, WorkerPlace, OnlyItself DEF InlineAlone
  <2>2. \A s \in Reqs \ {r} : StillMissing(s)'
    BY <2>1 DEF StillMissing, Idle
  <2> QED BY <1>2, <2>2, MissingStep DEF MissingInv
<1>3. CASE Main \/ Exit \/ Control \/ ForwarderStep \/ Ended \/ UNCHANGED vars
  <2> SUFFICES ASSUME NEW s \in Reqs PROVE StillMissing(s)'
    BY DEF MissingInv
  <2>1. UNCHANGED <<done, tmp, store>>
    BY <1>3, OtherSteps
  <2>2. \/ pc'[s] = pc[s] /\ msg'[s] = msg[s]
        \/ pc'[s] \in {"accepted", "spawned"}
    BY <1>3, OtherSteps
  <2> QED BY <2>1, <2>2 DEF MissingInv, StillMissing, Current
<1> QED BY <1>1, <1>2, <1>3 DEF Next, Undisturbed
\* The ledger's records are the server's.
LEMMA SameRecords ==
  /\ L!Blank = Blank /\ L!Updates = Updates
  /\ \A c : L!HasMatch(c) <=> HasMatch(c)
  /\ \A rec, now : /\ L!RIncrement(rec, now) = RIncrement(rec, now)
                   /\ L!WlIncrement(rec, now) = WlIncrement(rec, now)
                   /\ L!ProxyRecord(rec, now) = ProxyRecord(rec, now)
  BY DEF L!Blank, Blank, L!Updates, L!HasMatch, HasMatch, L!RIncrement, RIncrement,
         L!WlIncrement, WlIncrement, L!Bump, Bump, L!FirstTime, FirstTime,
         L!ProxyRecord, ProxyRecord, L!ProxyTime, ProxyTime

\* The phase of a request is a function of its place.
LEMMA PhaseIs ==
  ASSUME NEW r \in Reqs
  PROVE  /\ Phase[r] = IF pc[r] = "new" THEN "idle"
                       ELSE IF pc[r] = "done" THEN "answered" ELSE "open"
         /\ Phase'[r] = IF pc'[r] = "new" THEN "idle"
                        ELSE IF pc'[r] = "done" THEN "answered" ELSE "open"
  BY DEF Phase

LEMMA PhaseKept ==
  ASSUME \A s \in Reqs : \/ pc'[s] = pc[s]
                         \/ pc[s] \notin {"new", "done"} /\ pc'[s] \notin {"new", "done"}
  PROVE  Phase' = Phase
  BY DEF Phase

LEMMA PhaseMoves ==
  ASSUME NEW r \in Reqs, \A s \in Reqs \ {r} : pc'[s] = pc[s],
         NEW p, p = IF pc'[r] = "new" THEN "idle"
                    ELSE IF pc'[r] = "done" THEN "answered" ELSE "open"
  PROVE  Phase' = [Phase EXCEPT ![r] = p]
  BY DEF Phase

\* A step of a worker but the last leaves its request open.
LEMMA OpenStep ==
  ASSUME TypeOK, NEW r \in Reqs, Work(r), ~Respond(r)
  PROVE  Phase' = Phase /\ Phase[r] = "open" /\ msg' = msg
<1>1. /\ pc[r] \notin {"new", "done"} /\ pc'[r] \notin {"new", "done"}
      /\ \A s \in Reqs \ {r} : pc'[s] = pc[s]
  BY WorkerPlace, OnlyItself DEF Queued, Serving, Locked
<1>2. msg' = msg
  BY DEF Work, BeginRead, Authenticate, Authorize, DbLock, DbRead, DbWrite, DbFault,
         Proxy, CacheWrite, Forward
<1> QED BY <1>1, <1>2, PhaseKept, PhaseIs

\* What is left of a step is one of the ledger's or nothing.
Accounted == L!LNext \/ UNCHANGED L!lvars

LEMMA RequestAccounted ==
  ASSUME IInv, NEW r \in Reqs, Sound(r), BeginRead(r) \/ Authenticate(r) \/ Authorize(r)
  PROVE  Accounted
<1> USE DEF IInv
<1>1. /\ Phase' = Phase /\ Phase[r] = "open" /\ msg' = msg
      /\ done[r] = 0 /\ reply[r].code = 0 /\ UNCHANGED <<done, store>>
  <2>1. Work(r) /\ ~Respond(r)
    BY DEF Work, BeginRead, Authenticate, Authorize, Respond
  <2> QED BY <2>1, OpenStep
      DEF BeginRead, Authenticate, Authorize, Indexed, Sound
<1>2. CASE UNCHANGED reply
  BY <1>1, <1>2 DEF Accounted, L!lvars
<1>3. ASSUME NEW code \in {400, 401, 403, 501, 505}, Settle(r, code, Blank) PROVE Accounted
  <2>1. L!Decide(r, code, L!Blank)
    BY <1>3, SameRecords, Zenon DEF L!Decide, Settle
  <2>2. L!Undecided(r) /\ UNCHANGED <<msg, Phase, done, store>>
    BY <1>1 DEF L!Undecided
  <2>3. L!Plain(r)
    BY <1>1, <2>1, <2>2 DEF L!Plain
  <2> QED BY <2>3 DEF Accounted, L!LNext
<1>4. ASSUME \/ msg[r].op \in {"ping", "pong"}
             \/ msg[r].digests = << >>,
             NEW rec \in {Blank, [Blank EXCEPT !.r_count = MaxCount]}, Settle(r, 200, rec)
      PROVE  Accounted
  <2>1. L!Decide(r, 200, rec)
    BY <1>4, Zenon DEF L!Decide, Settle
  <2>2. L!Undecided(r) /\ UNCHANGED <<msg, Phase, done, store>>
    BY <1>1 DEF L!Undecided
  <2>3. rec \in {L!Blank, [L!Blank EXCEPT !.r_count = MaxCount]}
    BY <1>4, SameRecords, Zenon
  <2>4. L!Plain(r)
    BY <1>1, <1>4, <2>1, <2>2, <2>3, Zenon DEF L!Plain
  <2> QED BY <2>4 DEF Accounted, L!LNext
<1>5. CASE BeginRead(r)
  BY <1>2, <1>5 DEF BeginRead
<1>6. CASE Authenticate(r)
  BY <1>2, <1>3, <1>6 DEF Authenticate
<1>7. CASE Authorize(r)
  BY <1>2, <1>3, <1>4, <1>7 DEF Authorize
<1> QED BY <1>5, <1>6, <1>7

\* Before the answer is decided, a failure is always possible.
LEMMA FailAccounted ==
  ASSUME NEW r \in Reqs, UNCHANGED <<msg, done, store>>, Phase' = Phase,
         Phase[r] = "open", reply[r].code = 0, Settle(r, 500, Blank)
  PROVE  Accounted
<1>1. L!Fail(r)
  BY SameRecords DEF L!Fail, L!Undecided, L!Decide, Settle
<1> QED BY <1>1 DEF Accounted, L!LNext

\* The answer to a check or an info is the record as it is now.
LEMMA AnswerAccounted ==
  ASSUME NEW r \in Reqs, UNCHANGED <<msg, done, store>>, Phase' = Phase,
         Phase[r] = "open", reply[r].code = 0, done[r] = 0, msg[r].op \in {"check", "info"},
         NEW rec, rec = store[Current(r)], Settle(r, 200, Shown(msg[r].op, rec))
  PROVE  Accounted
<1>1. Current(r) = msg[r].digests[1]
  BY DEF Current
<1>2. L!LookUp(r)
  BY <1>1, SameRecords DEF L!LookUp, L!Undecided, L!Decide, L!Answers, Settle, Shown
<1> QED BY <1>2 DEF Accounted, L!LNext

\* A write between get and set is an atomic increment, since nobody else has
\* written since the read.
LEMMA CountAccounted ==
  ASSUME NEW r \in Reqs, msg' = msg, Phase' = Phase, Phase[r] = "open", reply[r].code = 0,
         msg[r].op \in Updates, done[r] < Len(msg[r].digests), Written(r),
         NEW now \in Clock, NEW rec, rec = store[Current(r)],
         Put(r, Incremented(msg[r].op, rec, now)),
         \/ UNCHANGED reply
         \/ Settle(r, 500, Blank)
         \/ done[r] + 1 = Len(msg[r].digests) /\ Settle(r, 200, Blank)
  PROVE  Accounted
<1>1. store' = [store EXCEPT ![msg[r].digests[done[r] + 1]] =
                  IF msg[r].op = "report" THEN L!RIncrement(@, now) ELSE L!WlIncrement(@, now)]
  BY SameRecords, Zenon DEF Put, Current, Incremented
<1>2. \/ UNCHANGED reply
      \/ L!Decide(r, 500, L!Blank)
      \/ done[r] + 1 = Len(msg[r].digests) /\ L!Decide(r, 200, L!Blank)
  BY SameRecords, Zenon DEF Settle, L!Decide
<1>3. L!Undecided(r) /\ UNCHANGED <<msg, Phase>> /\ msg[r].op \in L!Updates
  BY SameRecords DEF L!Undecided
<1>4. done' = [done EXCEPT ![r] = @ + 1]
  BY DEF Written
<1>5. L!Count(r)
  BY <1>1, <1>2, <1>3, <1>4, Zenon DEF L!Count
<1> QED BY <1>5 DEF Accounted, L!LNext

\* A cached answer fills a record that has no match.
LEMMA FillAccounted ==
  ASSUME NEW r \in Reqs, UNCHANGED <<msg, done>>, Phase' = Phase,
         Phase[r] = "open", reply[r].code = 0, done[r] = 0, msg[r].op = "check",
         ~HasMatch(store[Current(r)]), NEW rec, FromUpstream(rec), Put(r, rec),
         Settle(r, 200, Shown("check", rec)) \/ Settle(r, 500, Blank)
  PROVE  Accounted
<1>1. PICK a \in Upstream \ {NoAnswer}, now \in Clock :
        HasMatch(a) /\ rec = ProxyRecord(a, now)
  BY DEF FromUpstream
<1>2. Current(r) = msg[r].digests[1]
  BY DEF Current
<1>3. /\ ~L!HasMatch(store[msg[r].digests[1]]) /\ L!HasMatch(a)
      /\ store' = [store EXCEPT ![msg[r].digests[1]] = L!ProxyRecord(a, now)]
  BY <1>1, <1>2, SameRecords, Zenon DEF Put
<1>4. L!Answers(r, L!ProxyRecord(a, now)) \/ L!Decide(r, 500, L!Blank)
  <2>1. L!ProxyRecord(a, now) = rec
    BY <1>1, SameRecords, Zenon
  <2>2. Settle(r, 200, Shown("check", rec)) => L!Answers(r, rec)
    BY SameRecords DEF Shown, Settle, L!Answers, L!Decide
  <2>3. Settle(r, 500, Blank) => L!Decide(r, 500, L!Blank)
    BY SameRecords, Zenon DEF Settle, L!Decide
  <2> QED BY <2>1, <2>2, <2>3, Zenon
<1>5. L!Undecided(r) /\ UNCHANGED <<msg, Phase, done>>
  BY DEF L!Undecided
<1>6. L!Fill(r)
  BY <1>1, <1>3, <1>4, <1>5, Zenon DEF L!Fill
<1> QED BY <1>6 DEF Accounted, L!LNext

LEMMA DatabaseAccounted ==
  ASSUME IInv, NEW r \in Reqs, Sound(r), StillMissing(r),
         DbLock(r) \/ DbRead(r) \/ DbWrite(r) \/ DbFault(r) \/ CacheWrite(r)
  PROVE  Accounted
<1> USE DEF IInv
<1>1. /\ Phase' = Phase /\ Phase[r] = "open" /\ msg' = msg /\ reply[r].code = 0
      /\ pc[r] \in Locked \cup {"lock", "cachelock"}
  <2>1. Work(r) /\ ~Respond(r) /\ pc[r] \in Locked \cup {"lock", "cachelock"}
    BY DEF Work, DbLock, DbRead, DbWrite, DbFault, CacheWrite, Locked, Respond
  <2> QED BY <2>1, OpenStep DEF Sound, Locked
<1>2. CASE UNCHANGED <<reply, done, store>>
  BY <1>1, <1>2 DEF Accounted, L!lvars
<1>3. CASE UNCHANGED <<done, store>> /\ Settle(r, 500, Blank)
  BY <1>1, <1>3, FailAccounted
<1>4. CASE DbLock(r)
  BY <1>2, <1>3, <1>4 DEF DbLock
<1>5. CASE DbRead(r)
  <2>1. UNCHANGED <<done, store>> /\ pc[r] = "read"
    BY <1>5 DEF DbRead
  <2>2. \/ UNCHANGED reply
        \/ msg[r].op \notin Updates /\ Settle(r, 200, Shown(msg[r].op, store[Current(r)]))
    BY <1>5, Zenon DEF DbRead
  <2>3. msg[r].op \notin Updates => done[r] = 0 /\ msg[r].op \in {"check", "info"}
    BY <2>1 DEF Indexed, Sound
  <2> QED BY <1>1, <1>2, <2>1, <2>2, <2>3, AnswerAccounted
<1>6. CASE DbWrite(r)
  <2>1. /\ pc[r] = "write" /\ tmp[r] = store[Current(r)] /\ msg[r].op \in Updates
        /\ done[r] < Len(msg[r].digests)
    BY <1>6 DEF DbWrite, Indexed, Sound
  <2>2. PICK now \in Clock : Put(r, Incremented(msg[r].op, tmp[r], now))
    BY <1>6 DEF DbWrite
  <2>3. Written(r) /\ (\/ UNCHANGED reply
                       \/ LastDigest(r) /\ Settle(r, 200, Blank))
    BY <1>6, Zenon DEF DbWrite
  <2> QED BY <1>1, <2>1, <2>2, <2>3, CountAccounted DEF LastDigest
<1>7. CASE CacheWrite(r)
  <2>1. /\ pc[r] = "cachewrite" /\ msg[r].op = "check" /\ done[r] = 0
        /\ ~HasMatch(store[Current(r)]) /\ FromUpstream(tmp[r])
    BY <1>7 DEF CacheWrite, Indexed, StillMissing
  <2>2. Put(r, tmp[r]) /\ Settle(r, 200, Shown("check", tmp[r])) /\ UNCHANGED done
    BY <1>7 DEF CacheWrite
  <2> QED BY <1>1, <2>1, <2>2, FillAccounted
<1>8. CASE DbFault(r)
  <2>1. Settle(r, 500, Blank)
    BY <1>8 DEF DbFault
  <2>2. \/ UNCHANGED <<store, done>>
        \/ /\ pc[r] = "write" /\ Written(r)
           /\ \E now \in Clock : Put(r, Incremented(msg[r].op, tmp[r], now))
        \/ pc[r] = "cachewrite" /\ Put(r, tmp[r]) /\ UNCHANGED done
    BY <1>8, Zenon DEF DbFault
  <2>3. ASSUME NEW now \in Clock, pc[r] = "write", Written(r),
               Put(r, Incremented(msg[r].op, tmp[r], now))
        PROVE  Accounted
    <3>1. /\ tmp[r] = store[Current(r)] /\ msg[r].op \in Updates
          /\ done[r] < Len(msg[r].digests)
      BY <2>3 DEF Indexed, Sound
    <3> QED BY <1>1, <2>1, <2>3, <3>1, CountAccounted
  <2>4. CASE pc[r] = "cachewrite" /\ Put(r, tmp[r]) /\ UNCHANGED done
    <3>1. /\ msg[r].op = "check" /\ done[r] = 0
          /\ ~HasMatch(store[Current(r)]) /\ FromUpstream(tmp[r])
      BY <2>4 DEF Indexed, StillMissing
    <3> QED BY <1>1, <2>1, <2>4, <3>1, FillAccounted
  <2> QED BY <1>3, <2>1, <2>2, <2>3, <2>4
<1> QED BY <1>4, <1>5, <1>6, <1>7, <1>8

LEMMA OutsideAccounted ==
  ASSUME IInv, NEW r \in Reqs, Sound(r), StillMissing(r), Proxy(r) \/ Forward(r) \/ Respond(r)
  PROVE  Accounted
<1> USE DEF IInv
<1>1. CASE Proxy(r)
  <2>1. /\ Phase' = Phase /\ Phase[r] = "open" /\ msg' = msg /\ reply[r].code = 0
        /\ pc[r] = "proxy" /\ UNCHANGED <<done, store>>
    <3>1. Work(r) /\ ~Respond(r) /\ pc[r] = "proxy"
      BY <1>1 DEF Work, Proxy, Respond
    <3> QED BY <1>1, <3>1, OpenStep DEF Sound, Proxy
  <2>2. UNCHANGED reply \/ Settle(r, 200, Shown("check", tmp[r]))
    BY <1>1, Zenon DEF Proxy, ProxyHit, ProxyMiss
  <2>3. msg[r].op = "check" /\ done[r] = 0 /\ tmp[r] = store[Current(r)]
    BY <2>1 DEF Indexed, StillMissing
  <2>4. CASE UNCHANGED reply
    BY <2>1, <2>4 DEF Accounted, L!lvars
  <2> QED BY <2>1, <2>2, <2>3, <2>4, AnswerAccounted
<1>2. CASE Forward(r)
  <2>1. /\ Phase' = Phase /\ Phase[r] = "open" /\ msg' = msg /\ reply[r].code = 0
        /\ msg[r].op \in Updates /\ done[r] = Len(msg[r].digests) /\ UNCHANGED <<done, store>>
    <3>1. Work(r) /\ ~Respond(r) /\ pc[r] = "forward"
      BY <1>2 DEF Work, Forward, Respond
    <3> QED BY <1>2, <3>1, OpenStep DEF Sound, Forward
  <2>2. UNCHANGED reply \/ Settle(r, 200, Blank)
    BY <1>2, Zenon DEF Forward
  <2>3. CASE UNCHANGED reply
    BY <2>1, <2>3 DEF Accounted, L!lvars
  <2>4. CASE Settle(r, 200, Blank)
    <3>1. L!Confirm(r)
      BY <2>1, <2>4, SameRecords, Zenon DEF L!Confirm, L!Undecided, L!Decide, Settle
    <3> QED BY <3>1 DEF Accounted, L!LNext
  <2> QED BY <2>2, <2>3, <2>4
<1>3. CASE Respond(r)
  <2>1. /\ pc[r] = "reply" /\ pc'[r] = "done" /\ reply[r].code # 0
        /\ UNCHANGED <<msg, reply, done, store>> /\ \A s \in Reqs \ {r} : pc'[s] = pc[s]
    BY <1>3 DEF Respond, GoTo, TypeOK, Sound
  <2>2. Phase[r] = "open" /\ Phase' = [Phase EXCEPT ![r] = "answered"]
    BY <2>1, PhaseIs, PhaseMoves
  <2>3. L!Answer(r)
    BY <2>1, <2>2 DEF L!Answer
  <2> QED BY <2>3 DEF Accounted, L!LNext
<1> QED BY <1>1, <1>2, <1>3

LEMMA OthersAccounted ==
  ASSUME IInv, Main \/ Exit \/ Control \/ ForwarderStep \/ Ended \/ UNCHANGED vars
  PROVE  Accounted
<1> USE DEF IInv
<1>1. UNCHANGED <<reply, done, store>>
  BY OtherSteps
<1>2. CASE UNCHANGED <<pc, msg>>
  <2>1. Phase' = Phase
    BY <1>2, PhaseKept
  <2> QED BY <1>1, <1>2, <2>1 DEF Accounted, L!lvars
<1>3. ASSUME NEW r \in Reqs, Receive(r), pc[r] = "new", pc'[r] \in {"accepted", "spawned"},
             \A s \in Reqs \ {r} : pc'[s] = pc[s]
      PROVE  Accounted
  <2>1. Phase[r] = "idle" /\ Phase' = [Phase EXCEPT ![r] = "open"]
    BY <1>3, PhaseIs, PhaseMoves
  <2>2. L!Open(r)
    BY <1>1, <1>3, <2>1 DEF L!Open, Receive
  <2> QED BY <2>2 DEF Accounted, L!LNext
<1>4. ASSUME NEW r \in Reqs, pc[r] = "accepted", pc' = [pc EXCEPT ![r] = "spawned"], msg' = msg
      PROVE  Accounted
  <2>1. Phase' = Phase
    BY <1>4, PhaseKept DEF TypeOK
  <2> QED BY <1>1, <1>4, <2>1 DEF Accounted, L!lvars
<1> QED BY <1>2, <1>3, <1>4, OtherSteps

LEMMA StepAccounted ==
  ASSUME IInv, SoundInv, MissingInv, [Next]_vars
  PROVE  Accounted
<1>1. ASSUME NEW r \in Reqs, Work(r) PROVE Accounted
  <2>1. Sound(r) /\ StillMissing(r)
    BY DEF SoundInv, MissingInv
  <2> QED BY <1>1, <2>1, RequestAccounted, DatabaseAccounted, OutsideAccounted DEF Work
<1> QED BY <1>1, OthersAccounted DEF Next

LEMMA MissingAlways ==
  Undisturbed => (Spec => [](IInv /\ MutexHeldInSection /\ SoundInv /\ MissingInv))
<1> SUFFICES ASSUME Undisturbed PROVE Spec => [](IInv /\ MutexHeldInSection /\ SoundInv /\ MissingInv)
  OBVIOUS
<1>1. Init => MissingInv /\ InlineAlone
  BY DEF Init, MissingInv, StillMissing, InlineAlone, Queued, Serving, Locked
<1>2. Spec => []InlineAlone
  <2>1. Spec => []IInv
    BY InitInv, StepInv, PTL DEF Spec
  <2> QED BY <1>1, <2>1, InlineInductive, PTL DEF Spec
<1>3. IInv /\ InlineAlone /\ SoundInv /\ SoundInv' /\ MissingInv /\ [Next]_vars => MissingInv'
  BY MissingInductive
<1> QED BY <1>1, <1>2, <1>3, SoundAlways, PTL DEF Spec

\* The server implements the ledger: every interleaving of workers, reloads,
\* faults and signals is one of atomic increments, look-ups at one moment and
\* fills of records without a match.  It does so without proxy sources, or when
\* the main thread answers one request at a time; with both threads and sources
\* it does not (ProxyOverwrite).
THEOREM LedgerSafe == NumSources = 0 \/ ~Threads => (Spec => RefinesLedger)
<1> SUFFICES ASSUME Undisturbed PROVE Spec => RefinesLedger
  BY DEF Undisturbed
<1>1. Init => L!LInit
  <2> SUFFICES ASSUME Init PROVE L!LInit
    OBVIOUS
  <2>1. Phase = [r \in Reqs |-> "idle"]
    BY DEF Init, Phase
  <2> QED BY <2>1, SameRecords DEF Init, L!LInit, NoReply
<1>2. IInv /\ SoundInv /\ MissingInv /\ [Next]_vars => [L!LNext]_(L!lvars)
  BY StepAccounted DEF Accounted
<1> QED BY <1>1, <1>2, MissingAlways, PTL DEF Spec, RefinesLedger, L!LSpec
-----------------------------------------------------------------------------
(* What is acknowledged stays counted.                                         *)

\* The writes of an operation to a digest, acknowledged or not.
Writes(op, d) == WritesOf(op, d, FALSE)

Covered(count, writes) ==
    IsFiniteSet(writes) /\ count >= 0 /\ AtLeastCounted(count, writes)

CountedInv ==
    \A d \in Digests : /\ Covered(store[d].r_count, Writes("report", d))
                       /\ Covered(store[d].wl_count, Writes("whitelist", d))

\* No upstream server answers with a negative count.
UpstreamCounts ==
    \A a \in Upstream \ {NoAnswer} : a.r_count >= 0 /\ a.wl_count >= 0

LEMMA WriteSet ==
  ASSUME NEW op, NEW d, NEW w
  PROVE  /\ w \in Writes(op, d) <=>
              \E r \in Reqs : \E n \in 1..done[r] :
                 w = <<r, n>> /\ msg[r].op = op /\ msg[r].digests[n] = d
         /\ w \in Writes(op, d)' <=>
              \E r \in Reqs : \E n \in 1..done'[r] :
                 w = <<r, n>> /\ msg'[r].op = op /\ msg'[r].digests[n] = d
  BY DEF Writes, WritesOf

LEMMA WritesSame ==
  ASSUME NEW op, NEW d, done' = done,
         \A r \in Reqs : msg'[r] = msg[r] \/ done[r] = 0
  PROVE  Writes(op, d)' = Writes(op, d)
<1>1. ASSUME NEW w PROVE w \in Writes(op, d)' <=> w \in Writes(op, d)
  <2>1. ASSUME NEW r \in Reqs, NEW n \in 1..done[r] PROVE msg'[r] = msg[r]
    <3>1. 1..0 = {}
      OBVIOUS
    <3> QED BY <2>1, <3>1
  <2> QED BY <2>1, WriteSet
<1> QED BY <1>1

\* A write adds one to the writes of its operation to its digest alone.
LEMMA WritesGrow ==
  ASSUME NEW r \in Reqs, msg' = msg, done \in [Reqs -> Nat],
         done' = [done EXCEPT ![r] = @ + 1], NEW op, NEW d
  PROVE  /\ msg[r].op = op /\ d = Current(r)
              => /\ <<r, done[r] + 1>> \notin Writes(op, d)
                 /\ Writes(op, d)' = Writes(op, d) \cup {<<r, done[r] + 1>>}
         /\ msg[r].op # op \/ d # Current(r) => Writes(op, d)' = Writes(op, d)
<1>1. ASSUME NEW q \in Reqs, NEW n
      PROVE  n \in 1..done'[q] <=> n \in 1..done[q] \/ (q = r /\ n = done[r] + 1)
  BY <1>1
<1>2. ASSUME NEW w
      PROVE  w \in Writes(op, d)' <=>
               \/ w \in Writes(op, d)
               \/ w = <<r, done[r] + 1>> /\ msg[r].op = op /\ d = Current(r)
  <2>1. w \in Writes(op, d) <=>
          \E q \in Reqs : \E n \in 1..done[q] :
             w = <<q, n>> /\ msg[q].op = op /\ msg[q].digests[n] = d
    BY WriteSet
  <2>2. w \in Writes(op, d)' <=>
          \E q \in Reqs : \E n \in 1..done'[q] :
             w = <<q, n>> /\ msg[q].op = op /\ msg[q].digests[n] = d
    BY WriteSet
  <2>3. msg[r].digests[done[r] + 1] = Current(r)
    BY DEF Current
  <2> QED BY <1>1, <2>1, <2>2, <2>3
<1>3. <<r, done[r] + 1>> \notin Writes(op, d)
  <2>1. ASSUME NEW q \in Reqs, NEW n \in 1..done[q] PROVE <<r, done[r] + 1>> # <<q, n>>
    <3>1. q = r => n # done[r] + 1
      OBVIOUS
    <3> QED BY <3>1
  <2> QED BY <2>1, WriteSet
<1> QED BY <1>2, <1>3

LEMMA CoveredBump ==
  ASSUME NEW count \in Int, NEW writes, Covered(count, writes), NEW w, w \notin writes
  PROVE  Covered(Bump(count), writes \cup {w})
<1>1. /\ IsFiniteSet(writes \cup {w}) /\ Cardinality(writes \cup {w}) = Cardinality(writes) + 1
      /\ Cardinality(writes) \in Nat
  BY FS_AddElement, FS_CardinalityType DEF Covered
<1> QED BY <1>1, RecordsAssumption DEF Covered, AtLeastCounted, Bump

LEMMA CoveredFill ==
  ASSUME NEW count \in Int, NEW writes, Covered(count, writes), ~(count > 0),
         NEW other \in Int, other >= 0
  PROVE  Covered(other, writes)
<1>1. Cardinality(writes) \in Nat
  BY FS_CardinalityType DEF Covered
<1> QED BY <1>1, RecordsAssumption DEF Covered, AtLeastCounted

LEMMA CountKeeps ==
  ASSUME IInv, CountedInv, NEW r \in Reqs, L!Count(r)
  PROVE  CountedInv'
<1> USE DEF IInv
<1>1. /\ msg' = msg /\ done \in [Reqs -> Nat] /\ done' = [done EXCEPT ![r] = @ + 1]
      /\ msg[r].op \in Updates
  BY SameRecords DEF L!Count, TypeOK
<1> DEFINE c == Current(r)
<1>2. PICK now \in Clock :
        store' = [store EXCEPT ![c] = Incremented(msg[r].op, store[c], now)]
  BY SameRecords DEF L!Count, Current, Incremented
<1> SUFFICES ASSUME NEW d \in Digests
             PROVE  /\ Covered(store'[d].r_count, Writes("report", d)')
                    /\ Covered(store'[d].wl_count, Writes("whitelist", d)')
  BY DEF CountedInv
<1> HIDE DEF c
<1>3. /\ Covered(store[d].r_count, Writes("report", d))
      /\ Covered(store[d].wl_count, Writes("whitelist", d))
      /\ store[d] \in Record /\ store[d].r_count \in Int /\ store[d].wl_count \in Int
  BY DEF CountedInv, TypeOK, Record, Counts
<1>4. CASE d # c
  <2>1. store'[d] = store[d]
    BY <1>2, <1>4 DEF TypeOK
  <2>2. Writes("report", d)' = Writes("report", d) /\ Writes("whitelist", d)' = Writes("whitelist", d)
    BY <1>1, <1>4, WritesGrow, ZenonT(60) DEF c
  <2> QED BY <1>3, <2>1, <2>2
<1>5. CASE d = c /\ msg[r].op = "report"
  <2>1. /\ store'[d].r_count = Bump(store[d].r_count)
        /\ store'[d].wl_count = store[d].wl_count
    BY <1>2, <1>3, <1>5 DEF TypeOK, Incremented, RIncrement, Record
  <2>2. /\ <<r, done[r] + 1>> \notin Writes("report", d)
        /\ Writes("report", d)' = Writes("report", d) \cup {<<r, done[r] + 1>>}
        /\ Writes("whitelist", d)' = Writes("whitelist", d)
    BY <1>1, <1>5, WritesGrow DEF c
  <2> QED BY <1>3, <2>1, <2>2, CoveredBump
<1>6. CASE d = c /\ msg[r].op = "whitelist"
  <2>1. /\ store'[d].wl_count = Bump(store[d].wl_count)
        /\ store'[d].r_count = store[d].r_count
    BY <1>2, <1>3, <1>6 DEF TypeOK, Incremented, WlIncrement, Record
  <2>2. /\ <<r, done[r] + 1>> \notin Writes("whitelist", d)
        /\ Writes("whitelist", d)' = Writes("whitelist", d) \cup {<<r, done[r] + 1>>}
        /\ Writes("report", d)' = Writes("report", d)
    BY <1>1, <1>6, WritesGrow DEF c
  <2> QED BY <1>3, <2>1, <2>2, CoveredBump
<1> QED BY <1>1, <1>4, <1>5, <1>6

LEMMA FillKeeps ==
  ASSUME UpstreamCounts, IInv, CountedInv, NEW r \in Reqs, L!Fill(r)
  PROVE  CountedInv'
<1> USE DEF IInv
<1>1. /\ msg' = msg /\ done' = done
  BY DEF L!Fill
<1> DEFINE c == msg[r].digests[1]
<1>2. PICK a \in Upstream \ {NoAnswer}, now \in Clock :
        /\ ~HasMatch(store[c])
        /\ store' = [store EXCEPT ![c] = ProxyRecord(a, now)]
  BY SameRecords DEF L!Fill
<1> HIDE DEF c
<1> SUFFICES ASSUME NEW d \in Digests
             PROVE  /\ Covered(store'[d].r_count, Writes("report", d)')
                    /\ Covered(store'[d].wl_count, Writes("whitelist", d)')
  BY DEF CountedInv
<1>3. /\ Covered(store[d].r_count, Writes("report", d))
      /\ Covered(store[d].wl_count, Writes("whitelist", d))
      /\ store[d].r_count \in Int /\ store[d].wl_count \in Int
  BY DEF CountedInv, TypeOK, Record, Counts
<1>4. Writes("report", d)' = Writes("report", d) /\ Writes("whitelist", d)' = Writes("whitelist", d)
  BY <1>1, WritesSame
<1>5. CASE d # c
  <2>1. store'[d] = store[d]
    BY <1>2, <1>5 DEF TypeOK
  <2> QED BY <1>3, <1>4, <2>1
<1>6. CASE d = c
  <2>1. /\ store'[d].r_count = a.r_count /\ store'[d].wl_count = a.wl_count
    BY <1>2, <1>6 DEF TypeOK, ProxyRecord
  <2>2. /\ a.r_count \in Int /\ a.r_count >= 0 /\ a.wl_count \in Int /\ a.wl_count >= 0
    BY ServerAssumption DEF UpstreamCounts, Record, Counts
  <2>3. ~(store[d].r_count > 0) /\ ~(store[d].wl_count > 0)
    BY <1>2, <1>6 DEF HasMatch
  <2> QED BY <1>3, <1>4, <2>1, <2>2, <2>3, CoveredFill
<1> QED BY <1>5, <1>6

LEMMA CountedInductive ==
  ASSUME UpstreamCounts, IInv, CountedInv, Accounted
  PROVE  CountedInv'
<1> USE DEF IInv
<1>1. CASE /\ UNCHANGED <<done, store>>
           /\ \A r \in Reqs : msg'[r] = msg[r] \/ done[r] = 0
  BY <1>1, WritesSame DEF CountedInv
<1>2. ASSUME NEW r \in Reqs, L!Open(r) PROVE CountedInv'
  <2>1. UNCHANGED <<done, store>> /\ pc[r] = "new"
    BY <1>2, PhaseIs DEF L!Open
  <2>2. done[r] = 0 /\ \A s \in Reqs \ {r} : msg'[s] = msg[s]
    BY <1>2, <2>1 DEF L!Open, Indexed, TypeOK
  <2> QED BY <1>1, <2>1, <2>2
<1>3. ASSUME NEW r \in Reqs,
             \/ L!Plain(r) \/ L!LookUp(r) \/ L!Confirm(r) \/ L!Fail(r) \/ L!Answer(r)
      PROVE  CountedInv'
  BY <1>1, <1>3 DEF L!Plain, L!LookUp, L!Confirm, L!Fail, L!Answer
<1>4. CASE UNCHANGED L!lvars
  BY <1>1, <1>4 DEF L!lvars
<1> QED BY <1>2, <1>3, <1>4, CountKeeps, FillKeeps DEF Accounted, L!LNext

\* A report or whitelist answered 200 is counted, digest by digest, and stays so
\* until the counter saturates, without proxy sources, or with sources that
\* never answer a negative count and one request at a time.
THEOREM CountsKept ==
  (NumSources = 0 \/ ~Threads) /\ UpstreamCounts => (Spec => []AcknowledgedKept)
<1> SUFFICES ASSUME Undisturbed, UpstreamCounts PROVE Spec => []AcknowledgedKept
  BY DEF Undisturbed
<1>1. Init => CountedInv
  <2> SUFFICES ASSUME Init, NEW d \in Digests, NEW op
               PROVE  Covered(0, Writes(op, d)) /\ store[d] = Blank
    BY DEF CountedInv, Blank
  <2>1. ASSUME NEW w PROVE w \notin Writes(op, d)
    <3>1. \A r \in Reqs : 1..done[r] = {}
      BY DEF Init
    <3> QED BY <3>1, WriteSet
  <2>2. Writes(op, d) = {}
    BY <2>1
  <2> QED BY <2>2, FS_EmptySet DEF Covered, AtLeastCounted, Init
<1>2. IInv /\ SoundInv /\ MissingInv /\ CountedInv /\ [Next]_vars => CountedInv'
  BY StepAccounted, CountedInductive
<1>3. IInv /\ SoundInv /\ CountedInv => AcknowledgedKept
  <2> SUFFICES ASSUME IInv, SoundInv, CountedInv PROVE AcknowledgedKept
    OBVIOUS
  <2>1. ASSUME NEW op, NEW d, NEW count, Covered(count, Writes(op, d)), count \in Int
        PROVE  AtLeastCounted(count, WritesOf(op, d, TRUE))
    <3>1. WritesOf(op, d, TRUE) \subseteq Writes(op, d)
      BY DEF Writes, WritesOf
    <3>2. /\ Cardinality(WritesOf(op, d, TRUE)) <= Cardinality(Writes(op, d))
          /\ Cardinality(WritesOf(op, d, TRUE)) \in Nat /\ Cardinality(Writes(op, d)) \in Nat
      BY <2>1, <3>1, FS_Subset, FS_CardinalityType DEF Covered
    <3>3. count >= MaxCount \/ count >= Cardinality(Writes(op, d))
      BY <2>1 DEF Covered, AtLeastCounted
    <3>4. ASSUME NEW a \in Nat, NEW b \in Nat, a <= b, count >= MaxCount \/ count >= b
          PROVE  count >= MaxCount \/ count >= a
      BY <2>1, <3>4, RecordsAssumption
    <3>5. count >= MaxCount \/ count >= Cardinality(WritesOf(op, d, TRUE))
      BY <3>2, <3>3, <3>4, Zenon
    <3> QED BY <3>5 DEF AtLeastCounted
  <2>2. ASSUME NEW d \in Digests PROVE store[d].r_count \in Int /\ store[d].wl_count \in Int
    BY DEF IInv, TypeOK, Record, Counts
  <2> QED BY <2>1, <2>2 DEF CountedInv, SoundInv, Sound, AcknowledgedKept
<1> QED BY <1>1, <1>2, <1>3, MissingAlways, PTL DEF Spec
-----------------------------------------------------------------------------
(* The ruzord process around the server.                                       *)

HIDE DEF Codes
USE DEF reqVars, dbVars, authVars, fwdVars, ctlVars, Updates
-----------------------------------------------------------------------------
(* The threads beside the server's.                                            *)

ForwarderPCs == {"receive", "forward", "force", "ended"}
Message == [whitelist : BOOLEAN, digests : Seq(ForwardEntry), left : BOOLEAN, forced : BOOLEAN]

RTypeOK ==
    /\ fpc \in ForwarderPCs /\ next \in Nat
    /\ draining \in BOOLEAN /\ stopping \in BOOLEAN
    /\ current \in Seq(ForwardEntry)
    /\ batches \in [F!Addresses -> [BOOLEAN -> Seq(ForwardEntry)]]
    /\ trail \in [F!Addresses -> Seq(Message)]
    /\ run \in {"serve", "join", "stop", "wait", "leave"}
    /\ early \subseteq Reqs

\* Where the threads may be at the same time.
Together ==
    /\ run # "serve" => mpc \in {"exited", "gone"}
    /\ mpc = "gone" => run = "leave"
    /\ run \in {"serve", "join", "stop"} => ~stopping
    /\ run \in {"stop", "wait"} => Forwarding
    /\ run = "leave" /\ Forwarding => fpc = "ended"
    /\ draining => stopping
    /\ fpc \in {"force", "ended"} => draining
    /\ fopen <=> Forwarding /\ fpc # "ended"
    /\ fpc = "forward" => Len(current) = 1 /\ next \in 1..Len(Servers)
    /\ fpc = "ended" => F!AllForced

\* A signal in recv_from, which makes the loop return.
Interruption ==
    /\ Interrupts /\ mpc = "recv" /\ mpc' = "exited"
    /\ UNCHANGED <<reqVars, dbVars, authVars, fwdVars, reload, shutdown, active>>

\* Each step of the process is one of its server, or one it does not see.
LEMMA ServerMoves ==
  ASSUME Together, [RNext]_rvars
  PROVE  [Next]_vars \/ Interruption
<1>1. CASE ServerStep
  BY <1>1 DEF ServerStep, Next, Control
<1>2. CASE ForwarderLoop
  <2>1. CASE F!ReceiveEntry
    BY <1>2, <2>1 DEF ForwarderLoop, F!ReceiveEntry, F!Take, Next, ForwarderStep, ForwarderTakes
  <2>2. CASE F!End
    <3>1. Alive /\ stopping /\ fopen /\ mpc = "exited"
      BY <1>2, <2>2 DEF ForwarderLoop, F!End, Together, Alive, RTypeOK
    <3> QED BY <1>2, <2>2, <3>1 DEF ForwarderLoop, F!End, Next, ForwarderStep, ForwarderEnds
  <2>3. CASE F!ReceiveTimeout \/ F!Drained \/ F!ForwardToServer \/ F!ForceBatch
    BY <1>2, <2>3 DEF ForwarderLoop, F!ReceiveTimeout, F!Drained, F!ForwardToServer, F!ForceBatch,
                      vars
  <2> QED BY <1>2, <2>1, <2>2, <2>3 DEF ForwarderLoop, F!Loop
<1>3. CASE Sigterm \/ Sigusr1
  BY <1>3 DEF Sigterm, Sigusr1, Interrupted, Interruption, vars
<1>4. CASE Monitor
  <2>1. CASE MonitorShutdown
    BY <2>1 DEF MonitorShutdown, Next, Control, SetShutdown, vars
  <2>2. CASE MonitorStore
    BY <2>2 DEF MonitorStore, Next, Control
  <2>3. CASE MonitorPolls \/ MonitorTerm \/ MonitorReload
    BY <2>3 DEF MonitorPolls, MonitorTerm, MonitorReload
  <2> QED BY <1>4, <2>1, <2>2, <2>3 DEF Monitor
<1>5. CASE Shutdown
  <2>1. CASE ServeReturned
    BY <2>1 DEF ServeReturned, FlagSet, Next, Control, SetShutdown, Alive, vars
  <2>2. CASE JoinMonitor \/ JoinForwarder
    BY <2>2 DEF JoinMonitor, JoinForwarder
  <2>3. CASE StopForwarder
    BY <2>3 DEF StopForwarder, F!Stop, vars
  <2>4. CASE Leave
    BY <2>4 DEF Leave, Next
  <2> QED BY <1>5, <2>1, <2>2, <2>3, <2>4 DEF Shutdown
<1>6. CASE Gone \/ UNCHANGED rvars
  BY <1>6 DEF Gone, rvars
<1> QED BY <1>1, <1>2, <1>3, <1>4, <1>5, <1>6 DEF RNext
-----------------------------------------------------------------------------
(* They stay together.                                                         *)

LEMMA InitTogether == RInit => RTypeOK /\ Together
<1> SUFFICES ASSUME RInit PROVE RTypeOK /\ Together
  OBVIOUS
<1> USE RuzordAssumption DEF RInit, Init, F!ThreadInit
<1>1. /\ batches \in [F!Addresses -> [BOOLEAN -> Seq(ForwardEntry)]]
      /\ trail \in [F!Addresses -> Seq(Message)]
  BY DEF F!Kinds
<1>2. RTypeOK
  <2>1. current \in Seq(ForwardEntry)
    OBVIOUS
  <2>2. next \in Nat
    OBVIOUS
  <2>3. run = "serve" /\ early = {} /\ fpc = "receive" /\ draining = FALSE /\ stopping = FALSE
    OBVIOUS
  <2> QED BY <1>1, <2>1, <2>2, <2>3, Zenon DEF RTypeOK, ForwarderPCs
<1>3. Together
  <2>1. fopen <=> Forwarding /\ fpc # "ended"
    BY Zenon
  <2> QED BY <2>1 DEF Together
<1> QED BY <1>2, <1>3

\* What a turn of forward_one or a forced message does to the maps and to what
\* was sent.
Turn(address, whitelist, digests) ==
    \/ /\ \E left, forced \in BOOLEAN :
            trail' = [trail EXCEPT ![address] =
                        Append(@, [whitelist |-> whitelist, digests |-> digests,
                                   left |-> left, forced |-> forced])]
       /\ batches' = [batches EXCEPT ![address][whitelist] = << >>]
    \/ /\ batches' = [batches EXCEPT ![address][whitelist] = digests]
       /\ UNCHANGED trail

LEMMA AttemptTurn ==
  ASSUME NEW address, NEW whitelist, NEW digests,
         F!Attempt(address, whitelist, digests), F!Unbatched(address, whitelist)
  PROVE  Turn(address, whitelist, digests)
<1>1. \E left \in BOOLEAN :
        trail' = [trail EXCEPT ![address] =
                    Append(@, [whitelist |-> whitelist, digests |-> digests,
                               left |-> left, forced |-> fpc = "force"])]
  BY DEF F!Attempt
<1>2. (fpc = "force") \in BOOLEAN
  OBVIOUS
<1> QED BY <1>1, <1>2, Zenon DEF Turn, F!Unbatched

LEMMA ForwardTurn ==
  ASSUME RTypeOK, Together, F!ForwardToServer
  PROVE  /\ fpc = "forward" /\ next \in 1..Len(Servers) /\ next' = next + 1
         /\ Servers[next] \in F!Addresses /\ current[1] \in ForwardEntry
         /\ current[1].whitelist \in BOOLEAN
         /\ Turn(Servers[next], current[1].whitelist,
                 Append(batches[Servers[next]][current[1].whitelist], current[1]))
         /\ \/ next # Len(Servers) /\ UNCHANGED <<fpc, current>>
            \/ next = Len(Servers) /\ fpc' = "receive" /\ current' = << >>
         /\ UNCHANGED <<fqueue, fopen, draining, stopping>>
<1> DEFINE address == Servers[next]
           whitelist == current[1].whitelist
           digests == Append(batches[address][whitelist], current[1])
<1>1. /\ fpc = "forward" /\ next \in 1..Len(Servers) /\ next' = next + 1
      /\ \/ next # Len(Servers) /\ UNCHANGED <<fpc, current>>
         \/ next = Len(Servers) /\ fpc' = "receive" /\ current' = << >>
      /\ UNCHANGED <<fqueue, fopen, draining, stopping>>
  BY DEF F!ForwardToServer, F!LastServer, Together
<1>2. \/ F!Attempt(address, whitelist, digests) /\ F!Unbatched(address, whitelist)
      \/ batches' = [batches EXCEPT ![address][whitelist] = digests] /\ UNCHANGED trail
  BY DEF F!ForwardToServer
<1>3. address \in F!Addresses /\ current[1] \in ForwardEntry
  <2>1. address \in F!Addresses
    BY <1>1 DEF F!Addresses
  <2>2. current \in Seq(ForwardEntry) /\ Len(current) = 1
    BY <1>1 DEF RTypeOK, Together
  <2>3. current[1] \in ForwardEntry
    BY <2>2, ElementOfSeq
  <2> QED BY <2>1, <2>3
<1>4. whitelist \in BOOLEAN
  BY <1>3 DEF ForwardEntry
<1>5. Turn(address, whitelist, digests)
  <2> HIDE DEF digests, address, whitelist
  <2> QED BY <1>2, AttemptTurn, Zenon DEF Turn
<1> QED BY <1>1, <1>3, <1>4, <1>5

LEMMA ForceTurn ==
  ASSUME F!ForceBatch
  PROVE  /\ fpc = "force" /\ UNCHANGED <<fqueue, fopen, fpc, current, next, draining, stopping>>
         /\ \E whitelist \in BOOLEAN, address \in F!Addresses :
               Turn(address, whitelist, batches[address][whitelist])
<1>1. fpc = "force" /\ UNCHANGED <<fqueue, fopen, fpc, current, next, draining, stopping>>
  BY DEF F!ForceBatch, F!loopVars
<1>2. PICK whitelist \in BOOLEAN, address \in F!Addresses :
        /\ F!Attempt(address, whitelist, batches[address][whitelist])
        /\ F!Unbatched(address, whitelist)
  BY DEF F!ForceBatch, F!Kinds
<1> QED BY <1>1, <1>2, AttemptTurn

LEMMA TurnType ==
  ASSUME RTypeOK, NEW address \in F!Addresses, NEW whitelist \in BOOLEAN,
         NEW digests \in Seq(ForwardEntry), Turn(address, whitelist, digests)
  PROVE  /\ batches' \in [F!Addresses -> [BOOLEAN -> Seq(ForwardEntry)]]
         /\ trail' \in [F!Addresses -> Seq(Message)]
<1>1. CASE batches' = [batches EXCEPT ![address][whitelist] = digests] /\ UNCHANGED trail
  BY <1>1 DEF RTypeOK
<1>2. ASSUME NEW left \in BOOLEAN, NEW forced \in BOOLEAN,
             trail' = [trail EXCEPT ![address] =
                         Append(@, [whitelist |-> whitelist, digests |-> digests,
                                    left |-> left, forced |-> forced])],
             batches' = [batches EXCEPT ![address][whitelist] = << >>]
      PROVE  /\ batches' \in [F!Addresses -> [BOOLEAN -> Seq(ForwardEntry)]]
             /\ trail' \in [F!Addresses -> Seq(Message)]
  <2>1. PICK m \in Message : m = [whitelist |-> whitelist, digests |-> digests,
                                  left |-> left, forced |-> forced]
    BY Zenon DEF Message
  <2>2. trail' = [trail EXCEPT ![address] = Append(@, m)]
    BY <1>2, <2>1, Zenon
  <2>3. trail' \in [F!Addresses -> Seq(Message)]
    BY <2>2 DEF RTypeOK
  <2> QED BY <1>2, <2>3 DEF RTypeOK
<1> QED BY <1>1, <1>2 DEF Turn

\* Of the server's own steps none leaves "exited", and none reaches "gone".
LEMMA ServerStays ==
  ASSUME IInv, InlineAlone, ServerStep
  PROVE  /\ fopen' = fopen
         /\ mpc \in {"exited", "gone"} => mpc' = mpc
         /\ mpc' = "gone" => mpc = "gone"
<1> USE DEF IInv
<1>1. CASE Main
  BY <1>1 DEF Main, LoopTop, LoadPasswd, LoadAccess, SwapAuth, RecvTimeout, SocketFails,
              Receive, Acquire, AfterReceive
<1>2. CASE EditPasswd \/ EditAccess
  BY <1>2 DEF EditPasswd, EditAccess
<1>3. ASSUME NEW r \in Reqs, Work(r)
      PROVE  /\ fopen' = fopen
             /\ mpc \in {"exited", "gone"} => mpc' = mpc
             /\ mpc' = "gone" => mpc = "gone"
  <2>1. fopen' = fopen
    BY <1>3 DEF Work, BeginRead, Authenticate, Authorize, DbLock, DbRead, DbWrite,
                DbFault, Proxy, CacheWrite, Forward, Respond
  <2>2. CASE UNCHANGED ctlVars
    BY <2>1, <2>2
  <2>3. CASE Respond(r)
    <3>1. pc[r] \in Queued \cup Serving
      BY <1>3, WorkerPlace
    <3>2. ~Threads => mpc = "inline" /\ mpc' \in {"top", "exited"}
      BY <2>3, <3>1 DEF InlineAlone, Respond
    <3>3. Threads => mpc' = mpc
      BY <2>3 DEF Respond
    <3> QED BY <2>1, <3>2, <3>3
  <2> QED BY <1>3, <2>2, <2>3, WorkerPlace
<1> QED BY <1>1, <1>2, <1>3 DEF ServerStep

LEMMA ForwarderTogether ==
  ASSUME RTypeOK, Together, IInv, ForwarderLoop
  PROVE  RTypeOK' /\ Together'
<1>1. UNCHANGED <<mpc, run, early>> /\ Forwarding
  BY DEF ForwarderLoop, runVars
<1>2. CASE F!ReceiveEntry
  <2>1. /\ fqueue # << >> /\ current' = << Head(fqueue) >> /\ next' = 1 /\ fpc' = "forward"
        /\ fpc = "receive"
        /\ UNCHANGED <<fopen, draining, stopping, batches, trail>>
    BY <1>2 DEF F!ReceiveEntry, F!Take, F!clientVars
  <2>2. Head(fqueue) \in ForwardEntry
    BY <2>1, HeadTailProperties DEF IInv, TypeOK
  <2>3. current' \in Seq(ForwardEntry) /\ Len(current') = 1
    BY <2>1, <2>2
  <2>4. next' \in 1..Len(Servers) /\ next' \in Nat
    BY <2>1, RuzordAssumption, LenProperties
  <2>5. RTypeOK'
    BY <1>1, <2>1, <2>3, <2>4, Zenon DEF RTypeOK, ForwarderPCs
  <2> QED BY <1>1, <2>1, <2>3, <2>4, <2>5 DEF Together
<1>3. CASE F!ReceiveTimeout \/ F!Drained
  <2>1. /\ UNCHANGED <<fopen, stopping, batches, trail, current, next>>
        /\ \/ fpc' = fpc /\ draining' = TRUE /\ stopping
           \/ fpc' = "force" /\ fpc = "receive" /\ draining /\ draining' = draining
    BY <1>3 DEF F!ReceiveTimeout, F!LeavesLoop, F!Drained, F!clientVars
  <2>2. RTypeOK'
    BY <1>1, <2>1, Zenon DEF RTypeOK, ForwarderPCs
  <2> QED BY <1>1, <2>1, <2>2 DEF Together, F!AllForced, F!Partial
<1>4. CASE F!ForwardToServer
  <2>1. Append(batches[Servers[next]][current[1].whitelist], current[1]) \in Seq(ForwardEntry)
    BY <1>4, ForwardTurn, AppendProperties DEF RTypeOK
  <2>2. /\ batches' \in [F!Addresses -> [BOOLEAN -> Seq(ForwardEntry)]]
        /\ trail' \in [F!Addresses -> Seq(Message)]
    BY <1>4, <2>1, ForwardTurn, TurnType
  <2>4. /\ UNCHANGED <<fopen, draining, stopping>>
        /\ fpc = "forward" /\ next \in 1..Len(Servers) /\ next' = next + 1
        /\ \/ next # Len(Servers) /\ UNCHANGED <<fpc, current>>
           \/ fpc' = "receive" /\ current' = << >>
    BY <1>4, ForwardTurn
  <2>3. next' \in Nat /\ next' = next + 1 /\ current' \in Seq(ForwardEntry)
    <3>1. << >> \in Seq(ForwardEntry)
      OBVIOUS
    <3>2. current' \in Seq(ForwardEntry)
      BY <2>4, <3>1, Zenon DEF RTypeOK
    <3> QED BY <2>4, <3>2 DEF RTypeOK
  <2>5. RTypeOK'
    BY <1>1, <2>2, <2>3, <2>4, Zenon DEF RTypeOK, ForwarderPCs
  <2>6. fpc' = "forward" => Len(current') = 1 /\ next' \in 1..Len(Servers)
    <3>1. Len(Servers) \in Nat
      BY RuzordAssumption, LenProperties
    <3> QED BY <2>3, <2>4, <3>1 DEF Together
  <2>7. fpc' \in {"forward", "receive"}
    BY <2>4
  <2> QED BY <1>1, <2>4, <2>5, <2>6, <2>7 DEF Together
<1>5. CASE F!ForceBatch
  <2>1. /\ fpc = "force" /\ UNCHANGED <<fopen, fpc, current, next, draining, stopping>>
        /\ batches' \in [F!Addresses -> [BOOLEAN -> Seq(ForwardEntry)]]
        /\ trail' \in [F!Addresses -> Seq(Message)]
    BY <1>5, ForceTurn, TurnType DEF RTypeOK
  <2>2. RTypeOK'
    BY <1>1, <2>1, Zenon DEF RTypeOK, ForwarderPCs
  <2> QED BY <1>1, <2>1, <2>2 DEF Together
<1>6. CASE F!End
  <2>1. /\ fpc = "force" /\ fpc' = "ended" /\ fopen' = FALSE /\ F!AllForced
        /\ UNCHANGED <<current, next, draining, stopping, batches, trail>>
    BY <1>6 DEF F!End, F!clientVars
  <2>2. RTypeOK'
    BY <1>1, <2>1, Zenon DEF RTypeOK, ForwarderPCs
  <2> QED BY <1>1, <2>1, <2>2 DEF Together, F!AllForced, F!Partial
<1> QED BY <1>2, <1>3, <1>4, <1>5, <1>6 DEF ForwarderLoop, F!Loop

LEMMA RunTogether ==
  ASSUME RTypeOK, Together, IInv, Shutdown
  PROVE  RTypeOK' /\ Together'
<1> USE DEF loopVars
<1>1. CASE ServeReturned
  <2>1. /\ run = "serve" /\ run' = "join" /\ mpc = "exited"
        /\ UNCHANGED <<mpc, fopen, fpc, current, next, draining, stopping, batches, trail, early>>
    BY <1>1 DEF ServeReturned
  <2>2. RTypeOK'
    BY <2>1, Zenon DEF RTypeOK
  <2> QED BY <2>1, <2>2 DEF Together, F!AllForced, F!Partial
<1>2. CASE JoinMonitor \/ JoinForwarder
  <2>1. /\ \/ run = "join" /\ Forwarding /\ run' = "stop"
           \/ run = "join" /\ ~Forwarding /\ run' = "leave"
           \/ run = "wait" /\ fpc = "ended" /\ run' = "leave"
        /\ UNCHANGED <<mpc, fopen, fpc, current, next, draining, stopping, batches, trail, early>>
    BY <1>2 DEF JoinMonitor, JoinForwarder, ForwarderJoined, vars
  <2>2. RTypeOK'
    BY <2>1, Zenon DEF RTypeOK
  <2> QED BY <2>1, <2>2 DEF Together, F!AllForced, F!Partial
<1>3. CASE StopForwarder
  <2>1. /\ run = "stop" /\ run' = "wait" /\ stopping' = TRUE /\ early' \subseteq Reqs
        /\ UNCHANGED <<mpc, fopen, fpc, current, next, draining, batches, trail>>
    BY <1>3 DEF StopForwarder, F!Stop, F!loopVars, F!clientVars
  <2>2. RTypeOK'
    BY <2>1, Zenon DEF RTypeOK
  <2> QED BY <2>1, <2>2 DEF Together, F!AllForced, F!Partial
<1>4. CASE Leave
  <2>1. /\ run = "leave" /\ mpc' = "gone"
        /\ UNCHANGED <<run, fopen, fpc, current, next, draining, stopping, batches, trail, early>>
    BY <1>4 DEF Leave, Exit, runVars
  <2>2. RTypeOK'
    BY <2>1, Zenon DEF RTypeOK
  <2> QED BY <2>1, <2>2 DEF Together, F!AllForced, F!Partial
<1> QED BY <1>1, <1>2, <1>3, <1>4 DEF Shutdown

LEMMA TogetherStep ==
  ASSUME RTypeOK, Together, IInv, InlineAlone, [RNext]_rvars
  PROVE  RTypeOK' /\ Together'
<1> DEFINE Same == UNCHANGED <<fpc, current, next, draining, stopping, batches, trail, run, early>>
<1>1. ASSUME Same, fopen' = fopen,
             /\ mpc \in {"exited", "gone"} => mpc' = mpc
             /\ mpc' = "gone" => mpc = "gone"
      PROVE  RTypeOK' /\ Together'
  <2>1. RTypeOK'
    BY <1>1, Zenon DEF RTypeOK
  <2> QED BY <1>1, <2>1 DEF Together, F!AllForced, F!Partial
<1>2. CASE ServerStep
  <2>1. Same
    BY <1>2 DEF ServerStep, loopVars, runVars
  <2> QED BY <1>1, <1>2, <2>1, ServerStays
<1>3. CASE Sigterm \/ Sigusr1
  <2>1. Same
    BY <1>3 DEF Sigterm, Sigusr1, Interrupted, loopVars, runVars
  <2>2. /\ fopen' = fopen
        /\ \/ mpc' = mpc
           \/ mpc = "recv" /\ mpc' = "exited"
    BY <1>3 DEF Sigterm, Sigusr1, Interrupted
  <2> QED BY <1>1, <2>1, <2>2
<1>4. CASE Monitor \/ Gone \/ UNCHANGED rvars
  <2>1. Same /\ fopen' = fopen /\ mpc' = mpc
    BY <1>4 DEF Monitor, MonitorPolls, MonitorTerm, MonitorShutdown, MonitorReload, MonitorStore,
                SetReload, Gone, rvars, vars, loopVars, runVars
  <2> QED BY <1>1, <2>1
<1> QED BY <1>2, <1>3, <1>4, ForwarderTogether, RunTogether DEF RNext
-----------------------------------------------------------------------------
(* The server inside.                                                          *)

InnerInv ==
    IInv /\ MutexHeldInSection /\ SoundInv /\ QueueInv /\ InlineAlone

LEMMA InitInner == Init => InnerInv
<1> SUFFICES ASSUME Init PROVE InnerInv
  OBVIOUS
<1>1. MutexHeldInSection
  BY ServerAssumption DEF Init, MutexHeldInSection, Locked
<1>2. QueueInv
  <2>1. fqueue = << >> /\ Len(<< >>) = 0
    BY DEF Init
  <2> QED BY <2>1, ServerAssumption DEF QueueInv, InTurn
<1>3. InlineAlone
  BY DEF Init, InlineAlone, Queued, Serving, Locked
<1> QED BY <1>1, <1>2, <1>3, InitInv, InitSound DEF InnerInv

LEMMA InnerStep ==
  ASSUME InnerInv, [Next]_vars \/ Interruption
  PROVE  InnerInv'
<1> USE DEF InnerInv
<1>1. CASE [Next]_vars
  BY <1>1, StepInv, MutexInductive, SoundInductive, QueueInductive, InlineInductive
<1>2. CASE Interruption
  <2>1. UNCHANGED <<reqVars, dbVars, authVars, fwdVars, reload, shutdown, active>> /\ mpc' = "exited"
    BY <1>2 DEF Interruption
  <2>2. IInv'
    BY <2>1 DEF IInv, TypeOK, Indexed, MPCs
  <2>3. MutexHeldInSection'
    BY <2>1 DEF MutexHeldInSection
  <2>4. SoundInv'
    BY <2>1 DEF SoundInv, Sound, Current
  <2>5. QueueInv'
    BY <2>1 DEF QueueInv, Behind, InTurn
  <2>6. InlineAlone'
    BY <1>2, <2>1 DEF Interruption, InlineAlone
  <2> QED BY <2>2, <2>3, <2>4, <2>5, <2>6
<1> QED BY <1>1, <1>2

ProcessInv == RTypeOK /\ Together /\ InnerInv

LEMMA ProcessInit == RInit => ProcessInv
BY InitTogether, InitInner DEF RInit, ProcessInv

LEMMA ProcessStep == ProcessInv /\ [RNext]_rvars => ProcessInv'
BY ServerMoves, TogetherStep, InnerStep DEF ProcessInv, InnerInv

LEMMA ProcessAlways == RSpec => []ProcessInv
BY ProcessInit, ProcessStep, PTL DEF RSpec

\* The process is a server with everything that is proved of one, if a signal
\* that interrupts recv_from counts among the errors of its socket: the main
\* thread, the monitor, the forwarder and the handlers keep to what Server
\* leaves to its environment (run, spawn_signal_monitor, forward_loop).
THEOREM ServerInside == (Interrupts => "socket" \in Faults) => (RSpec => Spec)
<1> SUFFICES ASSUME Interrupts => "socket" \in Faults PROVE RSpec => Spec
  OBVIOUS
<1>1. Interruption => SocketFails
  BY DEF Interruption, SocketFails
<1>2. SocketFails => Next
  BY DEF Next, Main
<1>3. ProcessInv /\ [RNext]_rvars => [Next]_vars
  BY <1>1, <1>2, ServerMoves DEF ProcessInv
<1>4. RInit => Init
  BY DEF RInit
<1> QED BY <1>3, <1>4, ProcessAlways, PTL DEF RSpec, Spec

\* ... and so keeps what the server promises: one auth state for each request,
\* no lost reload, no more than what was counted in the channel, and no counted
\* update lost.
THEOREM ProcessSafe ==
    (Interrupts => "socket" \in Faults) =>
        (RSpec => [](/\ MutexHeldInSection /\ ReloadNotLost
                     /\ ServedUnderOneAuth /\ ForwardedOnceWritten))
BY ServerInside, MutexSafe, ReloadSafe, AuthSafe, ForwardSafe, PTL
-----------------------------------------------------------------------------
(* What is answered is forwarded.                                              *)

\* An entry is ahead of the forwarder: in the channel, or at hand and not yet
\* added for this server.
Ahead(e, a) ==
    \/ Holds(fqueue, e)
    \/ /\ fpc = "forward" /\ current[1] = e
       /\ \E k \in next..Len(Servers) : Servers[k] = a

\* ... or in a message for this server, kept or sent.
Handed(e, a) ==
    \/ \E whitelist \in BOOLEAN : Holds(batches[a][whitelist], e)
    \/ \E k \in 1..Len(trail[a]) : Holds(trail[a][k].digests, e)

\* The worker has queued its n-th digest.
Passed(r, n) ==
    /\ msg[r].op \in Updates
    /\ \/ pc[r] = "forward" /\ n < at[r]
       \/ pc[r] \in {"reply", "done"} /\ reply[r].code = 200

NothingDropped == fopen =>
    \A r \in Reqs, a \in F!Addresses : \A n \in 1..Len(msg[r].digests) :
        Passed(r, n) => Ahead(Entry(r, n), a) \/ Handed(Entry(r, n), a)

EarlyHanded ==
    /\ \A r \in early : pc[r] = "done"
    /\ fpc \in {"force", "ended"} =>
        \A r \in early, a \in F!Addresses : \A n \in 1..Len(msg[r].digests) :
            Passed(r, n) => Handed(Entry(r, n), a)

\* No list of digests is longer than longest.
Short(longest) ==
    /\ \A r \in Reqs : Len(msg[r].digests) <= longest
    /\ \A k \in 1..Len(fqueue) : fqueue[k].nth \in 1..longest

\* Entries of the channel differ, and so do their places among all that can be
\* queued: a channel as large as that is never full.
LEMMA NeverFull ==
  ASSUME InnerInv, NEW longest \in Nat, Short(longest), IsFiniteSet(Reqs),
         Cardinality(Reqs) * longest <= QueueCap, NEW r \in Reqs, Forward(r)
  PROVE  Len(fqueue) < QueueCap
<1> USE DEF InnerInv
<1>1. /\ fqueue \in Seq(ForwardEntry) /\ Len(fqueue) \in Nat /\ QueueCap \in Nat
      /\ \A k \in 1..Len(fqueue) : fqueue[k] \in ForwardEntry
      /\ InTurn(fqueue)
  BY ServerAssumption, ElementOfSeq, LenProperties DEF IInv, TypeOK, QueueInv
<1>2. at[r] \in 1..longest /\ pc[r] = "forward"
  BY Lengths DEF Forward, IInv, Indexed, Short
<1> DEFINE size == Len(fqueue)
           All == Reqs \X (1..longest)
           place == [k \in 1..(size + 1) |-> IF k = size + 1 THEN <<r, at[r]>>
                                             ELSE <<fqueue[k].by, fqueue[k].nth>>]
<1>3. ASSUME NEW k \in 1..size
      PROVE  /\ k # size + 1 /\ k \in 1..(size + 1)
             /\ fqueue[k].by \in Reqs /\ fqueue[k].nth \in 1..longest /\ fqueue[k].nth \in Nat
             /\ fqueue[k].by = r => fqueue[k].nth < at[r]
  BY <1>1, <1>2, <1>3 DEF ForwardEntry, Short, QueueInv, Behind
<1>4. \A k \in 1..(size + 1) : k = size + 1 \/ k \in 1..size
  BY <1>1
<1>5. place \in [1..(size + 1) -> All]
  BY <1>2, <1>3, <1>4
<1>6. ASSUME NEW j \in 1..(size + 1), NEW k \in 1..(size + 1), j < k PROVE place[j] # place[k]
  <2>1. j \in 1..size
    BY <1>1, <1>6
  <2>2. place[j] = <<fqueue[j].by, fqueue[j].nth>>
    BY <1>3, <2>1
  <2>3. CASE k = size + 1
    <3>1. place[k] = <<r, at[r]>>
      BY <2>3
    <3> QED BY <1>2, <1>3, <2>1, <2>2, <3>1
  <2>4. CASE k \in 1..size
    <3>1. place[k] = <<fqueue[k].by, fqueue[k].nth>>
      BY <1>3, <2>4
    <3>2. fqueue[j].by = fqueue[k].by => fqueue[j].nth < fqueue[k].nth
      BY <1>1, <1>6, <2>1, <2>4 DEF InTurn
    <3> QED BY <1>3, <2>1, <2>2, <2>4, <3>1, <3>2
  <2> QED BY <1>4, <2>3, <2>4
<1>7. place \in Injection(1..(size + 1), All)
  <2> HIDE DEF place, All
  <2>1. \A j, k \in 1..(size + 1) : place[j] = place[k] => j = k
    <3> SUFFICES ASSUME NEW j \in 1..(size + 1), NEW k \in 1..(size + 1), j # k
                 PROVE  place[j] # place[k]
      BY Zenon
    <3>1. j < k \/ k < j
      BY <1>1
    <3> QED BY <1>6, <3>1
  <2> QED BY <1>5, <2>1 DEF Injection, IsInjective
<1>8. IsFiniteSet(All) /\ Cardinality(All) = Cardinality(Reqs) * longest
  <2>1. IsFiniteSet(1..longest) /\ Cardinality(1..longest) = longest
    BY FS_Interval
  <2> QED BY <2>1, FS_Product
<1>9. Cardinality(1..(size + 1)) <= Cardinality(All)
  <2> HIDE DEF place, All
  <2> QED BY <1>7, <1>8, FS_Injection
<1>10. Cardinality(1..(size + 1)) = size + 1
  BY <1>1, FS_Interval
<1>11. size + 1 <= QueueCap
  <2>1. Cardinality(All) \in Nat /\ Cardinality(All) <= QueueCap
    BY <1>8, FS_CardinalityType, Zenon
  <2>2. ASSUME NEW x, NEW y \in Nat, x = size + 1, x <= y, y <= QueueCap PROVE size + 1 <= QueueCap
    BY <1>1, <2>2
  <2> QED BY <1>9, <1>10, <2>1, <2>2, Zenon
<1> QED BY <1>1, <1>11

\* A digest counts as queued only by the step that queues it.
LEMMA PassedStep ==
  ASSUME InnerInv, Forwarding, [Next]_vars \/ Interruption, NEW r \in Reqs,
         NEW n \in 1..Len(msg'[r].digests), Passed(r, n)'
  PROVE  /\ msg'[r] = msg[r]
         /\ \/ Passed(r, n)
            \/ Forward(r) /\ n = at[r]
<1> USE DEF InnerInv
<1>0. pc[r] \in PCs /\ at[r] \in Nat /\ n \in Int /\ pc'[r] \in {"forward", "reply", "done"}
  BY DEF IInv, TypeOK, Passed
<1>1. ASSUME NEW s \in Reqs \ {r}, Work(s) PROVE msg'[r] = msg[r] /\ Passed(r, n)
  <2>1. pc'[r] = pc[r] /\ reply'[r] = reply[r] /\ msg'[r] = msg[r] /\ at'[r] = at[r]
    BY <1>1, OwnState, OwnMemory DEF IInv
  <2> QED BY <2>1 DEF Passed
<1>2. ASSUME Work(r)
      PROVE  /\ msg'[r] = msg[r]
             /\ \/ Passed(r, n)
                \/ Forward(r) /\ n = at[r]
  <2>1. msg' = msg
    BY <1>2 DEF Work, BeginRead, Authenticate, Authorize, DbLock, DbRead, DbWrite,
                DbFault, Proxy, CacheWrite, Forward, Respond
  <2>2. /\ msg[r].op \in {"report", "whitelist"} /\ Len(msg[r].digests) > 0
        /\ pc'[r] \in {"reply", "done"} => reply'[r].code = 200
    BY <2>1 DEF Passed
  <2> USE DEF IInv, TypeOK, GoTo, Settle
  <2>3. CASE BeginRead(r) \/ Authenticate(r) \/ Authorize(r)
    BY <1>0, <2>2, <2>3 DEF BeginRead, Authenticate, Authorize
  <2>4. CASE DbLock(r) \/ DbRead(r)
    BY <1>0, <2>2, <2>4 DEF DbLock, DbRead
  <2>5. CASE DbWrite(r)
    <3>1. pc'[r] = "forward" /\ at'[r] = 1
      BY <1>0, <2>5 DEF DbWrite, Indexed
    <3> QED BY <1>0, <3>1 DEF Passed
  <2>6. CASE DbFault(r)
    BY <1>0, <2>2, <2>6 DEF DbFault
  <2>7. CASE Proxy(r) \/ CacheWrite(r)
    BY <2>2, <2>7 DEF Proxy, CacheWrite, Indexed
  <2>8. CASE Forward(r)
    <3>1. pc[r] = "forward" /\ at'[r] = at[r] + 1 /\ at[r] <= Len(msg[r].digests)
      BY <2>8 DEF Forward, Indexed
    <3>2. n < at[r] \/ n = at[r]
      <4>1. CASE pc'[r] = "forward"
        BY <1>0, <3>1, <4>1 DEF Passed
      <4>2. CASE pc'[r] # "forward"
        <5>1. at[r] = Len(msg[r].digests)
          BY <2>8, <3>1, <4>2 DEF Forward
        <5> QED BY <1>0, <2>1, <5>1
      <4> QED BY <4>1, <4>2
    <3> QED BY <2>1, <2>2, <2>8, <3>1, <3>2 DEF Passed
  <2>9. CASE Respond(r)
    <3>1. pc[r] = "reply" /\ pc'[r] = "done" /\ reply' = reply
      BY <2>9 DEF Respond
    <3> QED BY <2>1, <2>2, <3>1 DEF Passed
  <2> QED BY <1>2, <2>3, <2>4, <2>5, <2>6, <2>7, <2>8, <2>9 DEF Work
<1>3. CASE Main \/ Exit \/ Control \/ ForwarderStep \/ Ended \/ UNCHANGED vars
  <2>1. UNCHANGED <<reply, at>> /\ pc'[r] = pc[r] /\ msg'[r] = msg[r]
    BY <1>0, <1>3, OtherSteps DEF IInv
  <2> QED BY <2>1 DEF Passed
<1>4. CASE Interruption
  BY <1>4 DEF Interruption, Passed
<1> QED BY <1>1, <1>2, <1>3, <1>4 DEF Next

\* A turn hands an entry on, and drops none.
LEMMA TurnHands ==
  ASSUME RTypeOK, NEW address \in F!Addresses, NEW whitelist \in BOOLEAN,
         NEW digests \in Seq(ForwardEntry), Turn(address, whitelist, digests),
         \A x : Holds(batches[address][whitelist], x) => Holds(digests, x)
  PROVE  /\ \A a \in F!Addresses : \A e : Handed(e, a) => Handed(e, a)'
         /\ \A e : Holds(digests, e) => Handed(e, address)'
<1>1. CASE batches' = [batches EXCEPT ![address][whitelist] = digests] /\ UNCHANGED trail
  <2>1. batches'[address][whitelist] = digests
    BY <1>1 DEF RTypeOK
  <2>2. \A a \in F!Addresses, w \in BOOLEAN :
          (a = address /\ w = whitelist) \/ batches'[a][w] = batches[a][w]
    BY <1>1 DEF RTypeOK
  <2>3. ASSUME NEW a \in F!Addresses, NEW e, Handed(e, a) PROVE Handed(e, a)'
    <3>1. CASE \E k \in 1..Len(trail[a]) : Holds(trail[a][k].digests, e)
      BY <1>1, <3>1 DEF Handed
    <3>2. ASSUME NEW w \in BOOLEAN, Holds(batches[a][w], e) PROVE Handed(e, a)'
      <4>1. CASE a = address /\ w = whitelist
        BY <2>1, <3>2, <4>1, Zenon DEF Handed, Holds
      <4>2. CASE batches'[a][w] = batches[a][w]
        BY <3>2, <4>2, Zenon DEF Handed, Holds
      <4> QED BY <2>2, <4>1, <4>2
    <3> QED BY <2>3, <3>1, <3>2 DEF Handed
  <2>4. \A e : Holds(digests, e) => Handed(e, address)'
    BY <2>1, Zenon DEF Handed, Holds
  <2> QED BY <2>3, <2>4, Zenon
<1>2. ASSUME NEW left \in BOOLEAN, NEW forced \in BOOLEAN,
             trail' = [trail EXCEPT ![address] =
                         Append(@, [whitelist |-> whitelist, digests |-> digests,
                                    left |-> left, forced |-> forced])],
             batches' = [batches EXCEPT ![address][whitelist] = << >>]
      PROVE  /\ \A a \in F!Addresses : \A e : Handed(e, a) => Handed(e, a)'
             /\ \A e : Holds(digests, e) => Handed(e, address)'
  <2> DEFINE made == [whitelist |-> whitelist, digests |-> digests, left |-> left,
                      forced |-> forced]
  <2>0. made \in Message /\ made.digests = digests
    BY DEF Message
  <2>1. PICK m \in Message : m = made /\ m.digests = digests
    BY <2>0, Zenon
  <2>2. trail' = [trail EXCEPT ![address] = Append(@, m)]
    BY <1>2, <2>1, Zenon
  <2> DEFINE sent == Append(trail[address], m)
  <2>3. /\ trail'[address] = sent
        /\ \A a \in F!Addresses \ {address} : trail'[a] = trail[a]
    BY <2>2 DEF RTypeOK
  <2>4. /\ Len(sent) = Len(trail[address]) + 1 /\ Len(trail[address]) \in Nat
        /\ \A k \in 1..Len(trail[address]) : sent[k] = trail[address][k]
        /\ sent[Len(trail[address]) + 1] = m
    BY EndOfQueue DEF RTypeOK
  <2> HIDE DEF sent
  <2>5. Len(sent) \in 1..Len(sent) /\ sent[Len(sent)] = m
    BY <2>4
  <2>6. \A k \in 1..Len(trail[address]) : k \in 1..Len(sent)
    BY <2>4
  <2>7. \A e : Holds(digests, e) => Handed(e, address)'
    <3> SUFFICES ASSUME NEW e, Holds(digests, e) PROVE Handed(e, address)'
      OBVIOUS
    <3>1. /\ Len(trail'[address]) \in 1..Len(trail'[address])
          /\ trail'[address][Len(trail'[address])].digests = digests
      BY <2>1, <2>3, <2>5, Zenon
    <3> QED BY <3>1, Zenon DEF Handed, Holds
  <2>8. ASSUME NEW a \in F!Addresses, NEW e, Handed(e, a) PROVE Handed(e, a)'
    <3>1. ASSUME NEW k \in 1..Len(trail[a]), Holds(trail[a][k].digests, e) PROVE Handed(e, a)'
      <4>1. CASE a # address
        <5>1. trail'[a] = trail[a]
          BY <2>3, <4>1
        <5> QED BY <3>1, <5>1, Zenon DEF Handed, Holds
      <4>2. CASE a = address
        <5>1. k \in 1..Len(trail'[a]) /\ trail'[a][k] = trail[a][k]
          BY <2>3, <2>4, <2>6, <3>1, <4>2, Zenon
        <5> QED BY <3>1, <5>1, Zenon DEF Handed, Holds
      <4> QED BY <4>1, <4>2
    <3>2. ASSUME NEW w \in BOOLEAN, Holds(batches[a][w], e) PROVE Handed(e, a)'
      <4>1. CASE a = address /\ w = whitelist
        BY <2>7, <3>2, <4>1
      <4>2. CASE ~(a = address /\ w = whitelist)
        <5>1. batches'[a][w] = batches[a][w]
          BY <1>2, <4>2 DEF RTypeOK
        <5> QED BY <3>2, <5>1, Zenon DEF Handed, Holds
      <4> QED BY <4>1, <4>2
    <3> QED BY <2>8, <3>1, <3>2 DEF Handed
  <2> QED BY <2>7, <2>8, Zenon
<1> QED BY <1>1, <1>2, Zenon DEF Turn

\* A step of the forwarder moves each entry on, and the last one loses none
\* that was handed on.
LEMMA ForwarderKeeps ==
  ASSUME RTypeOK, Together, IInv, ForwarderLoop, NEW a \in F!Addresses, NEW e \in ForwardEntry
  PROVE  /\ Handed(e, a) => Handed(e, a)'
         /\ ~F!End /\ Ahead(e, a) => Ahead(e, a)' \/ Handed(e, a)'
<1>1. CASE F!ReceiveEntry
  <2>1. /\ fqueue # << >> /\ fqueue' = Tail(fqueue) /\ fpc = "receive"
        /\ current'[1] = Head(fqueue) /\ next' = 1 /\ fpc' = "forward"
        /\ UNCHANGED <<batches, trail>>
    BY <1>1 DEF F!ReceiveEntry, F!Take, F!clientVars
  <2>2. Handed(e, a) => Handed(e, a)'
    BY <2>1 DEF Handed
  <2>3. Holds(fqueue, e) => Holds(Tail(fqueue), e) \/ e = Head(fqueue)
    BY <2>1, TailElements DEF IInv, TypeOK
  <2>4. \E k \in 1..Len(Servers) : Servers[k] = a
    BY DEF F!Addresses
  <2>5. e = Head(fqueue) => Ahead(e, a)'
    BY <2>1, <2>4, Zenon DEF Ahead
  <2>6. Holds(Tail(fqueue), e) => Ahead(e, a)'
    BY <2>1, Zenon DEF Ahead, Holds
  <2>7. Ahead(e, a) => Holds(fqueue, e)
    BY <2>1 DEF Ahead
  <2> QED BY <2>2, <2>3, <2>5, <2>6, <2>7
<1>2. CASE F!ReceiveTimeout \/ F!Drained
  <2>1. /\ UNCHANGED <<batches, trail, fqueue, current, next>>
        /\ fpc' = fpc \/ fpc # "forward"
    BY <1>2 DEF F!ReceiveTimeout, F!Drained, F!clientVars
  <2> QED BY <2>1 DEF Handed, Ahead, Holds
<1>3. CASE F!ForwardToServer
  <2>1. /\ fpc = "forward" /\ next \in 1..Len(Servers) /\ next' = next + 1
        /\ Servers[next] \in F!Addresses /\ current[1] \in ForwardEntry
        /\ current[1].whitelist \in BOOLEAN
        /\ Turn(Servers[next], current[1].whitelist,
                Append(batches[Servers[next]][current[1].whitelist], current[1]))
        /\ \/ next # Len(Servers) /\ UNCHANGED <<fpc, current>>
           \/ next = Len(Servers)
        /\ UNCHANGED fqueue
    BY <1>3, ForwardTurn
  <2>3. batches[Servers[next]][current[1].whitelist] \in Seq(ForwardEntry)
    BY <2>1 DEF RTypeOK
  <2>0. Append(batches[Servers[next]][current[1].whitelist], current[1]) \in Seq(ForwardEntry)
    BY <2>1, <2>3, AppendProperties
  <2>2. PICK address \in F!Addresses, whitelist \in BOOLEAN,
             held \in Seq(ForwardEntry), digests \in Seq(ForwardEntry) :
          /\ address = Servers[next] /\ held = batches[address][whitelist]
          /\ digests = Append(held, current[1])
          /\ Turn(address, whitelist, digests)
    BY <2>0, <2>1, <2>3, Zenon
  <2>4. \A x : Holds(digests, x) <=> Holds(held, x) \/ x = current[1]
    BY <2>1, <2>2, HoldsAppend
  <2>5. /\ \A b \in F!Addresses : \A x : Handed(x, b) => Handed(x, b)'
        /\ \A x : Holds(digests, x) => Handed(x, address)'
    <3>1. \A x : Holds(batches[address][whitelist], x) => Holds(digests, x)
      BY <2>2, <2>4, Zenon
    <3> QED BY <2>2, <3>1, TurnHands, Zenon
  <2>6. Holds(fqueue, e) => Ahead(e, a)'
    BY <2>1, Zenon DEF Ahead, Holds
  <2>7. ASSUME current[1] = e, NEW k \in next..Len(Servers), Servers[k] = a
        PROVE  Ahead(e, a)' \/ Handed(e, a)'
    <3>1. CASE k = next
      BY <2>2, <2>4, <2>5, <2>7, <3>1, Zenon
    <3>2. CASE k # next
      <4>1. Len(Servers) \in Nat
        BY RuzordAssumption, LenProperties
      <4>2. next # Len(Servers) /\ k \in (next + 1)..Len(Servers)
        BY <2>1, <2>7, <3>2, <4>1
      <4>3. fpc' = "forward" /\ current'[1] = e /\ k \in next'..Len(Servers)
        BY <2>1, <2>7, <4>2, Zenon
      <4> QED BY <2>7, <4>3, Zenon DEF Ahead
    <3> QED BY <3>1, <3>2
  <2> QED BY <2>5, <2>6, <2>7 DEF Ahead
<1>4. CASE F!ForceBatch
  <2>1. fpc = "force" /\ UNCHANGED <<fqueue, fpc>>
    BY <1>4, ForceTurn
  <2>2. PICK whitelist \in BOOLEAN, address \in F!Addresses :
          Turn(address, whitelist, batches[address][whitelist])
    BY <1>4, ForceTurn
  <2>3. batches[address][whitelist] \in Seq(ForwardEntry)
    BY DEF RTypeOK
  <2>4. Handed(e, a) => Handed(e, a)'
    BY <2>2, <2>3, TurnHands
  <2>5. Ahead(e, a) => Ahead(e, a)'
    BY <2>1, Zenon DEF Ahead, Holds
  <2> QED BY <2>4, <2>5
<1>5. CASE F!End
  BY <1>5 DEF F!End, F!clientVars, Handed, Holds
<1> QED BY <1>1, <1>2, <1>3, <1>4, <1>5 DEF ForwarderLoop, F!Loop

\* What a step outside the forwarder does to its state and to the channel.
LEMMA OutsideForwarder ==
  ASSUME [RNext]_rvars, ~ForwarderLoop
  PROVE  /\ UNCHANGED <<fpc, current, next, batches, trail, fopen>>
         /\ fqueue' = fqueue \/ \E s \in Reqs : Forward(s)
         /\ early' = early \/ StopForwarder
<1>1. CASE ServerStep
  <2>1. UNCHANGED <<fpc, current, next, batches, trail, early>>
    BY <1>1 DEF ServerStep, loopVars, runVars
  <2>2. CASE Main \/ EditPasswd \/ EditAccess
    <3>1. UNCHANGED <<fqueue, fopen>>
      BY <2>2 DEF Main, LoopTop, LoadPasswd, LoadAccess, SwapAuth, RecvTimeout, SocketFails,
                  Receive, Acquire, EditPasswd, EditAccess
    <3> QED BY <2>1, <3>1
  <2>3. ASSUME NEW s \in Reqs, Work(s)
        PROVE  fopen' = fopen /\ (fqueue' = fqueue \/ Forward(s))
    BY <2>3 DEF Work, BeginRead, Authenticate, Authorize, DbLock, DbRead, DbWrite,
                DbFault, Proxy, CacheWrite, Forward, Respond
  <2> QED BY <1>1, <2>1, <2>2, <2>3 DEF ServerStep
<1>2. CASE Sigterm \/ Sigusr1
  BY <1>2 DEF Sigterm, Sigusr1, Interrupted, loopVars, runVars
<1>3. CASE Monitor
  BY <1>3 DEF Monitor, MonitorPolls, MonitorTerm, MonitorShutdown, MonitorReload, MonitorStore,
              SetReload, vars, loopVars, runVars
<1>4. CASE Shutdown
  BY <1>4 DEF Shutdown, ServeReturned, JoinMonitor, StopForwarder, F!Stop, JoinForwarder, Leave,
              Exit, vars, loopVars, runVars, F!loopVars, F!clientVars
<1>5. CASE Gone \/ UNCHANGED rvars
  BY <1>5 DEF Gone, rvars, vars, loopVars, runVars
<1> QED BY <1>1, <1>2, <1>3, <1>4, <1>5 DEF RNext

LEMMA DoneStays ==
  ASSUME InnerInv, [Next]_vars \/ Interruption, NEW r \in Reqs, pc[r] = "done"
  PROVE  pc'[r] = "done" /\ msg'[r] = msg[r] /\ reply'[r] = reply[r]
<1> USE DEF InnerInv, IInv
<1>1. ASSUME NEW s \in Reqs, Work(s)
      PROVE  pc'[r] = "done" /\ msg'[r] = msg[r] /\ reply'[r] = reply[r]
  <2>1. s # r
    BY <1>1, WorkerPlace DEF Queued, Serving, Locked
  <2> QED BY <1>1, <2>1, OwnState
<1>2. CASE Main \/ Exit \/ Control \/ ForwarderStep \/ Ended \/ UNCHANGED vars
  BY <1>2, OtherSteps
<1>3. CASE Interruption
  BY <1>3 DEF Interruption
<1> QED BY <1>1, <1>2, <1>3 DEF Next

\* The entry of a digest the worker has queued.
LEMMA EntryStays ==
  ASSUME InnerInv, NEW r \in Reqs, NEW n \in 1..Len(msg[r].digests), msg'[r] = msg[r]
  PROVE  Entry(r, n) \in ForwardEntry /\ Entry(r, n)' = Entry(r, n)
BY Lengths DEF Entry, ForwardEntry, InnerInv, IInv

LEMMA DroppedStep ==
  ASSUME ProcessInv, NothingDropped, [RNext]_rvars,
         NEW longest \in Nat, Short(longest), IsFiniteSet(Reqs),
         Cardinality(Reqs) * longest <= QueueCap
  PROVE  NothingDropped'
<1> USE DEF ProcessInv
<1>1. [Next]_vars \/ Interruption
  BY ServerMoves
<1> SUFFICES ASSUME fopen', NEW r \in Reqs, NEW a \in F!Addresses,
                    NEW n \in 1..Len(msg'[r].digests), Passed(r, n)'
             PROVE  Ahead(Entry(r, n), a)' \/ Handed(Entry(r, n), a)'
  BY DEF NothingDropped, F!Addresses
<1>2. fopen /\ Forwarding /\ ~F!End
  BY OutsideForwarder DEF ForwarderLoop, F!Loop, F!ReceiveEntry, F!Take, F!ReceiveTimeout,
                          F!Drained, F!ForwardToServer, F!ForceBatch, F!End, Together
<1>3. /\ msg'[r] = msg[r]
      /\ \/ Passed(r, n)
         \/ Forward(r) /\ n = at[r]
  BY <1>1, <1>2, PassedStep
<1>4. PICK e \in ForwardEntry : e = Entry(r, n) /\ e = Entry(r, n)'
  BY <1>3, EntryStays
<1>5. ASSUME NEW s \in Reqs, Forward(s)
      PROVE  /\ \A x : Holds(fqueue, x) => Holds(fqueue', x)
             /\ Holds(fqueue', Entry(s, at[s]))
  <2>1. Len(fqueue) < QueueCap
    BY <1>5, NeverFull
  <2>2. fqueue' = Append(fqueue, Entry(s, at[s]))
    BY <1>2, <1>5, <2>1 DEF Forward
  <2>3. fqueue \in Seq(ForwardEntry) /\ Entry(s, at[s]) \in ForwardEntry
    <3>1. at[s] \in 1..Len(msg[s].digests) /\ Len(msg[s].digests) \in Nat
      BY <1>5, Lengths DEF Forward, Indexed, InnerInv, IInv
    <3> QED BY <3>1, Lengths DEF Entry, ForwardEntry, InnerInv, IInv, TypeOK
  <2>4. \A x : Holds(Append(fqueue, Entry(s, at[s])), x) <=> Holds(fqueue, x) \/ x = Entry(s, at[s])
    BY <2>3, HoldsAppend
  <2> QED BY <2>2, <2>4, Zenon
<1>6. Ahead(e, a)' \/ Handed(e, a)'
  <2>1. CASE Forward(r) /\ n = at[r]
    <3>1. Holds(fqueue', e)
      BY <1>4, <1>5, <2>1, Zenon
    <3> QED BY <3>1, Zenon DEF Ahead, Holds
  <2>2. CASE Passed(r, n)
    <3>1. Ahead(e, a) \/ Handed(e, a)
      BY <1>2, <1>3, <1>4, <2>2, Zenon DEF NothingDropped
    <3>2. CASE ForwarderLoop
      BY <1>2, <3>1, <3>2, ForwarderKeeps DEF InnerInv
    <3>3. CASE ~ForwarderLoop
      <4>1. /\ UNCHANGED <<fpc, current, next, batches, trail>>
            /\ fqueue' = fqueue \/ \E s \in Reqs : Forward(s)
        BY <3>3, OutsideForwarder
      <4>2. Holds(fqueue, e) => Holds(fqueue', e)
        BY <1>5, <4>1, Zenon
      <4>3. CASE Ahead(e, a)
        <5>1. CASE Holds(fqueue, e)
          BY <4>2, <5>1, Zenon DEF Ahead, Holds
        <5>2. CASE ~Holds(fqueue, e)
          BY <4>1, <4>3, <5>2, Zenon DEF Ahead
        <5> QED BY <5>1, <5>2
      <4>4. CASE Handed(e, a)
        BY <4>1, <4>4, Zenon DEF Handed, Holds
      <4> QED BY <3>1, <4>3, <4>4
    <3> QED BY <3>2, <3>3
  <2> QED BY <1>3, <2>1, <2>2
<1> QED BY <1>4, <1>6, Zenon DEF Ahead, Handed, Holds

LEMMA EarlyStep ==
  ASSUME ProcessInv, NothingDropped, EarlyHanded, [RNext]_rvars
  PROVE  EarlyHanded'
<1> USE DEF ProcessInv
<1>1. [Next]_vars \/ Interruption
  BY ServerMoves
<1>2. CASE StopForwarder
  <2>1. /\ run = "stop" /\ early' = {r \in Reqs : pc[r] = "done"}
        /\ UNCHANGED <<pc, fpc>>
    BY <1>2 DEF StopForwarder, F!Stop, F!loopVars
  <2>2. fpc' \notin {"force", "ended"}
    BY <2>1 DEF Together
  <2> QED BY <2>1, <2>2 DEF EarlyHanded
<1>3. CASE ~StopForwarder
  <2>1. early' = early /\ early \subseteq Reqs
    BY <1>3, OutsideForwarder DEF ForwarderLoop, runVars, RTypeOK
  <2>2. \A r \in early : pc'[r] = "done" /\ msg'[r] = msg[r] /\ reply'[r] = reply[r]
    BY <1>1, <2>1, DoneStays DEF EarlyHanded
  <2>3. ASSUME fpc' \in {"force", "ended"}, NEW r \in early, NEW a \in F!Addresses,
               NEW n \in 1..Len(msg'[r].digests), Passed(r, n)'
        PROVE  Handed(Entry(r, n), a)'
    <3>1. /\ r \in Reqs /\ pc[r] = "done" /\ pc'[r] = "done"
          /\ msg'[r] = msg[r] /\ reply'[r] = reply[r] /\ n \in 1..Len(msg[r].digests)
      BY <2>1, <2>2, <2>3 DEF EarlyHanded
    <3>2. Passed(r, n)
      BY <2>3, <3>1 DEF Passed
    <3>3. PICK e \in ForwardEntry : e = Entry(r, n) /\ e = Entry(r, n)'
      BY <3>1, EntryStays
    <3>4. CASE fpc \in {"force", "ended"}
      <4>1. Handed(e, a)
        BY <2>3, <3>1, <3>2, <3>3, <3>4, Zenon DEF EarlyHanded
      <4>2. Handed(e, a)'
        <5>1. CASE ForwarderLoop
          BY <4>1, <5>1, ForwarderKeeps DEF InnerInv
        <5>2. CASE ~ForwarderLoop
          <6>1. UNCHANGED <<batches, trail>>
            BY <5>2, OutsideForwarder
          <6> QED BY <4>1, <6>1, Zenon DEF Handed, Holds
        <5> QED BY <5>1, <5>2
      <4> QED BY <3>3, <4>2, Zenon DEF Handed, Holds
    <3>5. CASE fpc \notin {"force", "ended"}
      <4>1. ForwarderLoop
        <5> SUFFICES ASSUME ~ForwarderLoop PROVE FALSE
          OBVIOUS
        <5>1. fpc' = fpc
          BY OutsideForwarder
        <5> QED BY <2>3, <3>5, <5>1
      <4>2. F!Drained
        <5>1. ~F!ReceiveEntry /\ ~F!ReceiveTimeout /\ ~F!ForceBatch /\ ~F!End
          BY <2>3, <3>5 DEF F!ReceiveEntry, F!Take, F!ReceiveTimeout, F!ForceBatch, F!End,
                            F!loopVars
        <5>2. ~F!ForwardToServer
          BY <2>3, <3>5 DEF F!ForwardToServer
        <5> QED BY <4>1, <5>1, <5>2 DEF ForwarderLoop, F!Loop
      <4>3. /\ fpc = "receive" /\ fqueue = << >> /\ UNCHANGED <<batches, trail>>
            /\ fopen
        BY <4>1, <4>2 DEF F!Drained, F!clientVars, Together, ForwarderLoop
      <4>4. ~Ahead(e, a)
        <5>1. Len(<< >>) = 0
          OBVIOUS
        <5> QED BY <4>3, <5>1 DEF Ahead, Holds
      <4>5. Handed(e, a)
        BY <3>1, <3>2, <3>3, <4>3, <4>4, Zenon DEF NothingDropped
      <4> QED BY <3>3, <4>3, <4>5, Zenon DEF Handed, Holds
    <3> QED BY <3>4, <3>5
  <2> QED BY <2>1, <2>2, <2>3 DEF EarlyHanded, F!Addresses
<1> QED BY <1>2, <1>3

LEMMA ShortStep ==
  ASSUME InnerInv, [Next]_vars \/ Interruption, NEW longest \in Nat, Short(longest),
         \A p \in Packets : Len(p.digests) <= longest
  PROVE  Short(longest)'
<1> USE DEF InnerInv, IInv
<1>1. msg' = msg \/ \E r \in Reqs : Receive(r)
  <2>1. ASSUME NEW r \in Reqs, Work(r) PROVE msg' = msg
    BY <2>1 DEF Work, BeginRead, Authenticate, Authorize, DbLock, DbRead, DbWrite,
                DbFault, Proxy, CacheWrite, Forward, Respond
  <2>2. CASE Exit \/ Control \/ ForwarderStep \/ Ended \/ UNCHANGED vars
    BY <2>2 DEF Exit, Control, ForwarderStep, SetShutdown, SetReload, EditPasswd, EditAccess,
                ForwarderTakes, ForwarderEnds, Ended, vars
  <2>3. CASE Main
    BY <2>3 DEF Main, LoopTop, LoadPasswd, LoadAccess, SwapAuth, RecvTimeout, SocketFails,
                Acquire
  <2>4. CASE Interruption
    BY <2>4 DEF Interruption
  <2> QED BY <2>1, <2>2, <2>3, <2>4 DEF Next
<1>2. \A r \in Reqs : Len(msg'[r].digests) <= longest
  <2>1. CASE msg' = msg
    BY <2>1 DEF Short
  <2>2. ASSUME NEW r \in Reqs, Receive(r) PROVE \A s \in Reqs : Len(msg'[s].digests) <= longest
    BY <2>2 DEF Receive, Short, TypeOK
  <2> QED BY <1>1, <2>1, <2>2
<1>3. ASSUME NEW k \in 1..Len(fqueue') PROVE fqueue'[k].nth \in 1..longest
  <2>1. fqueue \in Seq(ForwardEntry) /\ Len(fqueue) \in Nat
    BY LenProperties DEF TypeOK
  <2>2. CASE fqueue' = fqueue
    BY <1>3, <2>2 DEF Short
  <2>3. CASE fqueue' = << >>
    BY <1>3, <2>3
  <2>4. CASE fqueue # << >> /\ fqueue' = Tail(fqueue)
    <3> DEFINE rest == Tail(fqueue)
    <3>1. /\ Len(rest) = Len(fqueue) - 1 /\ fqueue' = rest
          /\ \A j \in 1..Len(rest) : rest[j] = fqueue[j + 1]
      BY <2>1, <2>4, TailOfQueue
    <3> HIDE DEF rest
    <3>2. k \in 1..Len(rest) /\ k + 1 \in 1..Len(fqueue)
      BY <1>3, <2>1, <3>1
    <3> QED BY <3>1, <3>2 DEF Short
  <2>5. ASSUME NEW r \in Reqs, Forward(r), fqueue' = Append(fqueue, Entry(r, at[r]))
        PROVE  fqueue'[k].nth \in 1..longest
    <3>1. at[r] \in 1..Len(msg[r].digests) /\ Len(msg[r].digests) \in Nat
      BY <2>5, Lengths DEF Forward, Indexed
    <3>2. PICK last \in ForwardEntry : last = Entry(r, at[r]) /\ last.nth \in 1..longest
      <4>1. Entry(r, at[r]) \in ForwardEntry
        BY <3>1, Lengths DEF Entry, ForwardEntry
      <4>2. Entry(r, at[r]).nth \in 1..longest
        BY <3>1 DEF Entry, Short
      <4> QED BY <4>1, <4>2, Zenon
    <3> DEFINE longer == Append(fqueue, last)
    <3>3. /\ Len(longer) = Len(fqueue) + 1 /\ fqueue' = longer
          /\ \A j \in 1..Len(fqueue) : longer[j] = fqueue[j]
          /\ longer[Len(fqueue) + 1] = last
      BY <2>1, <2>5, <3>2, EndOfQueue
    <3> HIDE DEF longer
    <3>4. k \in 1..Len(fqueue) \/ k = Len(fqueue) + 1
      BY <1>3, <2>1, <3>3
    <3> QED BY <3>2, <3>3, <3>4 DEF Short
  <2>6. CASE [Next]_vars
    BY <2>2, <2>3, <2>4, <2>5, <2>6, QueueStep
  <2>7. CASE Interruption
    BY <2>2, <2>7 DEF Interruption
  <2> QED BY <2>6, <2>7
<1> QED BY <1>2, <1>3 DEF Short
-----------------------------------------------------------------------------
(* ... when the process is gone.                                               *)

\* The channel is as large as all that can ever be queued: the worker drops what
\* a full one does not take (try_send), and no smaller size is safe.
Roomy ==
    /\ IsFiniteSet(Reqs)
    /\ \E longest \in Nat :
         /\ \A p \in Packets : Len(p.digests) <= longest
         /\ Cardinality(Reqs) * longest <= QueueCap

KeepInv == NothingDropped /\ EarlyHanded

LEMMA KeepInit == RInit => KeepInv
<1> SUFFICES ASSUME RInit PROVE KeepInv
  OBVIOUS
<1>1. early = {} /\ \A r \in Reqs : pc[r] = "new"
  BY DEF RInit, Init
<1>2. NothingDropped
  <2>1. \A r \in Reqs : \A n \in 1..Len(msg[r].digests) : ~Passed(r, n)
    BY <1>1 DEF Passed
  <2> QED BY <2>1 DEF NothingDropped
<1> QED BY <1>1, <1>2 DEF KeepInv, EarlyHanded

LEMMA ShortInit ==
  ASSUME RInit, NEW longest \in Nat
  PROVE  Short(longest)
<1>1. Len(<< >>) = 0
  OBVIOUS
<1>2. fqueue = << >> /\ \A r \in Reqs : msg[r].digests = << >>
  BY DEF RInit, Init
<1> QED BY <1>1, <1>2 DEF Short

LEMMA KeepAlways == Roomy => (RSpec => [](ProcessInv /\ KeepInv))
<1> SUFFICES ASSUME Roomy PROVE RSpec => [](ProcessInv /\ KeepInv)
  OBVIOUS
<1>1. PICK longest \in Nat : /\ \A p \in Packets : Len(p.digests) <= longest
                             /\ Cardinality(Reqs) * longest <= QueueCap
  BY DEF Roomy
<1>2. RInit => ProcessInv /\ KeepInv /\ Short(longest)
  BY ProcessInit, KeepInit, ShortInit
<1>3. ProcessInv /\ KeepInv /\ Short(longest) /\ [RNext]_rvars
        => (ProcessInv /\ KeepInv /\ Short(longest))'
  <2> SUFFICES ASSUME ProcessInv, KeepInv, Short(longest), [RNext]_rvars
               PROVE  (ProcessInv /\ KeepInv /\ Short(longest))'
    OBVIOUS
  <2>1. ProcessInv'
    BY ProcessStep
  <2>2. NothingDropped'
    BY <1>1, DroppedStep DEF KeepInv, Roomy
  <2>3. EarlyHanded'
    BY EarlyStep DEF KeepInv
  <2>4. Short(longest)'
    <3>1. [Next]_vars \/ Interruption
      BY ServerMoves DEF ProcessInv
    <3> QED BY <1>1, <3>1, ShortStep DEF ProcessInv
  <2> QED BY <2>1, <2>2, <2>3, <2>4 DEF KeepInv
<1> QED BY <1>2, <1>3, PTL DEF RSpec

\* What was answered early is in a message sent to each server.
LEMMA EarlySent ==
  ASSUME ProcessInv, KeepInv, ~Alive, Forwarding, NEW r \in early, Updated(r)
  PROVE  SentOn(r)
<1> USE DEF ProcessInv, KeepInv
<1>1. r \in Reqs /\ pc[r] = "done" /\ fpc = "ended"
  BY DEF RTypeOK, EarlyHanded, Together, Alive
<1>2. ASSUME NEW a \in F!Addresses, NEW n \in 1..Len(msg[r].digests) PROVE AttemptedAt(a, r, n)
  <2>1. Passed(r, n)
    BY <1>1 DEF Passed, Updated
  <2>2. Handed(Entry(r, n), a)
    BY <1>1, <1>2, <2>1, Zenon DEF EarlyHanded
  <2>3. \A whitelist \in BOOLEAN : batches[a][whitelist] = << >>
    BY <1>1 DEF Together, F!AllForced, F!Partial, F!Kinds
  <2>4. ASSUME NEW whitelist \in BOOLEAN PROVE ~Holds(batches[a][whitelist], Entry(r, n))
    <3>1. Len(<< >>) = 0
      OBVIOUS
    <3>2. \A x : ~Holds(<< >>, x)
      BY <3>1 DEF Holds
    <3> QED BY <2>3, <3>2, Zenon
  <2>5. PICK k \in 1..Len(trail[a]) : Holds(trail[a][k].digests, Entry(r, n))
    BY <2>2, <2>4, Zenon DEF Handed
  <2>6. PICK j \in 1..Len(trail[a][k].digests) : trail[a][k].digests[j] = Entry(r, n)
    BY <2>5, Zenon DEF Holds
  <2>7. Entry(r, n).by = r /\ Entry(r, n).nth = n
    BY DEF Entry
  <2> QED BY <2>6, <2>7, Zenon DEF AttemptedAt
<1> QED BY <1>2, Zenon DEF SentOn, F!Addresses

\* Every update answered before the forwarder is stopped is sent on to every
\* remote server: the forwarder passes each entry of the channel to every batch,
\* drains the channel after the stop, and sends the partial batches.
THEOREM AnsweredSafe == Roomy => (RSpec => []AnsweredIsForwarded)
<1>1. ProcessInv /\ KeepInv => AnsweredIsForwarded
  BY EarlySent DEF AnsweredIsForwarded
<1> QED BY <1>1, KeepAlways, PTL

\* Inline, nothing is answered once the loop has returned.
AnsweredEarly == stopping => \A r \in Reqs : pc[r] = "done" => r \in early

LEMMA AnsweredEarlyStep ==
  ASSUME ProcessInv, ~Threads, AnsweredEarly, [RNext]_rvars
  PROVE  AnsweredEarly'
<1> USE DEF ProcessInv, InnerInv, IInv
<1>1. CASE StopForwarder
  <2>1. early' = {r \in Reqs : pc[r] = "done"} /\ pc' = pc
    BY <1>1 DEF StopForwarder
  <2> QED BY <2>1 DEF AnsweredEarly
<1>2. CASE ~StopForwarder
  <2>1. early' = early
    BY <1>2, OutsideForwarder DEF ForwarderLoop, runVars
  <2>2. stopping' = stopping
    <3>1. CASE ForwarderLoop
      BY <3>1 DEF ForwarderLoop, F!Loop, F!ReceiveEntry, F!ReceiveTimeout, F!Drained,
                  F!ForwardToServer, F!ForceBatch, F!End
    <3>2. CASE ServerStep \/ Sigterm \/ Sigusr1
      BY <3>2 DEF ServerStep, Sigterm, Sigusr1, Interrupted, loopVars
    <3>3. CASE Monitor
      BY <3>3 DEF Monitor, MonitorPolls, MonitorTerm, MonitorShutdown, MonitorReload,
                  MonitorStore, loopVars
    <3>4. CASE Shutdown \/ Gone \/ UNCHANGED rvars
      BY <1>2, <3>4 DEF Shutdown, ServeReturned, JoinMonitor, JoinForwarder, Leave, Gone, rvars,
                        loopVars
    <3> QED BY <3>1, <3>2, <3>3, <3>4 DEF RNext
  <2>3. ASSUME stopping, NEW r \in Reqs, pc'[r] = "done" PROVE pc[r] = "done"
    <3>1. mpc \in {"exited", "gone"}
      BY <2>3 DEF Together, RTypeOK
    <3>2. [Next]_vars \/ Interruption
      BY ServerMoves
    <3>3. ASSUME NEW s \in Reqs, Work(s) PROVE FALSE
      BY <3>1, <3>3, WorkerPlace DEF InlineAlone
    <3>4. CASE Main \/ Exit \/ Control \/ ForwarderStep \/ Ended \/ UNCHANGED vars
      BY <2>3, <3>4, OtherSteps
    <3>5. CASE Interruption
      BY <2>3, <3>5 DEF Interruption
    <3> QED BY <3>2, <3>3, <3>4, <3>5 DEF Next
  <2> QED BY <2>1, <2>2, <2>3 DEF AnsweredEarly
<1> QED BY <1>1, <1>2

-----------------------------------------------------------------------------
(* What is sent on has been counted.                                           *)

\* The forwarder has the entry in its hands, in a message or behind it.
Kept(e) ==
    \/ Holds(current, e)
    \/ \E a \in F!Addresses : Handed(e, a)

\* The entry's request is an update that the database holds entirely and that is
\* not refused.
Earned(e) == Behind(e) /\ msg[e.by].op \in Updates

EarnedInv == \A e \in ForwardEntry : Holds(fqueue, e) \/ Kept(e) => Earned(e)

LEMMA EarnedStays ==
  ASSUME InnerInv, [Next]_vars \/ Interruption, NEW e \in ForwardEntry, Earned(e)
  PROVE  Earned(e)'
<1> USE DEF InnerInv, IInv
<1>1. e.by \in Reqs /\ pc[e.by] \in {"forward", "reply", "done"}
  BY DEF ForwardEntry, Earned, Behind
<1>2. CASE [Next]_vars
  <2>1. Behind(e)'
    BY <1>2, BehindStep DEF Earned
  <2>2. msg'[e.by] = msg[e.by]
    <3>1. ASSUME NEW r \in Reqs, Work(r) PROVE msg' = msg
      BY <3>1 DEF Work, BeginRead, Authenticate, Authorize, DbLock, DbRead, DbWrite,
                  DbFault, Proxy, CacheWrite, Forward, Respond
    <3>2. CASE Main \/ Exit \/ Control \/ ForwarderStep \/ Ended \/ UNCHANGED vars
      BY <1>1, <3>2, OtherSteps
    <3> QED BY <1>2, <3>1, <3>2 DEF Next
  <2> QED BY <2>1, <2>2 DEF Earned
<1>3. CASE Interruption
  BY <1>3 DEF Interruption, Earned, Behind
<1> QED BY <1>2, <1>3

\* A turn keeps nothing it was not given.
LEMMA TurnKeeps ==
  ASSUME RTypeOK, NEW address \in F!Addresses, NEW whitelist \in BOOLEAN,
         NEW digests \in Seq(ForwardEntry), Turn(address, whitelist, digests),
         NEW e, NEW a \in F!Addresses, Handed(e, a)'
  PROVE  Handed(e, a) \/ Holds(digests, e)
<1>1. CASE batches' = [batches EXCEPT ![address][whitelist] = digests] /\ UNCHANGED trail
  <2>1. \A w \in BOOLEAN : batches'[a][w] = digests \/ batches'[a][w] = batches[a][w]
    BY <1>1 DEF RTypeOK
  <2>2. CASE \E k \in 1..Len(trail'[a]) : Holds(trail'[a][k].digests, e)
    BY <1>1, <2>2 DEF Handed
  <2>3. ASSUME NEW w \in BOOLEAN, Holds(batches'[a][w], e)
        PROVE  Handed(e, a) \/ Holds(digests, e)
    BY <2>1, <2>3, Zenon DEF Handed
  <2> QED BY <2>2, <2>3, Zenon DEF Handed, Holds
<1>2. ASSUME NEW left \in BOOLEAN, NEW forced \in BOOLEAN,
             trail' = [trail EXCEPT ![address] =
                         Append(@, [whitelist |-> whitelist, digests |-> digests,
                                    left |-> left, forced |-> forced])],
             batches' = [batches EXCEPT ![address][whitelist] = << >>]
      PROVE  Handed(e, a) \/ Holds(digests, e)
  <2> DEFINE made == [whitelist |-> whitelist, digests |-> digests, left |-> left,
                      forced |-> forced]
  <2>0. made \in Message /\ made.digests = digests
    BY DEF Message
  <2>1. PICK m \in Message : m = made /\ m.digests = digests
    BY <2>0, Zenon
  <2>2. trail' = [trail EXCEPT ![address] = Append(@, m)]
    BY <1>2, <2>1, Zenon
  <2> DEFINE sent == Append(trail[address], m)
  <2>3. /\ trail'[address] = sent
        /\ \A b \in F!Addresses \ {address} : trail'[b] = trail[b]
    BY <2>2 DEF RTypeOK
  <2>4. /\ Len(sent) = Len(trail[address]) + 1 /\ Len(trail[address]) \in Nat
        /\ \A k \in 1..Len(trail[address]) : sent[k] = trail[address][k]
        /\ sent[Len(trail[address]) + 1] = m
    BY EndOfQueue DEF RTypeOK
  <2> HIDE DEF sent
  <2>5. \A k \in 1..Len(sent) :
          (k \in 1..Len(trail[address]) /\ sent[k] = trail[address][k]) \/ sent[k] = m
    BY <2>4
  <2>6. ASSUME NEW k \in 1..Len(trail'[a]), Holds(trail'[a][k].digests, e)
        PROVE  Handed(e, a) \/ Holds(digests, e)
    <3>1. CASE a # address
      <4>1. trail'[a] = trail[a]
        BY <2>3, <3>1
      <4> QED BY <2>6, <4>1, Zenon DEF Handed
    <3>2. CASE a = address
      <4>1. \/ k \in 1..Len(trail[a]) /\ trail'[a][k] = trail[a][k]
            \/ trail'[a][k] = m
        BY <2>3, <2>5, <2>6, <3>2, Zenon
      <4> QED BY <2>1, <2>6, <4>1, Zenon DEF Handed
    <3> QED BY <3>1, <3>2
  <2>7. ASSUME NEW w \in BOOLEAN, Holds(batches'[a][w], e)
        PROVE  Handed(e, a) \/ Holds(digests, e)
    <3>1. batches'[a][w] = << >> \/ batches'[a][w] = batches[a][w]
      BY <1>2 DEF RTypeOK
    <3>2. ~Holds(<< >>, e)
      <4>1. Len(<< >>) = 0
        OBVIOUS
      <4> QED BY <4>1 DEF Holds
    <3> QED BY <2>7, <3>1, <3>2, Zenon DEF Handed
  <2> QED BY <2>6, <2>7, Zenon DEF Handed, Holds
<1> QED BY <1>1, <1>2, Zenon DEF Turn

\* The forwarder has only what it took out of the channel.
LEMMA ForwarderTakesOver ==
  ASSUME RTypeOK, Together, IInv, ForwarderLoop, NEW e \in ForwardEntry,
         (Holds(fqueue, e) \/ Kept(e))'
  PROVE  Holds(fqueue, e) \/ Kept(e)
<1>1. CASE F!ReceiveEntry
  <2>1. /\ fqueue # << >> /\ fqueue' = Tail(fqueue) /\ current' = << Head(fqueue) >>
        /\ UNCHANGED <<batches, trail>>
    BY <1>1 DEF F!ReceiveEntry, F!Take, F!clientVars
  <2>2. /\ Holds(Tail(fqueue), e) => Holds(fqueue, e)
        /\ e = Head(fqueue) => Holds(fqueue, e)
    BY <2>1, TailElements DEF IInv, TypeOK
  <2>3. Holds(<< Head(fqueue) >>, e) => e = Head(fqueue)
    BY DEF Holds
  <2>4. Holds(current, e)' => e = Head(fqueue)
    BY <2>1, <2>3, Zenon DEF Holds
  <2>5. Holds(fqueue, e)' => Holds(Tail(fqueue), e)
    BY <2>1, Zenon DEF Holds
  <2>6. (\E a \in F!Addresses : Handed(e, a))' => \E a \in F!Addresses : Handed(e, a)
    BY <2>1 DEF Handed, F!Addresses
  <2> QED BY <2>2, <2>4, <2>5, <2>6 DEF Kept
<1>2. CASE F!ReceiveTimeout \/ F!Drained
  <2>1. UNCHANGED <<batches, trail, fqueue, current>>
    BY <1>2 DEF F!ReceiveTimeout, F!Drained, F!clientVars
  <2> QED BY <2>1 DEF Kept, Handed, Holds, F!Addresses
<1>3. CASE F!ForwardToServer
  <2>1. /\ fpc = "forward" /\ next \in 1..Len(Servers) /\ next' = next + 1
        /\ Servers[next] \in F!Addresses /\ current[1] \in ForwardEntry
        /\ current[1].whitelist \in BOOLEAN
        /\ Turn(Servers[next], current[1].whitelist,
                Append(batches[Servers[next]][current[1].whitelist], current[1]))
        /\ \/ UNCHANGED <<fpc, current>>
           \/ current' = << >>
        /\ UNCHANGED fqueue
    BY <1>3, ForwardTurn
  <2>2. batches[Servers[next]][current[1].whitelist] \in Seq(ForwardEntry)
    BY <2>1 DEF RTypeOK
  <2>3. Append(batches[Servers[next]][current[1].whitelist], current[1]) \in Seq(ForwardEntry)
    BY <2>1, <2>2, AppendProperties
  <2>4. PICK address \in F!Addresses, whitelist \in BOOLEAN,
             held \in Seq(ForwardEntry), digests \in Seq(ForwardEntry) :
          /\ held = batches[address][whitelist]
          /\ digests = Append(held, current[1])
          /\ Turn(address, whitelist, digests)
    BY <2>1, <2>2, <2>3, Zenon
  <2>5. Holds(digests, e) => Holds(held, e) \/ e = current[1]
    BY <2>1, <2>4, HoldsAppend
  <2>6. Holds(current, current[1])
    <3>1. Len(current) = 1
      BY <2>1 DEF Together
    <3> QED BY <3>1 DEF Holds
  <2>7. Holds(held, e) => Handed(e, address)
    BY <2>4, Zenon DEF Handed
  <2>8. ASSUME NEW a \in F!Addresses, Handed(e, a)' PROVE Kept(e)
    <3>1. Handed(e, a) \/ Holds(digests, e)
      BY <2>4, <2>8, TurnKeeps
    <3> QED BY <2>5, <2>6, <2>7, <3>1, Zenon DEF Kept
  <2>9. Holds(current, e)' => Holds(current, e)
    <3>1. ~Holds(<< >>, e)
      <4>1. Len(<< >>) = 0
        OBVIOUS
      <4> QED BY <4>1 DEF Holds
    <3>2. current' = current \/ current' = << >>
      BY <2>1
    <3> QED BY <3>1, <3>2, Zenon DEF Holds
  <2>10. Holds(fqueue, e)' => Holds(fqueue, e)
    BY <2>1, Zenon DEF Holds
  <2> QED BY <2>8, <2>9, <2>10 DEF Kept, F!Addresses
<1>4. CASE F!ForceBatch
  <2>1. UNCHANGED <<fqueue, current>>
    BY <1>4, ForceTurn
  <2>2. PICK whitelist \in BOOLEAN, address \in F!Addresses :
          Turn(address, whitelist, batches[address][whitelist])
    BY <1>4, ForceTurn
  <2>3. batches[address][whitelist] \in Seq(ForwardEntry)
    BY DEF RTypeOK
  <2>4. ASSUME NEW a \in F!Addresses, Handed(e, a)' PROVE Kept(e)
    <3>1. Handed(e, a) \/ Holds(batches[address][whitelist], e)
      BY <2>2, <2>3, <2>4, TurnKeeps
    <3> QED BY <2>2, <3>1, Zenon DEF Kept, Handed
  <2>5. (Holds(fqueue, e) \/ Holds(current, e))' => Holds(fqueue, e) \/ Holds(current, e)
    BY <2>1, Zenon DEF Holds
  <2> QED BY <2>4, <2>5 DEF Kept, F!Addresses
<1>5. CASE F!End
  <2>1. fqueue' = << >> /\ UNCHANGED <<batches, trail, current>>
    BY <1>5 DEF F!End, F!clientVars
  <2>2. ~Holds(fqueue, e)'
    <3>1. Len(<< >>) = 0
      OBVIOUS
    <3> QED BY <2>1, <3>1 DEF Holds
  <2> QED BY <2>1, <2>2 DEF Kept, Handed, Holds, F!Addresses
<1> QED BY <1>1, <1>2, <1>3, <1>4, <1>5 DEF ForwarderLoop, F!Loop

LEMMA EarnedStep ==
  ASSUME ProcessInv, EarnedInv, [RNext]_rvars
  PROVE  EarnedInv'
<1> USE DEF ProcessInv, InnerInv
<1>1. [Next]_vars \/ Interruption
  BY ServerMoves
<1> SUFFICES ASSUME NEW e \in ForwardEntry, (Holds(fqueue, e) \/ Kept(e))' PROVE Earned(e)'
  BY DEF EarnedInv, ForwardEntry
<1>2. ASSUME Holds(fqueue, e) \/ Kept(e) PROVE Earned(e)'
  <2>1. Earned(e)
    BY <1>2, Zenon DEF EarnedInv
  <2> QED BY <1>1, <2>1, EarnedStays
<1>3. CASE ForwarderLoop
  BY <1>2, <1>3, ForwarderTakesOver
<1>4. CASE ~ForwarderLoop
  <2>1. /\ UNCHANGED <<current, batches, trail>>
        /\ fqueue' = fqueue \/ \E s \in Reqs : Forward(s)
    BY <1>4, OutsideForwarder
  <2>2. Kept(e)' => Kept(e)
    BY <2>1, Zenon DEF Kept, Handed, Holds, F!Addresses
  <2>3. CASE fqueue' = fqueue
    <3>1. Holds(fqueue, e)' => Holds(fqueue, e)
      BY <2>3, Zenon DEF Holds
    <3> QED BY <1>2, <2>2, <3>1
  <2>4. ASSUME NEW s \in Reqs, Forward(s), Holds(fqueue, e)', ~Holds(fqueue, e) PROVE Earned(e)'
    <3>1. Behind(e)'
      <4>1. QueueInv'
        BY ProcessStep
      <4> QED BY <2>4, <4>1, Zenon DEF QueueInv, Holds
    <3>2. fqueue' = Append(fqueue, Entry(s, at[s]))
      BY <2>4, Zenon DEF Forward, Holds
    <3>3. fqueue \in Seq(ForwardEntry) /\ Entry(s, at[s]) \in ForwardEntry
      <4>1. at[s] \in 1..Len(msg[s].digests) /\ Len(msg[s].digests) \in Nat
        BY <2>4, Lengths DEF Forward, Indexed, IInv
      <4> QED BY <4>1, Lengths DEF Entry, ForwardEntry, IInv, TypeOK
    <3>4. Holds(Append(fqueue, Entry(s, at[s])), e) => Holds(fqueue, e) \/ e = Entry(s, at[s])
      BY <3>3, HoldsAppend
    <3>5. e = Entry(s, at[s])
      BY <2>4, <3>2, <3>4, Zenon DEF Holds
    <3>6. e.by = s /\ msg'[s] = msg[s] /\ msg[s].op \in Updates
      BY <2>4, <3>5 DEF Entry, Forward, SoundInv, Sound
    <3> QED BY <3>1, <3>6 DEF Earned
  <2> QED BY <1>2, <2>1, <2>2, <2>3, <2>4
<1> QED BY <1>3, <1>4

LEMMA EarnedInit == RInit => EarnedInv
<1> SUFFICES ASSUME RInit, NEW e \in ForwardEntry PROVE ~Holds(fqueue, e) /\ ~Kept(e)
  BY DEF EarnedInv
<1>1. ~Holds(<< >>, e)
  <2>1. Len(<< >>) = 0
    OBVIOUS
  <2> QED BY <2>1 DEF Holds
<1>2. fqueue = << >> /\ current = << >>
  BY DEF RInit, Init, F!ThreadInit
<1>3. ASSUME NEW a \in F!Addresses PROVE ~Handed(e, a)
  <2>1. trail[a] = << >> /\ \A w \in BOOLEAN : batches[a][w] = << >>
    BY DEF RInit, F!ThreadInit, F!Kinds
  <2>2. Len(<< >>) = 0
    OBVIOUS
  <2>3. ~\E k \in 1..Len(trail[a]) : Holds(trail[a][k].digests, e)
    BY <2>1, <2>2
  <2> QED BY <1>1, <2>1, <2>3, Zenon DEF Handed
<1> QED BY <1>1, <1>2, <1>3, Zenon DEF Kept

\* A message sent holds only what was counted for a request it answers.
LEMMA SentEarned ==
  ASSUME ProcessInv, EarnedInv, NEW r \in Reqs, SentAnywhere(r)
  PROVE  /\ msg[r].op \in Updates /\ done[r] = Len(msg[r].digests)
         /\ reply[r].code \in {0, 200} /\ pc[r] \in {"forward", "reply", "done"}
<1>0. PICK a \in F!Addresses : \E k \in 1..Len(trail[a]) :
        \E j \in 1..Len(trail[a][k].digests) : trail[a][k].digests[j].by = r
  BY DEF SentAnywhere
<1>9. PICK k \in 1..Len(trail[a]) :
        \E j \in 1..Len(trail[a][k].digests) : trail[a][k].digests[j].by = r
  BY <1>0
<1>1. PICK j \in 1..Len(trail[a][k].digests) : trail[a][k].digests[j].by = r
  BY <1>9
<1>2. trail[a][k].digests \in Seq(ForwardEntry)
  <2>1. trail[a] \in Seq(Message)
    BY DEF ProcessInv, RTypeOK
  <2>2. trail[a][k] \in Message
    BY <2>1, ElementOfSeq
  <2> QED BY <2>2 DEF Message
<1>3. PICK e \in ForwardEntry : e = trail[a][k].digests[j]
  BY <1>2, ElementOfSeq
<1>4. Handed(e, a)
  BY <1>3, Zenon DEF Handed, Holds
<1>5. Earned(e)
  BY <1>4, Zenon DEF EarnedInv, Kept
<1> QED BY <1>1, <1>3, <1>5 DEF Earned, Behind

\* What is sent on agrees with what is answered: never anything of an update
\* that is not counted entirely or that is answered with an error, and without
\* worker threads, once the process is gone, every update answered 200, to every
\* remote server.
THEOREM ForwardedSafe == ~Threads /\ Roomy => (RSpec => []ForwardedAsAnswered)
<1> SUFFICES ASSUME ~Threads, Roomy PROVE RSpec => []ForwardedAsAnswered
  OBVIOUS
<1>1. RInit => AnsweredEarly
  BY DEF RInit, F!ThreadInit, AnsweredEarly
<1>2. RSpec => []AnsweredEarly
  BY <1>1, ProcessAlways, AnsweredEarlyStep, PTL DEF RSpec
<1>3. RSpec => []EarnedInv
  BY EarnedInit, ProcessAlways, EarnedStep, PTL DEF RSpec
<1>4. ASSUME ProcessInv, KeepInv, AnsweredEarly, EarnedInv PROVE ForwardedAsAnswered
  <2> USE <1>4 DEF ProcessInv, InnerInv
  <2>1. ASSUME NEW r \in Reqs, ~Alive PROVE pc[r] \notin {"forward", "reply"}
    <3>1. mpc = "gone"
      BY <2>1 DEF Alive
    <3> QED BY <3>1 DEF InlineAlone, Serving
  <2>2. ASSUME NEW r \in Reqs, ~Alive, Forwarding, Updated(r) PROVE SentOn(r)
    <3>1. mpc = "gone" /\ stopping
      BY <2>2 DEF Together, Alive
    <3>2. pc[r] \in {"reply", "done"}
      BY <2>2 DEF SoundInv, Sound, Updated
    <3> QED BY <2>1, <2>2, <3>1, <3>2, EarlySent DEF AnsweredEarly
  <2>3. ASSUME NEW r \in Reqs, ~Alive, SentAnywhere(r) PROVE Updated(r)
    <3>1. /\ msg[r].op \in Updates /\ reply[r].code \in {0, 200}
          /\ pc[r] \in {"forward", "reply", "done"}
      BY <1>4, <2>3, SentEarned
    <3>2. pc[r] = "done"
      BY <2>1, <2>3, <3>1
    <3>3. reply[r].code # 0
      BY <3>2 DEF SoundInv, Sound
    <3> QED BY <3>1, <3>3 DEF Updated
  <2>4. \A r \in Reqs : SentAnywhere(r) =>
          /\ msg[r].op \in Updates /\ done[r] = Len(msg[r].digests)
          /\ reply[r].code \in {0, 200}
    BY <1>4, SentEarned
  <2> QED BY <2>2, <2>3, <2>4, Zenon DEF ForwardedAsAnswered
<1> QED BY <1>2, <1>3, <1>4, KeepAlways, PTL
=============================================================================
