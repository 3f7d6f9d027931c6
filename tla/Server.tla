-------------------------------- MODULE Server --------------------------------
(* The UDP server of src/src/server.rs: the receive loop of                    *)
(* serve_socket_with_control, which answers each datagram inline or in a       *)
(* worker thread of its own, and really_handle, which a worker runs against    *)
(* the database mutex, the RwLock over the accounts and the ACL, the upstream  *)
(* proxy sources and the channel to the forwarder.                             *)
(*                                                                             *)
(* A member of Reqs is one datagram together with the worker that serves it.   *)
(* The lengths of times are abstracted: a receive, a timeout or a wait may     *)
(* end at any moment.  The environment changes the two configuration files,    *)
(* sets the two control flags, takes entries out of the forwarder channel and  *)
(* chooses packets, upstream answers and faults.                               *)
EXTENDS Records, Sequences, FiniteSets

CONSTANTS
    Reqs,        \* datagrams that may arrive, one worker each
    NoReq,       \* no holder of the database mutex
    Digests,
    Users,       \* named accounts
    Anonymous,   \* the user of an unsigned request
    Keys, NoKey, \* account keys; NoKey: no account, or no valid fresh signature
    Packets,     \* the requests that may arrive
    Threads,     \* options.threads
    MaxThreads,  \* options.max_threads, 0 for no limiter
    Forwarding,  \* options.forwarder is Some
    QueueCap,    \* capacity of the forwarder's sync_channel
    NumSources,  \* length of options.proxy_sources
    Upstream,    \* answers a proxy source may give, NoAnswer for none
    NoAnswer,
    Faults,      \* the faults that may occur, see FaultKinds
    Clock,       \* values now_timestamp() may return
    MaxEdits,    \* bound: how often each configuration file is edited
    Accounts,    \* content of the passwd file, for each of its versions
    Acl          \* load_access_file, for each pair of file versions

Ops == {"ping", "pong", "check", "info", "report", "whitelist"}
Updates == {"report", "whitelist"}
\* The PV header: absent, not a number, of another major version, or 2.x.
Versions == {"absent", "invalid", "other", "current"}
Names == Users \cup {Anonymous}
FaultKinds == {"socket",      \* recv_from or try_clone fails
               "send",        \* send_to fails
               "error",       \* the engine returns Err
               "ambiguous",   \* ... although it had applied the write
               "panic"}       \* the engine panics
Edits == 0..MaxEdits
AuthState == [passwd : Edits, access : Edits]
Packet == [op : Ops \cup {"other"}, user : Names, key : Keys \cup {NoKey},
           pv : Versions, digests : Seq(Digests)]

ASSUME ServerAssumption ==
    /\ NoReq \notin Reqs
    /\ Anonymous \notin Users
    /\ NoKey \notin Keys
    /\ Packets \subseteq Packet
    /\ Threads \in BOOLEAN /\ Forwarding \in BOOLEAN
    /\ MaxThreads \in Nat /\ NumSources \in Nat /\ MaxEdits \in Nat
    /\ QueueCap \in Nat \ {0}
    /\ NoAnswer \notin Record
    /\ Upstream \subseteq Record \cup {NoAnswer}
    /\ Faults \subseteq FaultKinds
    /\ Clock \subseteq Nat
    /\ Accounts \in [Edits -> [Users -> Keys \cup {NoKey}]]
    /\ Acl \in [AuthState -> [Names -> SUBSET (Ops \cup {"other"})]]

VARIABLES
    msg,      \* the packet of each request
    pc,       \* where each request, or its worker, is
    reply,    \* the response of each request, code 0 while undecided
    done,     \* digests of a report or whitelist already written
    at,       \* next proxy source, or next digest to queue for forwarding
    tmp,      \* the Record a worker has read
    judged,   \* the auth state under which the request was authenticated
    store,    \* the database: a Record for each digest
    dbLock,   \* holder of the database mutex, or NoReq
    poisoned, \* the database mutex is poisoned
    auth,     \* the versions of the files the RwLock<AuthState> was read from
    pending,  \* new_auth while load_auth_state is building it
    files,    \* the versions of the files on disk
    wanted,   \* history: files at the latest request to reload
    mpc,      \* where the thread of serve_socket_with_control is
    reload, shutdown,   \* the two control flags
    active,   \* ThreadLimiter.active
    fqueue,   \* the forwarder's sync_channel
    fopen     \* the channel's receiver still exists

reqVars  == <<msg, pc, reply, done, at, tmp, judged>>
dbVars   == <<store, dbLock, poisoned>>
authVars == <<auth, pending, files, wanted>>
fwdVars  == <<fqueue, fopen>>
ctlVars  == <<mpc, reload, shutdown, active>>
vars == <<reqVars, dbVars, authVars, fwdVars, ctlVars>>

NoReply == [code |-> 0, rec |-> Blank]
Codes == {0, 200, 400, 401, 403, 500, 501, 505}
Limited == Threads /\ MaxThreads > 0

Idle    == {"new", "done"}
Queued  == {"accepted", "spawned"}        \* received, auth.read() not taken yet
Locked  == {"read", "write", "cachewrite"}
Serving == Locked \cup {"authenticate", "authorize", "lock", "proxy",
                        "cachelock", "forward", "reply"}
PCs  == Idle \cup Queued \cup Serving
MPCs == {"top", "passwd", "access", "swap", "recv", "acquire", "inline",
         "exited", "gone"}

Readers == {r \in Reqs : pc[r] \in Serving}
PermitHolders == {r \in Reqs : pc[r] \in Serving \cup {"spawned"}}
Alive == mpc # "gone"

ForwardEntry == [digest : Digests, whitelist : BOOLEAN, by : Reqs, nth : Nat]
Entry(r, n) == [digest |-> msg[r].digests[n], whitelist |-> msg[r].op = "whitelist",
                by |-> r, nth |-> n]

SomeFiles == [passwd |-> 0, access |-> 0]
Init ==
    /\ msg = [r \in Reqs |-> [op |-> "other", user |-> Anonymous, key |-> NoKey,
                              pv |-> "absent", digests |-> << >>]]
    /\ pc = [r \in Reqs |-> "new"]
    /\ reply = [r \in Reqs |-> NoReply]
    /\ done = [r \in Reqs |-> 0]
    /\ at = [r \in Reqs |-> 1]
    /\ tmp = [r \in Reqs |-> Blank]
    /\ judged = [r \in Reqs |-> SomeFiles]
    /\ store = [d \in Digests |-> Blank]
    /\ dbLock = NoReq /\ poisoned = FALSE
    /\ auth = SomeFiles /\ pending = SomeFiles
    /\ files = SomeFiles /\ wanted = SomeFiles
    /\ mpc = "top" /\ reload = FALSE /\ shutdown = FALSE
    /\ active = 0
    /\ fqueue = << >> /\ fopen = Forwarding

-----------------------------------------------------------------------------
(* The main thread.                                                            *)

\* while !shutdown.load() { if reload.swap(false) { ... } ... }
LoopTop ==
    /\ mpc = "top"
    /\ \/ shutdown /\ mpc' = "exited" /\ UNCHANGED reload
       \/ ~shutdown /\ reload /\ mpc' = "passwd" /\ reload' = FALSE
       \/ ~shutdown /\ ~reload /\ mpc' = "recv" /\ UNCHANGED reload
    /\ UNCHANGED <<reqVars, dbVars, authVars, fwdVars, shutdown, active>>

\* load_auth_state reads the passwd file and then the access file: two reads of
\* two files, between which either may change.
LoadPasswd ==
    /\ mpc = "passwd"
    /\ mpc' = "access"
    /\ pending' = [pending EXCEPT !.passwd = files.passwd]
    /\ UNCHANGED <<reqVars, dbVars, fwdVars, auth, files, wanted, reload, shutdown, active>>

LoadAccess ==
    /\ mpc = "access"
    /\ mpc' = "swap"
    /\ pending' = [pending EXCEPT !.access = files.access]
    /\ UNCHANGED <<reqVars, dbVars, fwdVars, auth, files, wanted, reload, shutdown, active>>

\* Mutant: the new state is assigned without the write lock.
InstallUnlocked == auth' = pending
\* Mutant: try_write() instead of write().
InstallTry == auth' = IF Readers = {} THEN pending ELSE auth
\* auth.write() waits for every worker that holds auth.read().
Install == Readers = {} /\ auth' = pending

\* Mutant: the reload flag is cleared once the files are read, not before.
ClearAfterLoad == reload' = FALSE
KeepFlag == UNCHANGED reload

SwapAuth ==
    /\ mpc = "swap"
    /\ Install
    /\ KeepFlag
    /\ mpc' = "recv"
    /\ UNCHANGED <<reqVars, dbVars, fwdVars, pending, files, wanted, shutdown, active>>

\* recv_from times out after 100 ms.
RecvTimeout ==
    /\ mpc = "recv"
    /\ mpc' = "top"
    /\ UNCHANGED <<reqVars, dbVars, authVars, fwdVars, reload, shutdown, active>>

\* Another error of recv_from (EINTR is one), or try_clone() fails: the loop returns.
SocketFails ==
    /\ mpc = "recv"
    /\ "socket" \in Faults
    /\ mpc' = "exited"
    /\ UNCHANGED <<reqVars, dbVars, authVars, fwdVars, reload, shutdown, active>>

\* Mutant: a worker thread is spawned whatever options.threads says.
AlwaysSpawned == IF Limited THEN "acquire" ELSE "top"
AfterReceive == IF Limited THEN "acquire" ELSE IF Threads THEN "top" ELSE "inline"

Receive(r) ==
    /\ mpc = "recv"
    /\ pc[r] = "new"
    /\ \E p \in Packets : msg' = [msg EXCEPT ![r] = p]
    /\ pc' = [pc EXCEPT ![r] = IF Limited THEN "accepted" ELSE "spawned"]
    /\ mpc' = AfterReceive
    /\ UNCHANGED <<reply, done, at, tmp, judged, dbVars, authVars, fwdVars,
                   reload, shutdown, active>>

\* Mutant: one thread too many.
PermitOffByOne == active <= MaxThreads
PermitAvailable == active < MaxThreads

\* ThreadLimiter::acquire, on the main thread, then thread::spawn.
Acquire(r) ==
    /\ mpc = "acquire"
    /\ pc[r] = "accepted"
    /\ PermitAvailable
    /\ active' = active + 1
    /\ pc' = [pc EXCEPT ![r] = "spawned"]
    /\ mpc' = "top"
    /\ UNCHANGED <<msg, reply, done, at, tmp, judged, dbVars, authVars, fwdVars,
                   reload, shutdown>>

\* serve returned: ruzord leaves and every thread still running ends with it.
Exit ==
    /\ mpc = "exited"
    /\ mpc' = "gone"
    /\ UNCHANGED <<reqVars, dbVars, authVars, fwdVars, reload, shutdown, active>>

-----------------------------------------------------------------------------
(* A worker, or the main thread when it answers inline: really_handle.         *)

GoTo(r, l) == pc' = [pc EXCEPT ![r] = l]

\* The response is decided; what is left is to send it.
Settle(r, code, rec) ==
    /\ reply' = [reply EXCEPT ![r] = [code |-> code, rec |-> rec]]
    /\ GoTo(r, "reply")

\* auth.read() is taken and kept until the response is sent.  (RwLock: it
\* waits for a writer, but SwapAuth is one step.)
BeginRead(r) ==
    /\ Alive /\ pc[r] = "spawned"
    /\ GoTo(r, "authenticate")
    /\ UNCHANGED <<msg, reply, done, at, tmp, judged, dbVars, authVars, fwdVars, ctlVars>>

\* Mutant: an unknown user is compared with an empty key.
UnknownUserOk(r) ==
    LET p == msg[r] IN p.user # Anonymous => p.key = Accounts[auth.passwd][p.user]
SignatureOk(r) ==
    LET p == msg[r] IN
    p.user # Anonymous =>
        /\ Accounts[auth.passwd][p.user] # NoKey
        /\ p.key = Accounts[auth.passwd][p.user]

\* The user and the signature, then the protocol version.
Authenticate(r) ==
    /\ Alive /\ pc[r] = "authenticate"
    /\ judged' = [judged EXCEPT ![r] = auth]
    /\ \/ ~SignatureOk(r) /\ Settle(r, 401, Blank)
       \/ SignatureOk(r) /\ msg[r].pv \in {"absent", "invalid"} /\ Settle(r, 400, Blank)
       \/ SignatureOk(r) /\ msg[r].pv = "other" /\ Settle(r, 505, Blank)
       \/ SignatureOk(r) /\ msg[r].pv = "current" /\ GoTo(r, "authorize") /\ UNCHANGED reply
    /\ UNCHANGED <<msg, done, at, tmp, dbVars, authVars, fwdVars, ctlVars>>

Allowed(r) == msg[r].op \in Acl[auth][msg[r].user]

\* The ACL, then the dispatch on the operation.
Authorize(r) ==
    /\ Alive /\ pc[r] = "authorize"
    /\ \/ ~Allowed(r) /\ Settle(r, 403, Blank)
       \/ /\ Allowed(r)
          /\ \/ msg[r].op = "other" /\ Settle(r, 501, Blank)
             \/ msg[r].op = "ping" /\ Settle(r, 200, Blank)
             \/ /\ msg[r].op = "pong"
                /\ Settle(r, 200, IF msg[r].digests = << >> THEN Blank
                                  ELSE [Blank EXCEPT !.r_count = MaxCount])
             \/ /\ msg[r].op \in Updates \cup {"check", "info"}
                /\ msg[r].digests = << >>
                /\ Settle(r, 200, Blank)
             \/ /\ msg[r].op \in Updates \cup {"check", "info"}
                /\ msg[r].digests # << >>
                /\ GoTo(r, "lock") /\ UNCHANGED reply
    /\ UNCHANGED <<msg, done, at, tmp, judged, dbVars, authVars, fwdVars, ctlVars>>

\* Mutant: the database is used without its mutex.
MutexIgnored == TRUE
MutexFree == dbLock = NoReq

\* Mutant: a poisoned mutex is locked all the same (PoisonError::into_inner).
PoisonIgnored == FALSE
Poisoned == poisoned

ReleaseMutex == dbLock' = NoReq

\* Mutant: set locks the mutex anew, after get has released it.
ReleasedAfterGet == ReleaseMutex
KeptAfterGet == UNCHANGED dbLock

\* Mutant: the guard outlives a failed operation.
GuardLeaked == UNCHANGED dbLock
GuardDropped == ReleaseMutex

\* db.lock().expect("database poisoned"): an error, and no lock, once poisoned.
DbLock(r) ==
    /\ Alive /\ pc[r] \in {"lock", "cachelock"}
    /\ MutexFree
    /\ \/ Poisoned /\ Settle(r, 500, Blank) /\ UNCHANGED dbLock
       \/ /\ ~Poisoned
          /\ dbLock' = r
          /\ GoTo(r, IF pc[r] = "lock" THEN "read" ELSE "cachewrite")
          /\ UNCHANGED reply
    /\ UNCHANGED <<msg, done, at, tmp, judged, store, poisoned, authVars, fwdVars, ctlVars>>

\* The digest the worker is at: the next of a report or whitelist, the first of
\* a check or info.
Current(r) == msg[r].digests[done[r] + 1]

\* A check answers the two counters, an info the whole record.
Shown(op, rec) ==
    IF op = "check" THEN [Blank EXCEPT !.r_count = rec.r_count, !.wl_count = rec.wl_count]
                    ELSE rec

\* Mutant: a hit is proxied too.
MissedOrHit(r) == msg[r].op = "check" /\ NumSources > 0
Missed(r) == msg[r].op = "check" /\ ~HasMatch(store[Current(r)]) /\ NumSources > 0

\* database.get(digest).  An update keeps the mutex and goes on to set; a check
\* or info releases it.
DbRead(r) ==
    /\ Alive /\ pc[r] = "read"
    /\ tmp' = [tmp EXCEPT ![r] = store[Current(r)]]
    /\ \/ /\ msg[r].op \in Updates
          /\ KeptAfterGet
          /\ GoTo(r, "write") /\ UNCHANGED reply
       \/ /\ msg[r].op \notin Updates
          /\ ReleaseMutex
          /\ \/ Missed(r) /\ GoTo(r, "proxy") /\ UNCHANGED reply
             \/ ~Missed(r) /\ Settle(r, 200, Shown(msg[r].op, store[Current(r)]))
    /\ UNCHANGED <<msg, done, at, judged, store, poisoned, authVars, fwdVars, ctlVars>>

Incremented(op, rec, now) ==
    IF op = "report" THEN RIncrement(rec, now) ELSE WlIncrement(rec, now)

Put(r, rec) == store' = [store EXCEPT ![Current(r)] = rec]
Written(r) == done' = [done EXCEPT ![r] = @ + 1]

\* Mutant: only the first digest is counted.
FirstDigest(r) == TRUE
LastDigest(r) == done[r] + 1 = Len(msg[r].digests)

\* record.r_increment() or wl_increment(), then database.set(digest, record);
\* the mutex is released after the last digest.
DbWrite(r) ==
    /\ Alive /\ pc[r] = "write"
    /\ \E now \in Clock : Put(r, Incremented(msg[r].op, tmp[r], now))
    /\ Written(r)
    /\ \/ ~LastDigest(r) /\ GoTo(r, "read") /\ UNCHANGED <<reply, dbLock>>
       \/ /\ LastDigest(r)
          /\ ReleaseMutex
          /\ \/ Forwarding /\ GoTo(r, "forward") /\ UNCHANGED reply
             \/ ~Forwarding /\ Settle(r, 200, Blank)
    /\ UNCHANGED <<msg, at, tmp, judged, poisoned, authVars, fwdVars, ctlVars>>

\* record_from_proxy_response: no answer, an error and a miss are all passed over.
Positive(answer) == answer # NoAnswer /\ HasMatch(answer)

\* The first positive answer wins.
ProxyHit(r) ==
    /\ \E answer \in Upstream, now \in Clock :
         Positive(answer) /\ tmp' = [tmp EXCEPT ![r] = ProxyRecord(answer, now)]
    /\ GoTo(r, "cachelock")
    /\ UNCHANGED <<reply, at>>

\* After the last source the record read before stands.
ProxyMiss(r) ==
    /\ \E answer \in Upstream : ~Positive(answer)
    /\ at' = [at EXCEPT ![r] = @ + 1]
    /\ \/ at[r] < NumSources /\ UNCHANGED <<pc, reply>>
       \/ at[r] = NumSources /\ Settle(r, 200, Shown("check", tmp[r]))
    /\ UNCHANGED tmp

\* proxy_check_miss: Client::check of the next source, without the mutex.
Proxy(r) ==
    /\ Alive /\ pc[r] = "proxy"
    /\ ProxyHit(r) \/ ProxyMiss(r)
    /\ UNCHANGED <<msg, done, judged, dbVars, authVars, fwdVars, ctlVars>>

\* database.set(digest, proxy_record), under a second lock of the mutex.
CacheWrite(r) ==
    /\ Alive /\ pc[r] = "cachewrite"
    /\ Put(r, tmp[r])
    /\ ReleaseMutex
    /\ Settle(r, 200, Shown("check", tmp[r]))
    /\ UNCHANGED <<msg, done, at, tmp, judged, poisoned, authVars, fwdVars, ctlVars>>

\* The engine returns Err or panics inside with_database: the guard is dropped,
\* by an unwinding that poisons the mutex in the case of a panic.
DbFault(r) ==
    /\ Alive /\ pc[r] \in Locked
    /\ GuardDropped
    /\ Settle(r, 500, Blank)
    /\ \E fault \in Faults \cap {"error", "panic"} : poisoned' = (poisoned \/ fault = "panic")
    /\ \/ UNCHANGED <<store, done>>
       \/ /\ "ambiguous" \in Faults /\ ~poisoned'
          /\ \/ /\ pc[r] = "write" /\ Written(r)
                /\ \E now \in Clock : Put(r, Incremented(msg[r].op, tmp[r], now))
             \/ pc[r] = "cachewrite" /\ Put(r, tmp[r]) /\ UNCHANGED done
    /\ UNCHANGED <<msg, at, tmp, judged, authVars, fwdVars, ctlVars>>

\* queue_forward_request: try_send, whose failure is ignored.
Forward(r) ==
    /\ Alive /\ pc[r] = "forward"
    /\ fqueue' = IF fopen /\ Len(fqueue) < QueueCap THEN Append(fqueue, Entry(r, at[r]))
                                                    ELSE fqueue
    /\ at' = [at EXCEPT ![r] = @ + 1]
    /\ \/ at[r] < Len(msg[r].digests) /\ UNCHANGED <<pc, reply>>
       \/ at[r] = Len(msg[r].digests) /\ Settle(r, 200, Blank)
    /\ UNCHANGED <<msg, done, tmp, judged, dbVars, authVars, fopen, ctlVars>>

\* Mutant: the permit is not given back.
PermitLeaked == UNCHANGED active
\* ThreadPermit::drop.
Release == active' = IF Limited /\ active > 0 THEN active - 1 ELSE active

\* send_to, then the worker ends and drops the auth guard and its permit.  A
\* failed send is ignored by a worker thread and ends the inline loop.
Respond(r) ==
    /\ Alive /\ pc[r] = "reply"
    /\ GoTo(r, "done")
    /\ \/ Threads /\ Release /\ UNCHANGED mpc
       \/ /\ ~Threads /\ UNCHANGED active
          /\ \/ mpc' = "top"
             \/ "send" \in Faults /\ mpc' = "exited"
    /\ UNCHANGED <<msg, reply, done, at, tmp, judged, dbVars, authVars, fwdVars,
                   reload, shutdown>>
-----------------------------------------------------------------------------
(* The environment.                                                            *)

SetShutdown ==
    /\ Alive /\ ~shutdown
    /\ shutdown' = TRUE
    /\ UNCHANGED <<reqVars, dbVars, authVars, fwdVars, mpc, reload, active>>

SetReload ==
    /\ Alive
    /\ reload' = TRUE
    /\ wanted' = files
    /\ UNCHANGED <<reqVars, dbVars, auth, pending, files, fwdVars, mpc, shutdown, active>>

EditPasswd ==
    /\ Alive /\ files.passwd < MaxEdits
    /\ files' = [files EXCEPT !.passwd = @ + 1]
    /\ UNCHANGED <<reqVars, dbVars, auth, pending, wanted, fwdVars, ctlVars>>

EditAccess ==
    /\ Alive /\ files.access < MaxEdits
    /\ files' = [files EXCEPT !.access = @ + 1]
    /\ UNCHANGED <<reqVars, dbVars, auth, pending, wanted, fwdVars, ctlVars>>

\* forward_loop receives an entry.
ForwarderTakes ==
    /\ Alive /\ fqueue # << >>
    /\ fqueue' = Tail(fqueue)
    /\ UNCHANGED <<reqVars, dbVars, authVars, fopen, ctlVars>>

\* forward_loop ends, after serve returned, and drops the receiver.
ForwarderEnds ==
    /\ fopen /\ mpc = "exited"
    /\ fopen' = FALSE /\ fqueue' = << >>
    /\ UNCHANGED <<reqVars, dbVars, authVars, ctlVars>>

\* The process has ended.
Ended == ~Alive /\ UNCHANGED vars
-----------------------------------------------------------------------------
Main ==
    \/ LoopTop \/ LoadPasswd \/ LoadAccess \/ SwapAuth
    \/ RecvTimeout \/ SocketFails
    \/ \E r \in Reqs : Receive(r) \/ Acquire(r)

Work(r) ==
    \/ BeginRead(r) \/ Authenticate(r) \/ Authorize(r)
    \/ DbLock(r) \/ DbRead(r) \/ DbWrite(r) \/ DbFault(r)
    \/ Proxy(r) \/ CacheWrite(r) \/ Forward(r) \/ Respond(r)

Control == SetShutdown \/ SetReload \/ EditPasswd \/ EditAccess

ForwarderStep == ForwarderTakes \/ ForwarderEnds

Next ==
    \/ Main \/ Exit
    \/ \E r \in Reqs : Work(r)
    \/ Control \/ ForwarderStep \/ Ended

Spec == Init /\ [][Next]_vars

\* Threads are scheduled: one that can take its next step keeps being able to,
\* the mutex excepted, and each worker takes that at most Len(digests) + 1 times.
Fairness ==
    /\ WF_vars(Main) /\ WF_vars(Exit)
    /\ \A r \in Reqs : WF_vars(Work(r))

FairSpec == Spec /\ Fairness
=============================================================================
