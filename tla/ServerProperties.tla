--------------------------- MODULE ServerProperties ---------------------------
(* What the server of Server.tla promises.                                     *)
EXTENDS Server

Reply == [code : Codes, rec : Record]

\* Type correctness: every variable keeps its domain.
TypeOK ==
    /\ msg \in [Reqs -> Packet]
    /\ pc \in [Reqs -> PCs]
    /\ reply \in [Reqs -> Reply]
    /\ done \in [Reqs -> Nat]
    /\ at \in [Reqs -> Nat]
    /\ tmp \in [Reqs -> Record]
    /\ judged \in [Reqs -> AuthState]
    /\ store \in [Digests -> Record]
    /\ dbLock \in Reqs \cup {NoReq}
    /\ poisoned \in BOOLEAN
    /\ auth \in AuthState /\ pending \in AuthState
    /\ files \in AuthState /\ wanted \in AuthState
    /\ mpc \in MPCs
    /\ reload \in BOOLEAN /\ shutdown \in BOOLEAN
    /\ active \in Nat
    /\ fqueue \in Seq(ForwardEntry)
    /\ fopen \in BOOLEAN

\* The loops over digests and over proxy sources stay within their lists: a
\* worker in the database section has a digest left to work on, and the entry
\* queued for forwarding is one of the request's (DigestDatabase::report,
\* really_handle).  With TypeOK it is inductive.
Indexed == \A r \in Reqs :
    /\ pc[r] \in {"new", "accepted", "spawned", "authenticate", "authorize"}
        => done[r] = 0 /\ at[r] = 1
    /\ pc[r] \in {"lock", "read", "write"}
        => done[r] < Len(msg[r].digests) /\ at[r] = 1
    /\ pc[r] \in {"lock", "read"} /\ msg[r].op \notin Updates => done[r] = 0
    /\ pc[r] = "write" => msg[r].op \in Updates
    /\ pc[r] \in {"proxy", "cachelock", "cachewrite"}
        => done[r] = 0 /\ Len(msg[r].digests) > 0 /\ msg[r].op = "check"
    /\ pc[r] = "forward" => at[r] \in 1..Len(msg[r].digests)
    /\ pc[r] = "proxy" => at[r] \in 1..NumSources
-----------------------------------------------------------------------------
(* Threads, the permits and the mutex.                                         *)

\* The thread limiter's counter is the number of threads that hold a permit,
\* so that no more than max_threads serve at once and no permit leaks, whatever
\* way a request ends (ThreadLimiter::acquire, ThreadPermit::drop).
PermitsCounted ==
    Limited => /\ active = Cardinality(PermitHolders)
               /\ active <= MaxThreads

\* The database mutex is held exactly by the worker that is between get and
\* set, also when the engine fails or panics (with_database).
MutexHeldInSection ==
    \A r \in Reqs : pc[r] \in Locked <=> dbLock = r

\* A panic inside the engine poisons the mutex for good, and nothing is
\* written from then on: with_database answers 500 instead.
PoisonIsFinal == [][poisoned => poisoned' /\ UNCHANGED store]_vars
-----------------------------------------------------------------------------
(* Accounts, the ACL and their reload.                                         *)

Permits(version, p) ==
    /\ p.user # Anonymous =>
         /\ Accounts[version.passwd][p.user] # NoKey
         /\ p.key = Accounts[version.passwd][p.user]
    /\ p.op \in Acl[version][p.user]

\* A request is served only when one and the same auth state accepts its
\* signature and grants it the operation: a reload never lets it be
\* authenticated by the old accounts and authorized by the new ACL
\* (auth.read() is kept while really_handle runs).
ServedUnderOneAuth ==
    \A r \in Reqs :
        reply[r].code = 200 \/ done[r] > 0 => Permits(judged[r], msg[r])

AtLeast(version, v) == version.passwd >= v.passwd /\ version.access >= v.access

\* A request to reload is never lost, even one that arrives while an earlier
\* reload is reading the files: once the flag is down again and the new state
\* is installed, it is at least as new as the files at the last request
\* (reload.swap(false) precedes load_auth_state).
ReloadNotLost ==
    ~reload => \/ mpc = "passwd"
               \/ mpc = "access" /\ pending.passwd >= wanted.passwd
               \/ mpc = "swap" /\ AtLeast(pending, wanted)
               \/ AtLeast(auth, wanted)
-----------------------------------------------------------------------------
(* The database.                                                               *)

WritesOf(op, d, answered) ==
    UNION {{<<r, n>> : n \in {n \in 1..done[r] : msg[r].digests[n] = d}} :
           r \in {r \in Reqs : msg[r].op = op /\ (answered => reply[r].code = 200)}}

AtLeastCounted(count, writes) ==
    count >= MaxCount \/ count >= Cardinality(writes)

\* A report or whitelist answered 200 has been counted, once for each digest it
\* names, and stays counted: no interleaving of workers, fault or cached
\* upstream record takes it away, until the counter saturates (really_handle;
\* the get, increment, set of DigestDatabase::report).
AcknowledgedKept ==
    /\ \A r \in Reqs : reply[r].code = 200 /\ msg[r].op \in Updates
                        => done[r] = Len(msg[r].digests)
    /\ \A d \in Digests :
         /\ AtLeastCounted(store[d].r_count, WritesOf("report", d, TRUE))
         /\ AtLeastCounted(store[d].wl_count, WritesOf("whitelist", d, TRUE))

\* Only updates the local database holds entirely are queued for the remote
\* servers, in the order of their digests and each at most once; the channel
\* stays within its capacity (report and whitelist of really_handle,
\* queue_forward_request).
ForwardedOnceWritten ==
    /\ Len(fqueue) <= QueueCap
    /\ \A k \in 1..Len(fqueue) :
         LET e == fqueue[k] IN
         /\ done[e.by] = Len(msg[e.by].digests)
         /\ reply[e.by].code \in {0, 200}
         /\ \A j \in 1..(k - 1) : fqueue[j].by = e.by => fqueue[j].nth < e.nth
-----------------------------------------------------------------------------
(* Progress.                                                                   *)

\* Every datagram the server has received is answered, unless the process ends
\* first.
ReceivedIsAnswered ==
    \A r \in Reqs : pc[r] \in Queued \cup Serving ~> (pc[r] = "done" \/ ~Alive)

\* What the files hold at a request to reload comes into force, however many
\* workers hold the read lock, unless the server is shut down first.
ReloadTakesEffect ==
    \A v \in 1..MaxEdits :
        /\ wanted.passwd = v ~> (auth.passwd >= v \/ mpc \in {"exited", "gone"})
        /\ wanted.access = v ~> (auth.access >= v \/ mpc \in {"exited", "gone"})

\* A shutdown request ends the server, also when the main thread is waiting for
\* a permit or for the readers of the auth state.
ShutdownEnds == shutdown ~> ~Alive

\* The graceful shutdown the README announces: no request that was received is
\* abandoned unanswered.
GracefulShutdown == ~Alive => \A r \in Reqs : pc[r] \in Idle
=============================================================================
